------------------------------- MODULE MCTuning ------------------------------
(***************************************************************************)
(* Instances of Tuning for TLC.  The frequencies lie on both sides of the  *)
(* threshold, and the bandwidths give the R820T three intermediate         *)
(* frequencies.                                                            *)
(***************************************************************************)
EXTENDS Tuning
=============================================================================
