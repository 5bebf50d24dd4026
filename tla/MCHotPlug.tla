------------------------------ MODULE MCHotPlug ------------------------------
(***************************************************************************)
(* HotPlug for TLC: two dongles and a device that is none, one of which    *)
(* may be handled by start and another by a callback.                      *)
(***************************************************************************)
EXTENDS HotPlug
=============================================================================
