------------------------------- MODULE MCR82xx -------------------------------
(***************************************************************************)
(* Instances of R82xxTuner for TLC.  The R820T is asked for a frequency    *)
(* below the range of its PLL, one inside and one where the divider wraps  *)
(* and is refused; the R828D for one on each side of its input switch.     *)
(* Transfers fail with the R828D, whose driver does all that the other's   *)
(* does.                                                                   *)
(***************************************************************************)
EXTENDS R82xxTuner, TLC

MCFreqs  == "R820T" :> {24000, 400000, 1800000} @@ "R828D" :> {100000, 400000}
MCFaults == "R820T" :> 0 @@ "R828D" :> 1

\* The second try is good, and finds the narrowest filter; the PLL never locks.
MCTries == {<< <<1, 0>>, <<2, 15>> >>, << <<0, 0>> >>}
=============================================================================
