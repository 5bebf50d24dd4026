--------------------------- MODULE StreamContract ----------------------------
(***************************************************************************)
(* What rtlsdr_read_async and rtlsdr_cancel_async promise together: a      *)
(* stream is started, lends its buffers to the USB stack while it lasts,   *)
(* is cancelled once, and ends only when every buffer is home again.       *)
(***************************************************************************)
CONSTANT Buffers

VARIABLES phase,  \* of the device: idle, streaming, or draining after a cancel
          lent    \* the buffers the USB stack may still write to

vars == <<phase, lent>>

Init == phase = "idle" /\ lent = {}

Start == phase = "idle" /\ phase' = "streaming" /\ UNCHANGED lent

Lend(b) ==
    /\ phase # "idle"
    /\ b \notin lent
    /\ lent' = lent \cup {b}
    /\ UNCHANGED phase

GiveBack(b) ==
    /\ b \in lent
    /\ lent' = lent \ {b}
    /\ UNCHANGED phase

Cancel == phase = "streaming" /\ phase' = "draining" /\ UNCHANGED lent

Finish ==
    /\ phase = "draining"
    /\ lent = {}
    /\ phase' = "idle"
    /\ UNCHANGED lent

Next == Start \/ Cancel \/ Finish \/ \E b \in Buffers : Lend(b) \/ GiveBack(b)

Spec == Init /\ [][Next]_vars
=============================================================================
