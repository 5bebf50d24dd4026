----------------------------- MODULE MCRtlDevice -----------------------------
(***************************************************************************)
(* The instance of RtlDevice and RtlEeprom that TLC checks.                *)
(*                                                                         *)
(* One tuner of each kind that the code treats apart: an R82xx, a zero-IF  *)
(* one, the last in the order of the probes and reset by GPIO 5, and one   *)
(* nobody knows.  A code that fits one buffer and not the other; one fault.*)
(*                                                                         *)
(* The EEPROM of the dongle: two cells, at each of which blocks of every   *)
(* length start, end or would wrap; two values; two errors.  It is blank at*)
(* first, and what is written makes it anything else.  Its two calls look  *)
(* at nothing that another call changes, and no other call looks at it, so *)
(* that it is enough to follow them alone, from where rtlsdr_open has      *)
(* brought up one of the dongles for the first time.                       *)
(***************************************************************************)
EXTENDS RtlDevice, RtlEeprom

Blank     == cmd = 0 /\ \A c \in 0..Cells-1 : eeprom[c] = 0
BroughtUp == call = "open" /\ fitted = "R820T" /\ ir = OFF /\ faults = 0 /\ 0 \notin regs["GPOE"]

DongleInit == Init /\ EepromInit /\ Blank
DongleNext ==
    \/ Next /\ op = "none" /\ UNCHANGED eepromVars
    \/ EepromNext /\ BroughtUp /\ UNCHANGED vars

DongleSpec == DongleInit /\ [][DongleNext]_<<vars, eepromVars>> /\ Fairness
=============================================================================
