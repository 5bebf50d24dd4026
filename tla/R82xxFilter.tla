----------------------------- MODULE R82xxFilter -----------------------------
(***************************************************************************)
(* r82xx_set_bandwidth: the filters the R820T is given for a bandwidth,    *)
(* the bandwidth that results and the intermediate frequency that centres  *)
(* it, all in kHz, and the values of registers 0x0a and 0x0b.              *)
(***************************************************************************)
EXTENDS Integers, Sequences, FiniteSetsExt

\* r82xx_if_low_pass_bw_table, FILT_HP_BW1 and FILT_HP_BW2.
LowPass == <<1700, 1600, 1550, 1450, 1200, 900, 700, 550, 450, 350>>
HP1 == 350
HP2 == 380

\* The table is searched for the first filter narrower than bw, and the one
\* before it is taken: 0 stands for the index before the first.
\* (Mutant: the first filter that is narrower.)
LowPassIndexFirst(bw) ==
    LET narrower == {k \in DOMAIN LowPass : bw > LowPass[k]}
    IN  IF narrower = {} THEN Len(LowPass) ELSE Min(narrower)
LowPassIndex(bw) ==
    LET narrower == {k \in DOMAIN LowPass : bw > LowPass[k]}
    IN  IF narrower = {} THEN Len(LowPass) ELSE Min(narrower) - 1

\* The two high-pass contributions are taken off one after the other.
AboveHP2(bw) == IF bw > LowPass[1] + HP1 THEN HP2 ELSE 0
AboveHP1(bw) == IF bw - AboveHP2(bw) > LowPass[1] THEN HP1 ELSE 0

SetBandwidth(bw) ==
    IF bw > 7000 THEN [applied |-> 8000, int_freq |-> 4570, reg_0a |-> \h10, reg_0b |-> \h0b]
    ELSE IF bw > 6000 THEN [applied |-> 7000, int_freq |-> 4570, reg_0a |-> \h10, reg_0b |-> \h2a]
    ELSE IF bw > LowPass[1] + HP1 + HP2
         THEN [applied |-> 6000, int_freq |-> 3570, reg_0a |-> \h10, reg_0b |-> \h6b]
    ELSE LET hp    == AboveHP1(bw) + AboveHP2(bw)
             index == LowPassIndex(bw - hp)
             real  == hp + LowPass[index]
         IN  [applied |-> real, int_freq |-> 2300 + hp - real \div 2, reg_0a |-> 0,
              reg_0b |-> 128 + (IF AboveHP2(bw) = 0 THEN \h20 ELSE 0)
                             + (IF AboveHP1(bw) = 0 THEN \h40 ELSE 0) + (16 - index)]
=============================================================================
