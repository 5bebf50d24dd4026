------------------------------ MODULE R82xxGain ------------------------------
(***************************************************************************)
(* The gain of the R820T in tenths of a dB: the steps of its amplifiers,   *)
(* the walk of r82xx_set_gain through them and the table of gains that     *)
(* rtlsdr_get_tuner_gains gives to applications.                           *)
(***************************************************************************)
EXTENDS Integers, Sequences, FiniteSetsExt

\* r82xx_lna_gain_steps and r82xx_mixer_gain_steps, whose entry 0 is 0.
LnaSteps   == <<9, 13, 40, 38, 13, 31, 22, 26, 31, 26, 14, 19, 5, 35, 13>>
MixerSteps == <<5, 10, 10, 19, 9, 10, 25, 17, 10, 8, 16, 13, 6, 3, -8>>

\* What the LNA at index l and the mixer at index m add up to.
TotalGain(l, m) ==
    MapThenSumSet(LAMBDA i : LnaSteps[i], 1..l) + MapThenSumSet(LAMBDA i : MixerSteps[i], 1..m)

\* The walk takes a step of the LNA and one of the mixer in turn until the gain
\* is reached, thirty at most.
LnaIndex(n) == (n + 1) \div 2
MixIndex(n) == n \div 2

Steps(gain) ==
    LET enough == {n \in 0..30 : TotalGain(LnaIndex(n), MixIndex(n)) >= gain}
    IN  IF enough = {} THEN 30 ELSE Min(enough)

\* rtlsdr_get_tuner_gains for the R820T and R828D.
GainTable == <<0, 9, 14, 27, 37, 77, 87, 125, 144, 157, 166, 197, 207, 229, 254, 280,
               297, 328, 338, 364, 372, 386, 402, 421, 434, 439, 445, 480, 496>>
=============================================================================
