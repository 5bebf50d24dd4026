------------------------------- MODULE R82xxPll ------------------------------
(***************************************************************************)
(* The synthesiser of the R820T and R828D: what r82xx_set_pll writes for a *)
(* frequency, and the frequency that follows from what it wrote, all in    *)
(* kHz.  The divider is computed in 8 bits, as in the code.                *)
(***************************************************************************)
EXTENDS Integers, FiniteSetsExt

\* The range of the oscillator, and the dividers of its output.
VcoMin  == 1770000
VcoMax  == 2 * VcoMin
MixDivs == {2 ^ n : n \in 1..6}

\* The search for a divider ends at 128, with a divider field of 0, when no
\* divider brings f into the range.
\* (Mutant: the divider by 64 is not tried.)
FittingTo32(f) == {d \in MixDivs \ {64} : f * d >= VcoMin /\ f * d < VcoMax}
Fitting(f)     == {d \in MixDivs : f * d >= VcoMin /\ f * d < VcoMax}

MixDiv(f) == IF Fitting(f) = {} THEN 128 ELSE Min(Fitting(f))
DivNum(f) == IF Fitting(f) = {} THEN 0 ELSE CHOOSE n \in 0..5 : 2 ^ (n + 1) = MixDiv(f)

\* vco_power_ref of the two chips: a fine tuning read from the chip that lies
\* above it or below, by fine, moves the divider field by one, in 8 bits of which
\* the register takes three.
PowerRef(chip) == IF chip = "R828D" THEN 1 ELSE 2
DivField(f, fine) ==
    (DivNum(f) + (IF fine > 0 THEN -1 ELSE IF fine < 0 THEN 1 ELSE 0)) % 8

\* nint, an 8-bit number, and the contribution that is left to the modulator.
Nint(f, xtal)   == ((f * MixDiv(f)) \div (2 * xtal)) % 256
VcoFra(f, xtal) == f * MixDiv(f) - 2 * xtal * Nint(f, xtal)

ValidNint(f, xtal, ref) == Nint(f, xtal) <= (128 \div ref) - 1

\* Register 0x14: ni + (si << 6), both 8-bit; C's division goes towards zero.
NiSi(nint) ==
    LET ni == IF nint >= 13 THEN (nint - 13) \div 4 ELSE (-((13 - nint) \div 4)) % 256
        si == (nint - 4 * ni - 13) % 256
    IN  (ni + 64 * si) % 256

\* The modulator: bit 16 - k of sdm is set when what is left exceeds its share.
Share(xtal, k) == (2 * xtal) \div (2 ^ k)

Modulator(fra, xtal) ==
    LET m[k \in 0..15] ==
            IF k = 0 THEN [left |-> fra, sdm |-> 0]
            ELSE LET was   == m[k-1]
                     share == Share(xtal, k)
                 IN  IF was.left > 1 /\ was.left > share
                     THEN [left |-> was.left - share, sdm |-> was.sdm + 2 ^ (16 - k)]
                     ELSE was
    IN  m

Sdm(fra, xtal) == Modulator(fra, xtal)[15].sdm

\* n_sdm is 16 bits wide: when more than 1 kHz is left and the share of the last
\* bit was not exceeded, it is shifted out and the next share is divided by 0.
DividesByZero(fra, xtal) ==
    LET left == Modulator(fra, xtal)[14].left
    IN  left > 1 /\ left <= Share(xtal, 15)
-----------------------------------------------------------------------------
(***************************************************************************)
(* The chip: the frequency that its registers make of the crystal's.  256  *)
(* divides twice the crystal's frequency for the crystals in use.          *)
(***************************************************************************)
Synthesised(div, nisi, sdm, xtal) ==
    LET nint == 4 * (nisi % 64) + nisi \div 64 + 13
    IN  (2 * xtal * nint + ((((2 * xtal) \div 256) * sdm) \div 256)) \div (2 ^ (div + 1))

\* The frequencies for which some divider fits.
PllRange(f) == 64 * f >= VcoMin /\ 2 * f < VcoMax
=============================================================================
