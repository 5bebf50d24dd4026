----------------------------- MODULE RtlNumbers ------------------------------
(***************************************************************************)
(* What librtlsdr.c computes for the demodulator's registers: the ratio of *)
(* the resampler, the frequency of the down-converter, the correction of   *)
(* the sample clock and the packed coefficients of the FIR filter; beside  *)
(* it, what the demodulator makes of these registers.  All in Hz.          *)
(***************************************************************************)
EXTENDS Integers, Sequences

\* (a * 2^n) / b, rounded down, digit by digit: the product does not fit TLC's
\* integers.
Shifted(a, b, n) ==
    LET d[k \in 0..n] ==
            IF k = 0 THEN [q |-> a \div b, left |-> a % b]
            ELSE LET was == d[k-1]
                 IN  [q    |-> 2 * was.q + (2 * was.left) \div b,
                      left |-> (2 * was.left) % b]
    IN  d[n].q

\* DEF_RTL_XTAL_FREQ
Xtal28  == 28800000

\* v in the low bits of a register pair, and such a number read back.
Wrapped(v, bits) == v % (2 ^ bits)
Signed(v, bits)  == IF v >= 2 ^ (bits - 1) THEN v - 2 ^ bits ELSE v
-----------------------------------------------------------------------------
(***************************************************************************)
(* rtlsdr_set_sample_rate.  28 bits of the ratio are kept, less the lowest *)
(* two; the chip takes bit 28 to be what bit 27 is.                        *)
(***************************************************************************)
\* (Mutant: 900 kHz is accepted too.)
AcceptedWithLimit(samp_rate) ==
    samp_rate > 225000 /\ samp_rate <= 3200000 /\ ~(samp_rate > 300000 /\ samp_rate < 900000)
Accepted(samp_rate) ==
    samp_rate > 225000 /\ samp_rate <= 3200000 /\ ~(samp_rate > 300000 /\ samp_rate <= 900000)

RsampRatio(xtal, samp_rate) ==
    LET ratio == Shifted(xtal, samp_rate, 22) IN Wrapped(ratio, 28) - (ratio % 4)
RealRsampRatio(ratio) == ratio + (IF ratio >= 2 ^ 27 THEN 2 ^ 28 ELSE 0)
RealRate(xtal, samp_rate) == Shifted(xtal, RealRsampRatio(RsampRatio(xtal, samp_rate)), 22)

(***************************************************************************)
(* rtlsdr_set_if_freq: minus the frequency, in 22 bits over three registers*)
(***************************************************************************)
IfFreq(freq) == Wrapped(-Shifted(freq, Xtal28, 22), 22)
IfRegisters(freq) ==
    <<IfFreq(freq) \div 65536, (IfFreq(freq) \div 256) % 256, IfFreq(freq) % 256>>

\* The frequency the down-converter moves to 0, from -2^21 to 2^21 steps of
\* Xtal28 / 2^22 = 28125 / 2^12 Hz.
Converted(regs) ==
    LET steps == -Signed(65536 * regs[1] + 256 * regs[2] + regs[3], 22)
    IN  (steps \div 4096) * 28125 + ((steps % 4096) * 28125) \div 4096

(***************************************************************************)
(* rtlsdr_set_sample_freq_correction: 14 bits over two registers.          *)
(***************************************************************************)
\* (ppm * -1) * 2^24 / 1000000, towards zero.
Offset(ppm) ==
    IF ppm < 0 THEN (-ppm * 2 ^ 18) \div 15625 ELSE -((ppm * 2 ^ 18) \div 15625)
OffsetRegisters(ppm) == <<Offset(ppm) % 256, (Offset(ppm) \div 256) % 64>>
-----------------------------------------------------------------------------
(***************************************************************************)
(* rtlsdr_set_fir: eight coefficients of 8 bits, then four pairs of 12 bits*)
(* in three bytes each.                                                    *)
(***************************************************************************)
fir_default == <<-54, -36, -41, -40, -32, -14, 14, 53, 101, 156, 215, 273, 327, 372, 404, 421>>

\* (Mutant: the sign of the second spills into the first.)
SpilledPair(v, w) ==
    <<(v \div 16) % 256, (IF w < 0 THEN 240 ELSE 16 * (v % 16)) + ((w \div 256) % 16), w % 256>>
PackedPair(v, w) == <<(v \div 16) % 256, 16 * (v % 16) + ((w \div 256) % 16), w % 256>>

Fir(coeff) ==
    [i \in 1..8 |-> coeff[i] % 256]
        \o PackedPair(coeff[9], coeff[10]) \o PackedPair(coeff[11], coeff[12])
        \o PackedPair(coeff[13], coeff[14]) \o PackedPair(coeff[15], coeff[16])

\* The coefficients as the demodulator reads them.
Coefficients(fir) ==
    [i \in 1..16 |->
        LET at == 9 + 3 * ((i - 9) \div 2)
        IN  IF i <= 8 THEN Signed(fir[i], 8)
            ELSE IF i % 2 = 1 THEN Signed(16 * fir[at] + fir[at+1] \div 16, 12)
            ELSE Signed(256 * (fir[at+1] % 16) + fir[at+2], 12)]
=============================================================================
