------------------------------- MODULE BringUp -------------------------------
(***************************************************************************)
(* What the two programs of this repository write to the RTL2832U of an    *)
(* R820T dongle to bring it up, byte by byte: rtlsdr_open of the C sources *)
(* and RTLSDR.init of the Swift class, its port.  Neither list holds what  *)
(* the driver of the tuner sends to the tuner.                             *)
(***************************************************************************)
EXTENDS Integers, Sequences, SequencesExt, RtlNumbers

\* Writes of one byte, of two with the high one first, and of one byte each to
\* registers in a row.
One(block, addr, val)   == << [at |-> <<block, addr>>, val |-> val % 256] >>
Two(block, addr, val)   == One(block, addr, val \div 256) \o One(block, addr + 1, val)
Row(block, addr, bytes) == [n \in DOMAIN bytes |-> [at |-> <<block, addr + n - 1>>, val |-> bytes[n]]]

\* The registers as writes leave them.
Left(writes) ==
    [r \in {w.at : w \in Range(writes)} |->
        writes[CHOOSE n \in DOMAIN writes :
                  writes[n].at = r /\ \A k \in n+1..Len(writes) : writes[k].at # r].val]
-----------------------------------------------------------------------------
(***************************************************************************)
(* C: rtlsdr_init_baseband, and rtlsdr_open for an R820T.                  *)
(***************************************************************************)
CBaseband ==
    One("usb", \h2000, \h09) \o Two("usb", \h2158, \h0002) \o Two("usb", \h2148, \h1002)
      \o One("sys", \h300b, \h22) \o One("sys", \h3000, \he8)
      \o One("1", \h01, \h14) \o One("1", \h01, \h10)
      \o One("1", \h15, \h00) \o Two("1", \h16, \h0000)
      \o Row("1", \h16, [n \in 1..6 |-> 0])
      \o Row("1", \h1c, Fir(fir_default))
      \o One("0", \h19, \h05) \o One("1", \h93, \hf0) \o One("1", \h94, \h0f)
      \o One("1", \h11, \h00) \o One("1", \h04, \h00) \o One("0", \h61, \h60)
      \o One("0", \h06, \h80) \o One("1", \hb1, \h1b) \o One("0", \h0d, \h83)

COpen ==
    CBaseband \o One("1", \h01, \h18)
      \o One("1", \hb1, \h1a) \o One("0", \h08, \h4d) \o Row("1", \h19, IfRegisters(3570000))
      \o One("1", \h15, \h01) \o One("1", \h01, \h10)
-----------------------------------------------------------------------------
(***************************************************************************)
(* Swift: initBaseband with setFirCoefficients and setIFFrequency, and     *)
(* RTLTunerR820T.  An integer that does not fit its type ends the program: *)
(* UInt8(x) of an x above 255, and Int8(x) of an x beyond 8 bits.          *)
(***************************************************************************)
\* UInt16(bitPattern:)
Pattern(v) == v % 65536

\* (Mutant: the low half of the first coefficient is lost.)
SwiftPairShifted(v, w) ==
    <<Pattern(v) \div 16, (Pattern(w) \div 256) % 16, Pattern(w) % 256>>
SwiftPair(v, w) ==
    <<Pattern(v) \div 16, ((16 * Pattern(v)) % 256) + ((Pattern(w) \div 256) % 16), Pattern(w) % 256>>

setFirCoefficients(coeff) ==
    [i \in 1..8 |-> coeff[i] % 256]
        \o SwiftPair(coeff[9], coeff[10]) \o SwiftPair(coeff[11], coeff[12])
        \o SwiftPair(coeff[13], coeff[14]) \o SwiftPair(coeff[15], coeff[16])

FirTraps(coeff) ==
    \/ \E i \in 1..8 : coeff[i] \notin -128..127
    \/ \E i \in {9, 11, 13, 15} : Pattern(coeff[i]) \div 16 > 255

\* Arithmetic shifts of a negative number.
setIFFrequency(frequency) ==
    LET ifFrequency == -Shifted(frequency, Xtal28, 22)
    IN  <<(ifFrequency \div 65536) % 64, (ifFrequency \div 256) % 256, ifFrequency % 256>>

firCoefficients == <<-54, -36, -41, -40, -32, -14, 14, 53, 101, 156, 215, 273, 327, 372, 404, 421>>

initBaseband ==
    One("usb", \h2000, \h09) \o Two("usb", \h2158, \h0002) \o Two("usb", \h2148, \h1002)
      \o One("sys", \h300b, \h22) \o One("sys", \h3000, \he8)
      \o One("1", \h01, \h14) \o One("1", \h01, \h10)
      \o One("1", \h15, \h00) \o Two("1", \h16, \h0000)
      \o Row("1", \h16, [counter \in 1..6 |-> 0])
      \o Row("1", \h1c, setFirCoefficients(firCoefficients))
      \o One("0", \h19, \h05) \o One("1", \h93, \hf0) \o One("1", \h94, \h0f)
      \o One("1", \h11, \h00) \o One("1", \h04, \h00) \o One("0", \h61, \h60)
      \o One("0", \h06, \h80) \o One("1", \hb1, \h1b) \o One("0", \h0d, \h83)

setI2CRepeater(on) == One("1", \h01, IF on THEN \h18 ELSE \h10)

\* init of RTLTunerR820T, for a tuner that isMatchingTuner has found.
RTLTunerR820T ==
    One("1", \hb1, \h1a) \o One("0", \h08, \h4d) \o Row("1", \h19, setIFFrequency(3570000))
      \o One("1", \h15, \h01)

SwiftInit == initBaseband \o setI2CRepeater(TRUE) \o RTLTunerR820T \o setI2CRepeater(FALSE)
=============================================================================
