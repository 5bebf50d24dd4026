-------------------------- MODULE RtlNumbersProofs ---------------------------
(***************************************************************************)
(* Theorems about RtlNumbers and BringUp: what is written to the           *)
(* demodulator is what was meant, for every rate, frequency, correction    *)
(* and filter.                                                             *)
(***************************************************************************)
EXTENDS BringUp, R82xxTableProofs

-----------------------------------------------------------------------------
(***************************************************************************)
(* Division, digit by digit.                                               *)
(***************************************************************************)
LEMMA DivIs ==
    ASSUME NEW a \in Int, NEW b \in Nat \ {0}, NEW q \in Int, NEW r \in 0..b-1, a = q * b + r
    PROVE  a \div b = q /\ a % b = r
OBVIOUS

\* One more digit.
Digit(b, s) == [q    |-> 2 * s.q + (2 * s.left) \div b,
                left |-> (2 * s.left) % b]
Digits(b)   == [q : Nat, left : 0..b-1]

LEMMA DigitIs ==
    ASSUME NEW a \in Nat, NEW b \in Nat \ {0}, NEW p \in Nat, NEW s \in Digits(b), a * p = s.q * b + s.left
    PROVE  Digit(b, s) \in Digits(b) /\ a * (2 * p) = Digit(b, s).q * b + Digit(b, s).left
<1> DEFINE q == s.q
           left == s.left
<1>1. q \in Nat /\ left \in 0..b-1 /\ a * p = q * b + left
  BY DEF Digits
<1> HIDE DEF q, left
<1>2. CASE 2 * left < b
  <2>1. (2 * left) \div b = 0 /\ (2 * left) % b = 2 * left
    <3>1. 2 * left = 0 * b + 2 * left /\ 2 * left \in 0..b-1
      BY <1>1, <1>2
    <3> QED
      BY <1>1, <3>1, DivIs
  <2>2. a * (2 * p) = (2 * q) * b + 2 * left
    BY <1>1
  <2> QED
    BY <1>1, <1>2, <2>1, <2>2 DEF Digit, Digits, q, left
<1>3. CASE 2 * left >= b
  <2>0. 2 * left - b \in 0..b-1
    BY <1>1, <1>3
  <2>1. (2 * left) \div b = 1 /\ (2 * left) % b = 2 * left - b
    <3>1. 2 * left = 1 * b + (2 * left - b)
      BY <1>1
    <3> QED
      BY <1>1, <2>0, <3>1, DivIs
  <2>2. a * (2 * p) = (2 * q + 1) * b + (2 * left - b)
    BY <1>1
  <2> QED
    BY <1>1, <2>0, <2>1, <2>2 DEF Digit, Digits, q, left
<1> QED
  BY <1>1, <1>2, <1>3

\* The quotient and the remainder after k digits.
IsDivision(g, a, b) ==
    /\ g \in [0..22 -> Digits(b)]
    /\ g[0] = [q |-> a \div b, left |-> a % b]
    /\ \A k \in 1..22 : g[k] = Digit(b, g[k-1])
    /\ Shifted(a, b, 22) = g[22].q

LEMMA ShiftedDivides ==
    ASSUME NEW a \in Nat, NEW b \in Nat \ {0}
    PROVE  \E g : IsDivision(g, a, b)
<1> DEFINE S     == Digits(b)
           first == [q |-> a \div b, left |-> a % b]
           F     == [k \in 1..22 |-> [s \in S |-> Digit(b, s)]]
           made(g) == [k \in 0..22 |-> IF k = 0 THEN first ELSE Digit(b, g[k-1])]
           done  == CHOOSE g : g = made(g)
<1>0. first \in S
  BY DEF Digits
<1>1. ASSUME NEW s \in S
      PROVE  Digit(b, s) \in S
  <2>1. PICK n : n = s.q * b + s.left
    OBVIOUS
  <2>2. n \in Nat /\ 1 \in Nat /\ n * 1 = s.q * b + s.left
    BY <2>1 DEF Digits
  <2> QED
    BY <2>2, DigitIs
<1>5. Shifted(a, b, 22) = done[22].q
  BY Zenon DEF Shifted, Digit
<1>2. \E g : IsChain(g, S, first, F, 22)
  <2>1. F \in [1..22 -> [S -> S]]
    BY <1>1
  <2> HIDE DEF F, S, first
  <2> QED
    BY <1>0, <2>1, Chain
<1> HIDE DEF S, first
<1>3. \E g : g = made(g)
  <2>0. PICK g : IsChain(g, S, first, F, 22)
    BY <1>2
  <2>1. g \in [0..22 -> S] /\ g[0] = first
    BY <2>0 DEF IsChain
  <2>2. \A k \in 1..22 : g[k] = Digit(b, g[k-1])
    <3> TAKE k \in 1..22
    <3>1. g[k] = F[k][g[k-1]] /\ k - 1 \in 0..22 /\ g[k-1] \in S
      BY <2>0, <2>1 DEF IsChain
    <3> QED
      BY <3>1
  <2>3. \A k \in 0..22 : g[k] = made(g)[k]
    BY <2>1, <2>2
  <2> QED
    BY <2>1, <2>3
<1>4. done = made(done)
  BY <1>3, Zenon
<1> HIDE DEF done
<1>6. done[0] = first /\ \A k \in 1..22 : done[k] = Digit(b, done[k-1])
  <2>1. \A k \in 0..22 : done[k] = made(done)[k]
    BY <1>4
  <2> QED
    BY <2>1
<1>7. \A k \in 0..22 : done[k] \in S
  <2> DEFINE bad == {k \in 0..22 : done[k] \notin S}
  <2>1. CASE bad = {}
    BY <2>1
  <2>2. CASE bad # {}
    <3>1. \E m \in bad : \A k \in bad : m <= k
      <4>1. bad \subseteq Nat
        OBVIOUS
      <4> HIDE DEF bad
      <4> QED
        BY <2>2, <4>1, Least
    <3>2. PICK m \in bad : \A k \in bad : m <= k
      BY <3>1
    <3>3. m \in 1..22 /\ m - 1 \in 0..22 /\ done[m] \notin S
      BY <1>0, <1>6, <3>2
    <3>4. m - 1 \notin bad
      <4> HIDE DEF bad
      <4> QED
        BY <3>2, <3>3
    <3>5. done[m-1] \in S
      BY <3>3, <3>4
    <3> QED
      BY <1>1, <1>6, <3>3, <3>5
  <2> QED
    BY <2>1, <2>2
<1>8. done \in [0..22 -> S]
  <2>1. done = [k \in 0..22 |-> done[k]]
    BY <1>4
  <2> QED
    BY <1>7, <2>1
<1> QED
  BY <1>5, <1>6, <1>8 DEF IsDivision, S, first

\* Shifted is the quotient of a * 2^22 and b, rounded down.
LEMMA ShiftedIs ==
    ASSUME NEW a \in Nat, NEW b \in Nat \ {0}
    PROVE  /\ Shifted(a, b, 22) \in Nat
           /\ Shifted(a, b, 22) * b <= a * 4194304 /\ a * 4194304 < (Shifted(a, b, 22) + 1) * b
<1>1. PICK g : IsDivision(g, a, b)
  BY ShiftedDivides
<1> DEFINE At(k, p) == g[k] \in Digits(b) /\ a * p = g[k].q * b + g[k].left
<1>2. At(0, 1)
  <2>1. a = (a \div b) * b + (a % b)
    OBVIOUS
  <2>2. g[0].q = a \div b /\ g[0].left = a % b /\ g[0] \in Digits(b)
    BY <1>1 DEF IsDivision
  <2> QED
    BY <2>1, <2>2
<1>3. ASSUME NEW k \in 0..21, NEW p \in Nat, At(k, p)
      PROVE  At(k + 1, 2 * p)
  <2>1. g[k+1] = Digit(b, g[k])
    <3>1. k + 1 \in 1..22 /\ (k + 1) - 1 = k
      OBVIOUS
    <3> QED
      BY <1>1, <3>1 DEF IsDivision
  <2>2. g[k] \in Digits(b) /\ a * p = g[k].q * b + g[k].left
    BY <1>3
  <2>3. PICK s : s = g[k]
    OBVIOUS
  <2>4. s \in Digits(b) /\ a * p = s.q * b + s.left
    BY <2>2, <2>3
  <2>5. Digit(b, s) \in Digits(b) /\ a * (2 * p) = Digit(b, s).q * b + Digit(b, s).left
    BY <2>4, DigitIs
  <2> QED
    BY <2>1, <2>3, <2>5, Zenon
<1> HIDE DEF At
<1>4. At(6, 64)
  <2>1. At(1, 2)
    BY <1>3, <1>2
  <2>2. At(2, 4)
    BY <1>3, <2>1
  <2>3. At(3, 8)
    BY <1>3, <2>2
  <2>4. At(4, 16)
    BY <1>3, <2>3
  <2>5. At(5, 32)
    BY <1>3, <2>4
  <2>6. At(6, 64)
    BY <1>3, <2>5
  <2> QED
    BY <2>6
<1>5. At(12, 4096)
  <2>1. At(7, 128)
    BY <1>3, <1>4
  <2>2. At(8, 256)
    BY <1>3, <2>1
  <2>3. At(9, 512)
    BY <1>3, <2>2
  <2>4. At(10, 1024)
    BY <1>3, <2>3
  <2>5. At(11, 2048)
    BY <1>3, <2>4
  <2>6. At(12, 4096)
    BY <1>3, <2>5
  <2> QED
    BY <2>6
<1>6. At(18, 262144)
  <2>1. At(13, 8192)
    BY <1>3, <1>5
  <2>2. At(14, 16384)
    BY <1>3, <2>1
  <2>3. At(15, 32768)
    BY <1>3, <2>2
  <2>4. At(16, 65536)
    BY <1>3, <2>3
  <2>5. At(17, 131072)
    BY <1>3, <2>4
  <2>6. At(18, 262144)
    BY <1>3, <2>5
  <2> QED
    BY <2>6
<1>7. At(22, 4194304)
  <2>1. At(19, 524288)
    BY <1>3, <1>6
  <2>2. At(20, 1048576)
    BY <1>3, <2>1
  <2>3. At(21, 2097152)
    BY <1>3, <2>2
  <2>4. At(22, 4194304)
    BY <1>3, <2>3
  <2> QED
    BY <2>4
<1> QED
  BY <1>1, <1>7 DEF At, IsDivision, Digits

-----------------------------------------------------------------------------
(***************************************************************************)
(* The sample rate.                                                        *)
(***************************************************************************)
LEMMA QuotientIs ==
    ASSUME NEW x \in Nat, NEW b \in Nat \ {0}, NEW q \in Nat, NEW p \in Nat,
           q * b <= x, x < (q + 1) * b, p * b <= x, x < (p + 1) * b
    PROVE  q = p
<1>1. ~(q + 1 <= p)
  <2>1. q + 1 <= p => (q + 1) * b <= p * b
    BY SMTT(20)
  <2> QED
    BY <2>1, SMTT(20)
<1>2. ~(p + 1 <= q)
  <2>1. p + 1 <= q => (p + 1) * b <= q * b
    BY SMTT(20)
  <2> QED
    BY <2>1, SMTT(20)
<1> QED
  BY <1>1, <1>2, SMTT(20)

\* The bits of the ratio that the register and the chip keep.
LEMMA RatioKept ==
    ASSUME NEW q \in Nat, q < 134217728 \/ (402653184 <= q /\ q < 536870912)
    PROVE  RealRsampRatio((q % 268435456) - (q % 4)) = q - (q % 4)
<1>0. 2 ^ 27 = 134217728 /\ 2 ^ 28 = 268435456
  BY SMTT(20)
<1>1. CASE q < 134217728
  <2>1. q % 268435456 = q
    BY <1>1, SMTT(20)
  <2>2. q - (q % 4) < 134217728 /\ q - (q % 4) \in Int
    BY <1>1, SMTT(20)
  <2> QED
    BY <1>0, <2>1, <2>2, SMTT(20) DEF RealRsampRatio
<1>2. CASE (402653184 <= q /\ q < 536870912)
  <2>1. q % 268435456 = q - 268435456
    BY <1>2, SMTT(20)
  <2>2. (q - 268435456) - (q % 4) >= 134217728
    BY <1>2, SMTT(20)
  <2> QED
    BY <1>0, <2>1, <2>2, SMTT(20) DEF RealRsampRatio
<1> QED
  BY <1>1, <1>2, SMTT(20)

\* With any crystal: a rate whose ratio keeps its bits, and which is small against
\* the crystal.  At 28.8 MHz these are the rates that are accepted.
InBounds(xtal, rate) ==
    /\ (128 * rate > xtal /\ 96 * rate <= xtal) \/ 32 * rate > xtal
    /\ rate * (4 * rate + 3) <= xtal * 4194304

LEMMA FittingRate ==
    ASSUME NEW xtal \in Nat \ {0}, NEW rate \in Nat \ {0}, InBounds(xtal, rate)
    PROVE  RealRate(xtal, rate) = rate
<1>1. PICK q \in Nat : q = Shifted(xtal, rate, 22)
  BY ShiftedIs, SMTT(20)
<1>2. PICK x \in Nat : x = xtal * 4194304
  BY SMTT(20)
<1>3. q * rate <= x /\ x < (q + 1) * rate
  BY <1>1, <1>2, ShiftedIs, SMTT(20)
<1>4. q < 134217728 \/ (402653184 <= q /\ q < 536870912)
  <2>1. CASE 32 * rate > xtal
    <3>1. x < 134217728 * rate
      BY <1>2, <2>1, SMTT(20)
    <3>2. q >= 134217728 => q * rate >= 134217728 * rate
      BY SMTT(20)
    <3> QED
      BY <1>3, <3>1, <3>2, SMTT(20)
  <2>2. CASE 128 * rate > xtal /\ 96 * rate <= xtal
    <3>1. x < 536870912 * rate /\ 402653184 * rate <= x
      BY <1>2, <2>2, SMTT(20)
    <3>2. q >= 536870912 => q * rate >= 536870912 * rate
      BY SMTT(20)
    <3>3. q + 1 <= 402653184 => (q + 1) * rate <= 402653184 * rate
      BY SMTT(20)
    <3> QED
      BY <1>3, <3>1, <3>2, <3>3, SMTT(20)
  <2> QED
    BY <2>1, <2>2, SMTT(20) DEF InBounds
<1>5. PICK ratio \in Int : ratio = q - (q % 4)
  BY SMTT(20)
<1>6. ratio \in q-3..q
  BY <1>5, SMTT(20)
<1>7. RealRate(xtal, rate) = Shifted(xtal, ratio, 22)
  <2>1. 2 ^ 28 = 268435456
    BY SMTT(20)
  <2>2. RsampRatio(xtal, rate) = (q % 268435456) - (q % 4)
    BY <1>1, <2>1, SMTT(20) DEF RsampRatio, Wrapped
  <2> QED
    BY <1>4, <1>5, <2>2, RatioKept, SMTT(20) DEF RealRate
<1>8. q > 4 * rate + 2
  <2>1. q + 1 <= 4 * rate + 3 => (q + 1) * rate <= rate * (4 * rate + 3)
    BY SMTT(20)
  <2> QED
    BY <1>2, <1>3, <2>1, SMTT(20) DEF InBounds
<1>9. ratio \in Nat \ {0}
  BY <1>6, <1>8, SMTT(20)
<1>10. rate * ratio <= x
  <2>1. rate * ratio <= q * rate
    BY <1>6, <1>9, SMTT(20)
  <2> QED
    BY <1>3, <2>1, SMTT(20)
<1>11. x < (rate + 1) * ratio
  <2>1. (rate + 1) * ratio >= (rate + 1) * (q - 3)
    BY <1>6, <1>9, SMTT(20)
  <2>2. (rate + 1) * (q - 3) = (q + 1) * rate - 4 * rate + q - 3
    BY SMTT(20)
  <2> QED
    BY <1>3, <1>8, <2>1, <2>2, SMTT(20)
<1>a. PICK made : made = Shifted(xtal, ratio, 22)
  OBVIOUS
<1>12. made \in Nat /\ made * ratio <= x /\ x < (made + 1) * ratio
  BY <1>a, <1>2, <1>9, ShiftedIs, SMTT(20)
<1>13. made = rate
  BY <1>9, <1>10, <1>11, <1>12, QuotientIs, SMTT(20)
<1> QED
  BY <1>7, <1>a, <1>13, SMTT(20)

\* rtlsdr_set_sample_rate makes every rate that it accepts, to the Hz, with the crystal
\* that rtlsdr_open assumes.
THEOREM AcceptedRateIsExact ==
    ASSUME NEW rate \in Int, Accepted(rate)
    PROVE  RealRate(Xtal28, rate) = rate
<1>1. (225001 <= rate /\ rate <= 300000) \/ (900001 <= rate /\ rate <= 3200000)
  BY SMTT(20) DEF Accepted
<1>2. InBounds(Xtal28, rate)
  <2>1. rate * (4 * rate + 3) <= 3200000 * (4 * 3200000 + 3)
    <3>1. rate * (4 * rate + 3) <= 3200000 * (4 * rate + 3)
      BY <1>1, SMTT(20)
    <3>2. 3200000 * (4 * rate + 3) <= 3200000 * (4 * 3200000 + 3)
      BY <1>1, SMTT(20)
    <3> QED
      BY <1>1, <3>1, <3>2, SMTT(20)
  <2> QED
    BY <1>1, <2>1, SMTT(20) DEF InBounds, Xtal28
<1> QED
  BY <1>1, <1>2, FittingRate, SMTT(20) DEF Xtal28

\* ... and with a crystal up to 1 kHz beside it, the rates 33 Hz and more away from where
\* the ratio loses bit 28.
THEOREM RateIsExactNearby ==
    ASSUME NEW xtal \in Int, Xtal28 - 1000 <= xtal, xtal <= Xtal28 + 1000, NEW rate \in Int,
           (225033 <= rate /\ rate <= 299968) \/ (900033 <= rate /\ rate <= 3200000)
    PROVE  RealRate(xtal, rate) = rate
<1>1. 28799000 <= xtal /\ xtal <= 28801000
  BY SMTT(20) DEF Xtal28
<1>2. InBounds(xtal, rate)
  <2>1. rate * (4 * rate + 3) <= 3200000 * (4 * 3200000 + 3)
    <3>1. rate * (4 * rate + 3) <= 3200000 * (4 * rate + 3)
      BY SMTT(20)
    <3>2. 3200000 * (4 * rate + 3) <= 3200000 * (4 * 3200000 + 3)
      BY SMTT(20)
    <3> QED
      BY <3>1, <3>2, SMTT(20)
  <2> QED
    BY <1>1, <2>1, SMTT(20) DEF InBounds
<1> QED
  BY <1>1, <1>2, FittingRate, SMTT(20)

-----------------------------------------------------------------------------
(***************************************************************************)
(* The down-converter and the correction.                                  *)
(***************************************************************************)
\* The frequency in steps of the down-converter.
LEMMA StepsOf ==
    ASSUME NEW freq \in Nat, NEW s, s = Shifted(freq, Xtal28, 22)
    PROVE  s \in Nat /\ s * 28125 <= freq * 4096 /\ freq * 4096 < (s + 1) * 28125
<1>1. Xtal28 \in Nat \ {0} /\ Xtal28 = 28800000
  BY SMTT(20) DEF Xtal28
<1>2. s \in Nat /\ s * Xtal28 <= freq * 4194304 /\ freq * 4194304 < (s + 1) * Xtal28
  BY <1>1, ShiftedIs, SMTT(20)
<1> QED
  BY <1>1, <1>2, SMTT(20)

\* Three registers of 8 bits, put together again.
LEMMA ThreeBytes ==
    ASSUME NEW n \in Int, 0 <= n, n < 4194304
    PROVE  65536 * (n \div 65536) + 256 * ((n \div 256) % 256) + (n % 256) = n
BY SMTT(20)

\* The demodulator moves to 0 what was meant, within its step of 6.87 Hz, up to half
\* the frequency of the crystal.
THEOREM IfIsExact ==
    ASSUME NEW freq \in Nat, 2 * freq <= Xtal28
    PROVE  Converted(IfRegisters(freq)) - freq \in -7..0
<1>1. PICK s : s = Shifted(freq, Xtal28, 22)
  OBVIOUS
<1>2. s \in Nat /\ s * 28125 <= freq * 4096 /\ freq * 4096 < (s + 1) * 28125
  BY <1>1, StepsOf
<1>3. s <= 2097152
  BY <1>2, SMTT(20) DEF Xtal28
<1>4. PICK n : n = IfFreq(freq)
  OBVIOUS
<1>5. n = IF s = 0 THEN 0 ELSE 4194304 - s
  <2>1. 2 ^ 22 = 4194304
    BY SMTT(20)
  <2>2. n = (-s) % 4194304
    BY <1>1, <1>4, <2>1, SMTT(20) DEF IfFreq, Wrapped
  <2> QED
    BY <1>2, <1>3, <2>2, SMTT(20)
<1>6. n \in Int /\ 0 <= n /\ n < 4194304
  BY <1>2, <1>3, <1>5, SMTT(20)
<1>7. PICK r : r = IfRegisters(freq)
  OBVIOUS
<1>8. 65536 * r[1] + 256 * r[2] + r[3] = n
  <2>1. r[1] = n \div 65536 /\ r[2] = (n \div 256) % 256 /\ r[3] = n % 256
    BY <1>4, <1>7, SMTT(20) DEF IfRegisters
  <2> QED
    BY <1>6, <2>1, ThreeBytes, SMTT(20)
<1>9. Signed(n, 22) = -s
  <2>1. 2 ^ 22 = 4194304 /\ 2 ^ 21 = 2097152
    BY SMTT(20)
  <2>2. Signed(n, 22) = IF n >= 2097152 THEN n - 4194304 ELSE n
    BY <2>1, SMTT(20) DEF Signed
  <2> QED
    BY <1>2, <1>3, <1>5, <2>2, SMTT(20)
<1>10. Converted(r) = (s \div 4096) * 28125 + ((s % 4096) * 28125) \div 4096
  <2>1. PICK m : m = -Signed(n, 22)
    OBVIOUS
  <2>2. m = s
    BY <1>2, <1>9, <2>1, SMTT(20)
  <2>3. Converted(r) = (m \div 4096) * 28125 + ((m % 4096) * 28125) \div 4096
    BY <1>8, <2>1 DEF Converted
  <2> QED
    BY <2>2, <2>3
<1>11. Converted(r) - freq \in -7..0
  <2>1. PICK high \in Int : high = s \div 4096
    BY <1>2, SMTT(20)
  <2>2. PICK low \in Int : low = s % 4096
    BY <1>2, SMTT(20)
  <2>3. s = 4096 * high + low
    BY <1>2, <2>1, <2>2, SMTT(20)
  <2>4. PICK part \in Int : part = (low * 28125) \div 4096
    BY <2>2, SMTT(20)
  <2>5. part * 4096 <= low * 28125 /\ low * 28125 < (part + 1) * 4096
    BY <2>2, <2>4, SMTT(20)
  <2> QED
    BY <1>2, <1>10, <2>1, <2>2, <2>3, <2>4, <2>5, SMTT(20)
<1> QED
  BY <1>7, <1>11

\* Up to 488 ppm the 14 bits hold the correction.
THEOREM CorrectionIsExact ==
    ASSUME NEW ppm \in -488..488
    PROVE  LET regs14 == OffsetRegisters(ppm)
           IN  Signed(256 * regs14[2] + regs14[1], 14) = Offset(ppm)
<1>1. PICK n : n = Offset(ppm)
  OBVIOUS
<1>2. n \in Int /\ -8192 <= n /\ n < 8192
  <2>1. 2 ^ 18 = 262144
    BY SMTT(20)
  <2>2. n = IF ppm < 0 THEN (-ppm * 262144) \div 15625 ELSE -((ppm * 262144) \div 15625)
    BY <1>1, <2>1, SMTT(20) DEF Offset
  <2> QED
    BY <2>2, SMTT(20)
<1>3. PICK regs14 : regs14 = OffsetRegisters(ppm)
  OBVIOUS
<1>4. regs14[1] = n % 256 /\ regs14[2] = (n \div 256) % 64
  BY <1>1, <1>3 DEF OffsetRegisters
<1>5. 256 * regs14[2] + regs14[1] = IF n < 0 THEN n + 16384 ELSE n
  BY <1>2, <1>4, SMTT(20)
<1>6. Signed(256 * regs14[2] + regs14[1], 14) = n
  <2>1. 2 ^ 14 = 16384 /\ 2 ^ 13 = 8192
    BY SMTT(20)
  <2> QED
    BY <1>2, <1>5, <2>1, SMTT(20) DEF Signed
<1> QED
  BY <1>1, <1>3, <1>6

-----------------------------------------------------------------------------
(***************************************************************************)
(* The filter.                                                             *)
(***************************************************************************)
\* v fits its bits.
Narrow(v, bound) == v \in Int /\ -bound <= v /\ v < bound

LEMMA PairIsKept ==
    ASSUME NEW v, NEW w, Narrow(v, 2048), Narrow(w, 2048), NEW p, p = PackedPair(v, w)
    PROVE  Signed(16 * p[1] + p[2] \div 16, 12) = v /\ Signed(256 * (p[2] % 16) + p[3], 12) = w
<1>1. 2 ^ 12 = 4096 /\ 2 ^ 11 = 2048
  BY SMTT(20)
<1>2. p[1] = (v \div 16) % 256 /\ p[2] = 16 * (v % 16) + ((w \div 256) % 16) /\ p[3] = w % 256
  BY DEF PackedPair
<1>3. p[2] \div 16 = v % 16 /\ p[2] % 16 = (w \div 256) % 16
  BY <1>2, SMTT(20) DEF Narrow
<1>4. 16 * p[1] + p[2] \div 16 = IF v < 0 THEN v + 4096 ELSE v
  BY <1>2, <1>3, SMTT(20) DEF Narrow
<1>5. 256 * (p[2] % 16) + p[3] = IF w < 0 THEN w + 4096 ELSE w
  BY <1>2, <1>3, SMTT(20) DEF Narrow
<1>6. Signed(16 * p[1] + p[2] \div 16, 12) = v
  BY <1>1, <1>4, SMTT(20) DEF Signed, Narrow
<1>7. Signed(256 * (p[2] % 16) + p[3], 12) = w
  BY <1>1, <1>5, SMTT(20) DEF Signed, Narrow
<1> QED
  BY <1>6, <1>7

LEMMA ByteIsKept == ASSUME NEW v, Narrow(v, 128) PROVE Signed(v % 256, 8) = v
<1>1. 2 ^ 8 = 256 /\ 2 ^ 7 = 128
  BY SMTT(20)
<1>2. v % 256 = IF v < 0 THEN v + 256 ELSE v
  BY SMTT(20) DEF Narrow
<1> QED
  BY <1>1, <1>2, SMTT(20) DEF Signed, Narrow

Joined(c, u, v) == c = u \o v

\* Where the elements of u and v are in their concatenation c.
Lies(V, c, u, v, n, m) ==
    /\ c \in Seq(V) /\ Len(c) = n + m
    /\ \A i \in 1..n : c[i] = u[i]
    /\ \A i \in 1..m : c[n + i] = v[i]
LEMMA LiesFirst ==
    ASSUME NEW V, NEW u \in Seq(V), NEW v \in Seq(V), NEW c, Joined(c, u, v)
    PROVE  Lies(V, c, u, v, Len(u), Len(v))
<1>1. c \in Seq(V) /\ Len(c) = Len(u) + Len(v)
  BY DEF Joined
<1>2. \A i \in 1..Len(u) : c[i] = u[i]
  BY DEF Joined
<1>3. \A i \in 1..Len(v) : c[Len(u) + i] = v[i]
  BY DEF Joined
<1> QED
  BY <1>1, <1>2, <1>3 DEF Lies
LEMMA Behind ==
    ASSUME NEW V, NEW u \in Seq(V), NEW v \in Seq(V), NEW n, NEW m, Len(u) = n, Len(v) = m,
           NEW c, Joined(c, u, v)
    PROVE  Lies(V, c, u, v, n, m)
<1>1. Lies(V, c, u, v, Len(u), Len(v))
  BY LiesFirst
<1> QED
  BY <1>1, Zenon

\* The bytes that carry pair k, 1 to 4, are 8 bytes and k - 1 pairs behind.
LEMMA FirIs ==
    ASSUME NEW coeff, NEW f, f = Fir(coeff)
    PROVE  /\ \A i \in 1..8 : f[i] = coeff[i] % 256
           /\ \A k \in 1..4, n \in 1..3 : f[5 + 3 * k + n] = PackedPair(coeff[7 + 2 * k], coeff[8 + 2 * k])[n]
<1>1. PICK a, b, c, d : /\ a = PackedPair(coeff[9], coeff[10])  /\ b = PackedPair(coeff[11], coeff[12])
                        /\ c = PackedPair(coeff[13], coeff[14]) /\ d = PackedPair(coeff[15], coeff[16])
  OBVIOUS
<1>2. PICK e : e = [i \in 1..8 |-> coeff[i] % 256]
  OBVIOUS
<1>3. /\ DOMAIN a = 1..3 /\ DOMAIN b = 1..3 /\ DOMAIN c = 1..3 /\ DOMAIN d = 1..3 /\ DOMAIN e = 1..8
      /\ Len(a) = 3 /\ Len(b) = 3 /\ Len(c) = 3 /\ Len(d) = 3
  BY <1>1, <1>2 DEF PackedPair
<1>4. PICK V : V = {e[i] : i \in 1..8} \cup {a[i] : i \in 1..3} \cup {b[i] : i \in 1..3}
                     \cup {c[i] : i \in 1..3} \cup {d[i] : i \in 1..3}
  OBVIOUS
<1>5. e \in Seq(V) /\ Len(e) = 8
  <2>1. \A i \in 1..8 : e[i] \in V
    BY <1>4
  <2>2. PICK h : h = [i \in 1..8 |-> coeff[i] % 256]
    OBVIOUS
  <2>3. \A i \in 1..8 : h[i] = coeff[i] % 256
    BY <2>2
  <2>4. e = [i \in 1..8 |-> e[i]]
    BY <1>2
  <2> QED
    BY <2>1, <2>4
<1>6. a \in Seq(V) /\ b \in Seq(V) /\ c \in Seq(V) /\ d \in Seq(V)
  <2>1. ASSUME NEW v, NEW w, NEW p, p = PackedPair(v, w), \A i \in 1..3 : p[i] \in V
        PROVE  p \in Seq(V)
    BY <2>1 DEF PackedPair
  <2>2. \A i \in 1..3 : a[i] \in V /\ b[i] \in V /\ c[i] \in V /\ d[i] \in V
    BY <1>4
  <2> QED
    BY <1>1, <2>1, <2>2
<1>7. /\ \A i \in 1..8 : f[i] = e[i]
      /\ \A n \in 1..3 : f[8 + n] = a[n] /\ f[11 + n] = b[n] /\ f[14 + n] = c[n] /\ f[17 + n] = d[n]
  <2>1. PICK x, y, z : Joined(x, e, a) /\ Joined(y, x, b) /\ Joined(z, y, c)
    BY DEF Joined
  <2>2. Lies(V, x, e, a, 8, 3)
    BY <1>3, <1>5, <1>6, <2>1, Behind
  <2>3. x \in Seq(V) /\ Len(x) = 11
    BY <2>2 DEF Lies
  <2>4. Lies(V, y, x, b, 11, 3)
    BY <1>3, <1>6, <2>1, <2>3, Behind
  <2>5. y \in Seq(V) /\ Len(y) = 14
    BY <2>4 DEF Lies
  <2>6. Lies(V, z, y, c, 14, 3)
    BY <1>3, <1>6, <2>1, <2>5, Behind
  <2>7. z \in Seq(V) /\ Len(z) = 17
    BY <2>6 DEF Lies
  <2>8. Joined(f, z, d)
    BY <1>1, <1>2, <2>1 DEF Fir, Joined
  <2>9. Lies(V, f, z, d, 17, 3)
    BY <1>3, <1>6, <2>7, <2>8, Behind
  <2> QED
    BY <2>2, <2>4, <2>6, <2>9, SMTT(30) DEF Lies
<1>8. ASSUME NEW k \in 1..4, NEW n \in 1..3
      PROVE  f[5 + 3 * k + n] = PackedPair(coeff[7 + 2 * k], coeff[8 + 2 * k])[n]
  <2>1. CASE k = 1
    BY <1>1, <1>7, <2>1
  <2>2. CASE k = 2
    BY <1>1, <1>7, <2>2
  <2>3. CASE k = 3
    BY <1>1, <1>7, <2>3
  <2>4. CASE k = 4
    BY <1>1, <1>7, <2>4
  <2> QED
    BY <2>1, <2>2, <2>3, <2>4
<1> QED
  BY <1>2, <1>7, <1>8

\* The demodulator reads back every filter whose coefficients fit their bits.
THEOREM FilterIsExact ==
    ASSUME NEW coeff \in [1..16 -> Int], \A i \in 1..8 : Narrow(coeff[i], 128),
           \A i \in 9..16 : Narrow(coeff[i], 2048)
    PROVE  Coefficients(Fir(coeff)) = coeff
<1>1. PICK f : f = Fir(coeff)
  OBVIOUS
<1>2. ASSUME NEW i \in 1..16
      PROVE  Coefficients(f)[i] = coeff[i]
  <2>1. CASE i <= 8
    <3>1. Coefficients(f)[i] = Signed(f[i], 8)
      BY <2>1 DEF Coefficients
    <3>2. f[i] = coeff[i] % 256 /\ Narrow(coeff[i], 128)
      BY <1>1, <2>1, FirIs
    <3> QED
      BY <3>1, <3>2, ByteIsKept
  <2>2. ASSUME NEW k \in 1..4, i = 7 + 2 * k \/ i = 8 + 2 * k
        PROVE  Coefficients(f)[i] = coeff[i]
    <3>1. PICK v, w, p : v = coeff[7 + 2 * k] /\ w = coeff[8 + 2 * k] /\ p = PackedPair(v, w)
      OBVIOUS
    <3>2. Narrow(v, 2048) /\ Narrow(w, 2048)
      BY <3>1
    <3>3. f[6 + 3 * k] = p[1] /\ f[7 + 3 * k] = p[2] /\ f[8 + 3 * k] = p[3]
      <4>1. \A n \in 1..3 : f[5 + 3 * k + n] = p[n]
        BY <1>1, <3>1, FirIs
      <4> QED
        BY <4>1
    <3>4. Signed(16 * p[1] + p[2] \div 16, 12) = v /\ Signed(256 * (p[2] % 16) + p[3], 12) = w
      BY <3>1, <3>2, PairIsKept
    <3>5. CASE i = 7 + 2 * k
      <4>1. ~(i <= 8) /\ i % 2 = 1 /\ 9 + 3 * ((i - 9) \div 2) = 6 + 3 * k
        BY <3>5
      <4>2. Coefficients(f)[i] = Signed(16 * f[6 + 3 * k] + f[(6 + 3 * k) + 1] \div 16, 12)
        BY <4>1 DEF Coefficients
      <4>3. (6 + 3 * k) + 1 = 7 + 3 * k
        OBVIOUS
      <4> QED
        BY <3>1, <3>3, <3>4, <3>5, <4>2, <4>3
    <3>6. CASE i = 8 + 2 * k
      <4>1. ~(i <= 8) /\ i % 2 # 1 /\ 9 + 3 * ((i - 9) \div 2) = 6 + 3 * k
        BY <3>6
      <4>2. Coefficients(f)[i] = Signed(256 * (f[(6 + 3 * k) + 1] % 16) + f[(6 + 3 * k) + 2], 12)
        BY <4>1 DEF Coefficients
      <4>3. (6 + 3 * k) + 1 = 7 + 3 * k /\ (6 + 3 * k) + 2 = 8 + 3 * k
        OBVIOUS
      <4> QED
        BY <3>1, <3>3, <3>4, <3>6, <4>2, <4>3
    <3> QED
      BY <2>2, <3>5, <3>6
  <2>3. i <= 8 \/ \E k \in 1..4 : i = 7 + 2 * k \/ i = 8 + 2 * k
    OBVIOUS
  <2> QED
    BY <2>1, <2>2, <2>3
<1>3. Coefficients(f) = [i \in 1..16 |-> Coefficients(f)[i]]
  BY DEF Coefficients
<1> QED
  BY <1>1, <1>2, <1>3
-----------------------------------------------------------------------------
(***************************************************************************)
(* The port: what Swift computes where it does not trap.                   *)
(***************************************************************************)
LEMMA SwiftPairIs ==
    ASSUME NEW v \in Int, NEW w \in Int, ~(Pattern(v) \div 16 > 255)
    PROVE  SwiftPair(v, w) = PackedPair(v, w)
<1>1. (v % 65536) \div 16 = (v \div 16) % 256
  BY SMTT(20) DEF Pattern
<1>2. (16 * (v % 65536)) % 256 = 16 * (v % 16)
  BY SMTT(20)
<1>3. ((w % 65536) \div 256) % 16 = (w \div 256) % 16
  BY SMTT(20)
<1>4. (w % 65536) % 256 = w % 256
  BY SMTT(20)
<1> QED
  BY <1>1, <1>2, <1>3, <1>4 DEF SwiftPair, PackedPair, Pattern

\* setFirCoefficients ends the program or writes what rtlsdr_set_fir writes.
THEOREM SwiftFilterIsC ==
    ASSUME NEW coeff \in [1..16 -> Int]
    PROVE  FirTraps(coeff) \/ setFirCoefficients(coeff) = Fir(coeff)
<1> SUFFICES ASSUME ~FirTraps(coeff)
             PROVE  setFirCoefficients(coeff) = Fir(coeff)
  OBVIOUS
<1>1. \A i \in {9, 11, 13, 15} : SwiftPair(coeff[i], coeff[i+1]) = PackedPair(coeff[i], coeff[i+1])
  <2> TAKE i \in {9, 11, 13, 15}
  <2>1. coeff[i] \in Int /\ coeff[i+1] \in Int /\ ~(Pattern(coeff[i]) \div 16 > 255)
    BY DEF FirTraps
  <2> QED
    BY <2>1, SwiftPairIs
<1>2. /\ SwiftPair(coeff[9], coeff[10]) = PackedPair(coeff[9], coeff[10])
      /\ SwiftPair(coeff[11], coeff[12]) = PackedPair(coeff[11], coeff[12])
      /\ SwiftPair(coeff[13], coeff[14]) = PackedPair(coeff[13], coeff[14])
      /\ SwiftPair(coeff[15], coeff[16]) = PackedPair(coeff[15], coeff[16])
  BY <1>1
<1> QED
  BY <1>2 DEF setFirCoefficients, Fir

\* setIFFrequency writes what rtlsdr_set_if_freq writes, for every frequency.
THEOREM SwiftIfIsC ==
    ASSUME NEW freq \in Nat
    PROVE  setIFFrequency(freq) = IfRegisters(freq)
<1>1. PICK s : s = Shifted(freq, Xtal28, 22)
  OBVIOUS
<1>2. s \in Nat
  BY <1>1, StepsOf
<1>3. PICK n : n = IfFreq(freq)
  OBVIOUS
<1>4. n = (-s) % 4194304
  <2>1. 2 ^ 22 = 4194304
    BY SMTT(20)
  <2> QED
    BY <1>1, <1>3, <2>1, SMTT(20) DEF IfFreq, Wrapped
<1>5. n \div 65536 = ((-s) \div 65536) % 64 /\ (n \div 256) % 256 = ((-s) \div 256) % 256 /\ n % 256 = (-s) % 256
  BY <1>2, <1>4, SMTT(20)
<1> QED
  BY <1>1, <1>3, <1>5 DEF setIFFrequency, IfRegisters
=============================================================================
