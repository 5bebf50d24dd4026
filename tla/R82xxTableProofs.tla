-------------------------- MODULE R82xxTableProofs ---------------------------
(***************************************************************************)
(* What the operators of R82xxTuner compute: a byte and its bits, the walk *)
(* through the gains for every gain, the filters for every bandwidth, the  *)
(* synthesiser for every frequency in its range.                           *)
(***************************************************************************)
EXTENDS Bytes, R82xxGain, R82xxFilter, R82xxPll, TLAPS, WellFoundedInduction, FiniteSetTheorems

\* A set of natural numbers has a least one.
LEMMA Least ==
    ASSUME NEW S, S \subseteq Nat, S # {}
    PROVE  \E m \in S : \A k \in S : m <= k
<1>1. IsWellFoundedOn({ss \in Nat \X Nat : ss[1] < ss[2]}, Nat)
  BY NatLessThanWellFounded DEF OpToRel
<1>2. PICK m \in S : \A k \in S : ~(<<k, m>> \in {ss \in Nat \X Nat : ss[1] < ss[2]})
  BY <1>1, WFMin
<1>3. \A k \in S : m <= k
  <2> TAKE k \in S
  <2>1. k \in Nat /\ m \in Nat
    OBVIOUS
  <2>2. ~(k < m)
    BY <1>2, <2>1
  <2> QED
    BY <2>1, <2>2
<1> QED
  BY <1>3

LEMMA MinIsLeast ==
    ASSUME NEW S, S \subseteq Nat, S # {}
    PROVE  Min(S) \in S /\ \A k \in S : Min(S) <= k
<1>1. \E m \in S : \A k \in S : m <= k
  BY Least
<1> QED
  BY <1>1, Zenon DEF Min

LEMMA FifteenBits ==
    \A k \in 1..15 : \/ k = 1 \/ k = 2 \/ k = 3 \/ k = 4 \/ k = 5 \/ k = 6 \/ k = 7 \/ k = 8 \/ k = 9 \/ k = 10
                     \/ k = 11 \/ k = 12 \/ k = 13 \/ k = 14 \/ k = 15
OBVIOUS

\* A sequence of n elements is a function of 1..n.
LEMMA AsFunction ==
    ASSUME NEW V, NEW n \in Nat, NEW s \in Seq(V), Len(s) = n
    PROVE  s \in [1..n -> V]
OBVIOUS

\* A chain of states, each made from the one before.
IsChain(g, S, now, F, n) == g \in [0..n -> S] /\ g[0] = now /\ \A k \in 1..n : g[k] = F[k][g[k-1]]

LEMMA Chain ==
    ASSUME NEW S, NEW now \in S, NEW n \in Nat, NEW F \in [1..n -> [S -> S]]
    PROVE  \E g : IsChain(g, S, now, F, n)
<1> DEFINE bad == {m \in 0..n : ~ \E g : IsChain(g, S, now, F, m)}
<1>1. CASE bad = {}
  <2>1. n \notin bad /\ n \in 0..n
    BY <1>1
  <2> QED
    BY <2>1
<1>2. CASE bad # {}
  <2>1. \E m \in bad : \A k \in bad : m <= k
    <3>1. bad \subseteq Nat
      OBVIOUS
    <3> HIDE DEF bad
    <3> QED
      BY <1>2, <3>1, Least
  <2>2. PICK m \in bad : \A k \in bad : m <= k
    BY <2>1
  <2>3. m # 0
    <3>1. IsChain([k \in 0..0 |-> now], S, now, F, 0)
      BY DEF IsChain
    <3> QED
      BY <2>2, <3>1
  <2>4. m \in 1..n /\ m - 1 \in 0..n
    BY <2>2, <2>3
  <2>5. m - 1 \notin bad
    <3> HIDE DEF bad
    <3> QED
      BY <2>2, <2>4
  <2>6. PICK g : IsChain(g, S, now, F, m - 1)
    BY <2>4, <2>5
  <2> DEFINE h == [k \in 0..m |-> IF k = m THEN F[m][g[m-1]] ELSE g[k]]
  <2>7. F[m][g[m-1]] \in S
    BY <2>4, <2>6 DEF IsChain
  <2>8. h \in [0..m -> S]
    BY <2>4, <2>6, <2>7 DEF IsChain
  <2>9. h[0] = now
    BY <2>4, <2>6 DEF IsChain
  <2>10. \A k \in 1..m : h[k] = F[k][h[k-1]]
    <3> TAKE k \in 1..m
    <3>1. CASE k = m
      BY <2>4, <3>1
    <3>2. CASE k # m
      <4>1. k \in 1..m-1 /\ k - 1 \in 0..m /\ k - 1 # m
        BY <2>4, <3>2
      <4> QED
        BY <2>4, <2>6, <4>1, <3>2 DEF IsChain
    <3> QED
      BY <3>1, <3>2
  <2>11. IsChain(h, S, now, F, m)
    BY <2>8, <2>9, <2>10 DEF IsChain
  <2> HIDE DEF h
  <2> QED
    BY <2>2, <2>11
<1> QED
  BY <1>1, <1>2

-----------------------------------------------------------------------------
LEMMA TableDomain == DOMAIN LowPass = 1..10 /\ \A k \in 1..10 : LowPass[k] \in 350..1700
BY DEF LowPass

\* The search stops in the table, at a filter that is wide enough.
LEMMA SearchStops ==
    ASSUME NEW width \in Int, width <= 1700
    PROVE  LowPassIndex(width) \in 1..10 /\ LowPass[LowPassIndex(width)] >= width
<1> DEFINE narrower == {k \in DOMAIN LowPass : width > LowPass[k]}
<1>1. narrower \subseteq 1..10
  BY SMTT(20), TableDomain
<1>2. CASE narrower = {}
  <2>1. LowPassIndex(width) = 10
    BY <1>2 DEF LowPassIndex, LowPass
  <2>2. ~(width > LowPass[10])
    BY SMTT(20), <1>2, TableDomain
  <2>3. LowPass[10] = 350
    BY DEF LowPass
  <2>4. width <= LowPass[10]
    BY <2>2, <2>3
  <2> QED
    BY <2>1, <2>4
<1>3. CASE narrower # {}
  <2> DEFINE m == Min(narrower)
  <2>1. LowPassIndex(width) = m - 1
    BY <1>3 DEF LowPassIndex
  <2>2. m \in narrower /\ \A k \in narrower : m <= k
    BY <1>1, <1>3, MinIsLeast
  <2> HIDE DEF m
  <2>3. m \in 1..10 /\ width > LowPass[m]
    BY SMTT(20), <2>2, TableDomain
  <2>4. m # 1
    BY <2>3 DEF LowPass
  <2>5. m - 1 \in 1..10 /\ m - 1 \notin narrower
    BY <2>2, <2>3, <2>4
  <2>6. LowPass[m - 1] \in 350..1700 /\ ~(width > LowPass[m - 1])
    BY SMTT(20), <2>5, TableDomain
  <2>7. width <= LowPass[m - 1]
    BY <2>6
  <2> QED
    BY <2>1, <2>5, <2>7
<1> QED
  BY <1>2, <1>3

\* For any bandwidth the intermediate frequency lies between 1 and 4.57 MHz, the
\* registers take their values, and up to 8 MHz the filters that r82xx_set_bandwidth
\* puts together are not narrower than what was asked for.
THEOREM FilterFits ==
    ASSUME NEW width \in Nat
    PROVE  /\ SetBandwidth(width).int_freq \in 1085..4570
           /\ SetBandwidth(width).reg_0a \in 0..255 /\ SetBandwidth(width).reg_0b \in 0..255
           /\ width <= 8000 => SetBandwidth(width).applied >= width
<1>1. CASE width > 2430
  BY <1>1 DEF SetBandwidth, LowPass, HP1, HP2
<1>2. CASE width <= 2430
  <2> DEFINE hp    == AboveHP1(width) + AboveHP2(width)
             index == LowPassIndex(width - hp)
             real  == hp + LowPass[index]
  <2>1. hp \in {0, 350, 380, 730} /\ width - hp <= 1700
    BY <1>2 DEF AboveHP1, AboveHP2, LowPass, HP1, HP2
  <2>2. SetBandwidth(width) =
          [applied |-> real, int_freq |-> 2300 + hp - real \div 2, reg_0a |-> 0,
           reg_0b |-> 128 + (IF AboveHP2(width) = 0 THEN 32 ELSE 0)
                          + (IF AboveHP1(width) = 0 THEN 64 ELSE 0) + (16 - index)]
    BY <1>2 DEF SetBandwidth, LowPass, HP1, HP2
  <2>3. index \in 1..10 /\ LowPass[index] >= width - hp /\ LowPass[index] \in 350..1700
    BY SMTT(20), <2>1, SearchStops, TableDomain
  <2> DEFINE filter == LowPass[index]
  <2>4. filter \in 350..1700 /\ filter >= width - hp /\ real = hp + filter
    BY SMTT(20), <2>3
  <2> HIDE DEF hp, index, filter, real
  <2>5. real \in 350..2430 /\ real >= width
    BY <2>1, <2>4
  <2>6. real \div 2 \in 175..1215
    BY <2>5
  <2>7. 2300 + hp - real \div 2 \in 1085..4570
    <3> DEFINE half == real \div 2
    <3>1. half \in 175..1215 /\ hp \in {0, 350, 380, 730}
      BY <2>1, <2>6
    <3> HIDE DEF half
    <3>2. 2300 + hp - half \in 1085..4570
      BY <3>1
    <3> QED
      BY SMTT(20), <3>2 DEF half
  <2> QED
    BY SMTT(20), <2>2, <2>3, <2>5, <2>7
<1> QED
  BY SMTT(20), <1>1, <1>2

\* The value of register 0x0b leaves its bit 4 clear, as the mask does, and that of
\* 0x0a is the one bit of the mask.
LEMMA FilterRegisters ==
    ASSUME NEW width \in Nat
    PROVE  /\ SetBandwidth(width).reg_0a \in {0, 16}
           /\ SetBandwidth(width).reg_0b \in 0..255 /\ (SetBandwidth(width).reg_0b \div 16) % 2 = 0
<1>1. CASE width > 2430
  BY <1>1 DEF SetBandwidth, LowPass, HP1, HP2
<1>2. CASE width <= 2430
  <2> DEFINE hp    == AboveHP1(width) + AboveHP2(width)
             index == LowPassIndex(width - hp)
             real  == hp + LowPass[index]
             high  == 128 + (IF AboveHP2(width) = 0 THEN 32 ELSE 0) + (IF AboveHP1(width) = 0 THEN 64 ELSE 0)
  <2>1. hp \in Int /\ width - hp <= 1700
    BY <1>2 DEF AboveHP1, AboveHP2, LowPass, HP1, HP2
  <2>2. SetBandwidth(width) =
          [applied |-> real, int_freq |-> 2300 + hp - real \div 2, reg_0a |-> 0, reg_0b |-> high + (16 - index)]
    BY <1>2 DEF SetBandwidth, LowPass, HP1, HP2
  <2>3. index \in 1..10
    BY <2>1, SearchStops
  <2>4. high \in {128, 160, 192, 224}
    OBVIOUS
  <2> HIDE DEF hp, index, real, high
  <2> DEFINE value == high + (16 - index)
  <2>5. value \in 0..255 /\ (value \div 16) % 2 = 0
    BY <2>3, <2>4
  <2> QED
    BY <2>2, <2>5
<1> QED
  BY <1>1, <1>2

-----------------------------------------------------------------------------
(***************************************************************************)
(* A byte and its bits.                                                    *)
(***************************************************************************)
Sum8(S) == (IF 0 \in S THEN 1 ELSE 0) + (IF 1 \in S THEN 2 ELSE 0) + (IF 2 \in S THEN 4 ELSE 0)
         + (IF 3 \in S THEN 8 ELSE 0) + (IF 4 \in S THEN 16 ELSE 0) + (IF 5 \in S THEN 32 ELSE 0)
         + (IF 6 \in S THEN 64 ELSE 0) + (IF 7 \in S THEN 128 ELSE 0)

LEMMA SumStep ==
    ASSUME NEW S \in SUBSET (0..7), NEW x \in S
    PROVE  Sum8(S) = 2^x + Sum8(S \ {x})
<1>1. x \in {0,1,2,3,4,5,6,7}
  OBVIOUS
<1>2. 2^0 = 1 /\ 2^1 = 2 /\ 2^2 = 4 /\ 2^3 = 8 /\ 2^4 = 16 /\ 2^5 = 32 /\ 2^6 = 64 /\ 2^7 = 128
  OBVIOUS
<1>3. ASSUME NEW y \in 0..7, y # x
      PROVE  y \in S \ {x} <=> y \in S
  BY <1>3
<1>4. x \in S /\ x \notin S \ {x}
  OBVIOUS
<1> DEFINE T == S \ {x}
<1> HIDE DEF T
<1>5. x \in S /\ x \notin T /\ \A y \in 0..7 : y # x => (y \in T <=> y \in S)
  BY <1>3, <1>4 DEF T
<1>6. Sum8(S) = 2^x + Sum8(T)
  <2>0. CASE x = 0
    BY <1>2, <1>5, <2>0 DEF Sum8
  <2>1. CASE x = 1
    BY <1>2, <1>5, <2>1 DEF Sum8
  <2>2. CASE x = 2
    BY <1>2, <1>5, <2>2 DEF Sum8
  <2>3. CASE x = 3
    BY <1>2, <1>5, <2>3 DEF Sum8
  <2>4. CASE x = 4
    BY <1>2, <1>5, <2>4 DEF Sum8
  <2>5. CASE x = 5
    BY <1>2, <1>5, <2>5 DEF Sum8
  <2>6. CASE x = 6
    BY <1>2, <1>5, <2>6 DEF Sum8
  <2>7. CASE x = 7
    BY <1>2, <1>5, <2>7 DEF Sum8
  <2> QED
    BY <1>1, <2>0, <2>1, <2>2, <2>3, <2>4, <2>5, <2>6, <2>7
<1> QED
  BY <1>6 DEF T

LEMMA ValueIs ==
    ASSUME NEW S \in SUBSET (0..7)
    PROVE  Value(S) = Sum8(S)
<1> DEFINE rest(s) == s \ {CHOOSE x \in s : TRUE}
           first(s) == CHOOSE x \in s : TRUE
           iter == CHOOSE g : g = [s \in SUBSET S |-> IF s = {} THEN 0 ELSE 2 ^ first(s) + g[rest(s)]]
           sum == [s \in SUBSET S |-> Sum8(s)]
<1>1. Value(S) = iter[S]
  BY Zenon DEF Value, MapThenSumSet, MapThenFoldSet
<1>2. sum = [s \in SUBSET S |-> IF s = {} THEN 0 ELSE 2 ^ first(s) + sum[rest(s)]]
  <2> SUFFICES ASSUME NEW s \in SUBSET S
               PROVE  Sum8(s) = IF s = {} THEN 0 ELSE 2 ^ first(s) + sum[rest(s)]
    OBVIOUS
  <2>1. CASE s = {}
    BY <2>1 DEF Sum8
  <2>2. CASE s # {}
    <3>1. first(s) \in s /\ rest(s) \in SUBSET S /\ s \in SUBSET (0..7)
      BY <2>2
    <3>2. Sum8(s) = 2 ^ first(s) + Sum8(rest(s))
      BY <3>1, SumStep
    <3> QED
      BY <2>2, <3>1, <3>2
  <2> QED
    BY <2>1, <2>2
<1>3. iter = [s \in SUBSET S |-> IF s = {} THEN 0 ELSE 2 ^ first(s) + iter[rest(s)]]
  <2> HIDE DEF sum
  <2> QED
    BY <1>2, Zenon
<1> HIDE DEF iter
<1>4. ASSUME NEW s \in SUBSET S, iter[s] # Sum8(s)
      PROVE  FALSE
  <2> DEFINE bad == {n \in Nat : \E t \in SUBSET S : Cardinality(t) = n /\ iter[t] # Sum8(t)}
  <2>a. IsFiniteSet(0..7)
    <3>1. 0 \in Int /\ 7 \in Int
      OBVIOUS
    <3> QED
      BY <3>1, FS_Interval, Zenon
  <2>0. \A t \in SUBSET S : IsFiniteSet(t) /\ Cardinality(t) \in Nat
    BY <2>a, FS_Subset, FS_CardinalityType
  <2>1. Cardinality(s) \in bad /\ bad \subseteq Nat
    BY <1>4, <2>0
  <2>2. PICK n \in bad : \A k \in bad : n <= k
    BY <2>1, Least
  <2>3. PICK t \in SUBSET S : Cardinality(t) = n /\ iter[t] # Sum8(t)
    BY <2>2
  <2>4. CASE t = {}
    BY <1>3, <2>3, <2>4 DEF Sum8
  <2>5. CASE t # {}
    <3>1. first(t) \in t /\ rest(t) \in SUBSET S /\ t \in SUBSET (0..7)
      BY <2>5
    <3>2. Cardinality(rest(t)) = n - 1 /\ n - 1 \in Nat
      <4>1. Cardinality(t \ {first(t)}) = Cardinality(t) - 1
        BY <2>0, <3>1, FS_RemoveElement
      <4>2. Cardinality(rest(t)) \in Nat
        BY <2>0, <3>1
      <4> QED
        BY <2>3, <4>1, <4>2
    <3>3. rest(t) \in SUBSET S /\ n - 1 \notin bad
      BY <2>2, <3>1, <3>2
    <3>4. iter[rest(t)] = Sum8(rest(t))
      BY <3>2, <3>3
    <3>5. iter[t] = 2 ^ first(t) + iter[rest(t)]
      BY <1>3, <2>5
    <3> QED
      BY <2>3, <3>1, <3>4, <3>5, SumStep
  <2> QED
    BY <2>4, <2>5
<1> QED
  BY <1>1, <1>4

LEMMA BitsAre ==
    ASSUME NEW n \in 0..255
    PROVE  /\ BitsOf[n] \in Byte
           /\ (0 \in BitsOf[n] <=> n % 2 = 1) /\ (1 \in BitsOf[n] <=> (n \div 2) % 2 = 1)
           /\ (2 \in BitsOf[n] <=> (n \div 4) % 2 = 1) /\ (3 \in BitsOf[n] <=> (n \div 8) % 2 = 1)
           /\ (4 \in BitsOf[n] <=> (n \div 16) % 2 = 1) /\ (5 \in BitsOf[n] <=> (n \div 32) % 2 = 1)
           /\ (6 \in BitsOf[n] <=> (n \div 64) % 2 = 1) /\ (7 \in BitsOf[n] <=> (n \div 128) % 2 = 1)
<1>1. BitsOf[n] = {b \in 0..7 : (n \div 2 ^ b) % 2 = 1}
  BY DEF BitsOf
<1>2. \A b \in 0..7 : b \in BitsOf[n] <=> (n \div 2 ^ b) % 2 = 1
  BY <1>1
<1>3. 2^0 = 1 /\ 2^1 = 2 /\ 2^2 = 4 /\ 2^3 = 8 /\ 2^4 = 16 /\ 2^5 = 32 /\ 2^6 = 64 /\ 2^7 = 128
  OBVIOUS
<1>4. n \div 1 = n
  OBVIOUS
<1> QED
  BY <1>1, <1>2, <1>3, <1>4 DEF Byte

\* The bits of a byte are those of its value.
LEMMA ValueOfByte ==
    ASSUME NEW n \in 0..255
    PROVE  Value(BitsOf[n]) = n
<1>1. BitsOf[n] \in SUBSET (0..7)
  BY BitsAre DEF Byte
<1>2. Value(BitsOf[n]) = Sum8(BitsOf[n])
  BY <1>1, ValueIs
<1>3. PICK S : S = BitsOf[n]
  OBVIOUS
<1>4. Sum8(S) = (n % 2) + 2 * ((n \div 2) % 2) + 4 * ((n \div 4) % 2) + 8 * ((n \div 8) % 2)
              + 16 * ((n \div 16) % 2) + 32 * ((n \div 32) % 2) + 64 * ((n \div 64) % 2) + 128 * ((n \div 128) % 2)
  <2>1. /\ n % 2 \in {0, 1} /\ (n \div 2) % 2 \in {0, 1} /\ (n \div 4) % 2 \in {0, 1} /\ (n \div 8) % 2 \in {0, 1}
        /\ (n \div 16) % 2 \in {0, 1} /\ (n \div 32) % 2 \in {0, 1} /\ (n \div 64) % 2 \in {0, 1}
        /\ (n \div 128) % 2 \in {0, 1}
    BY SMTT(20)
  <2>2. /\ (0 \in S <=> n % 2 = 1) /\ (1 \in S <=> (n \div 2) % 2 = 1)
        /\ (2 \in S <=> (n \div 4) % 2 = 1) /\ (3 \in S <=> (n \div 8) % 2 = 1)
        /\ (4 \in S <=> (n \div 16) % 2 = 1) /\ (5 \in S <=> (n \div 32) % 2 = 1)
        /\ (6 \in S <=> (n \div 64) % 2 = 1) /\ (7 \in S <=> (n \div 128) % 2 = 1)
    BY <1>3, BitsAre
  <2> QED
    BY <2>1, <2>2, SMTT(30) DEF Sum8
<1>5. (n % 2) + 2 * ((n \div 2) % 2) + 4 * ((n \div 4) % 2) + 8 * ((n \div 8) % 2)
        + 16 * ((n \div 16) % 2) + 32 * ((n \div 32) % 2) + 64 * ((n \div 64) % 2) + 128 * ((n \div 128) % 2) = n
  <2>1. PICK a, b, c, d, e, f, g : /\ a = n \div 2 /\ b = n \div 4 /\ c = n \div 8 /\ d = n \div 16
                                   /\ e = n \div 32 /\ f = n \div 64 /\ g = n \div 128
    OBVIOUS
  <2>2. /\ a \in Int /\ b \in Int /\ c \in Int /\ d \in Int /\ e \in Int /\ f \in Int /\ g \in Int
    BY <2>1, SMTT(20)
  <2>3. /\ n = 2 * a + (n % 2) /\ a = 2 * b + (a % 2) /\ b = 2 * c + (b % 2) /\ c = 2 * d + (c % 2)
    BY <2>1, SMTT(30)
  <2>4. /\ d = 2 * e + (d % 2) /\ e = 2 * f + (e % 2) /\ f = 2 * g + (f % 2) /\ g = g % 2
    BY <2>1, SMTT(30)
  <2> QED
    BY <2>1, <2>2, <2>3, <2>4, SMTT(30)
<1> QED
  BY <1>2, <1>3, <1>4, <1>5

\* Of a byte that has the three highest bits of 32 * n, the upper three are n.
LEMMA UpperThree ==
    ASSUME NEW n \in 0..7, NEW S \in SUBSET (0..7), S \cap BitsOf[\he0] = BitsOf[32 * n] \cap BitsOf[\he0]
    PROVE  Value(S) \div 32 = n
<1>1. PICK m : m = 32 * n
  OBVIOUS
<1>2. m \in 0..255 /\ (m \div 32) = n /\ (m \div 64) = n \div 2 /\ (m \div 128) = n \div 4
  BY <1>1, SMTT(20)
<1>3. 5 \in BitsOf[224] /\ 6 \in BitsOf[224] /\ 7 \in BitsOf[224]
  BY BitsAre
<1>4. /\ (5 \in S <=> n % 2 = 1) /\ (6 \in S <=> (n \div 2) % 2 = 1) /\ (7 \in S <=> (n \div 4) % 2 = 1)
  <2>1. /\ 5 \in BitsOf[m] <=> n % 2 = 1
        /\ 6 \in BitsOf[m] <=> (n \div 2) % 2 = 1
        /\ 7 \in BitsOf[m] <=> (n \div 4) % 2 = 1
    BY <1>2, BitsAre
  <2>2. PICK A, B : A = BitsOf[224] /\ B = BitsOf[m]
    OBVIOUS
  <2>3. S \cap A = B \cap A
    BY <1>1, <2>2
  <2> QED
    BY <1>3, <2>1, <2>2, <2>3
<1>5. n = 0 \/ n = 1 \/ n = 2 \/ n = 3 \/ n = 4 \/ n = 5 \/ n = 6 \/ n = 7
  OBVIOUS
<1>6. PICK low \in 0..31 : Sum8(S) = low + (IF 5 \in S THEN 32 ELSE 0) + (IF 6 \in S THEN 64 ELSE 0) + (IF 7 \in S THEN 128 ELSE 0)
  <2> DEFINE l == (IF 0 \in S THEN 1 ELSE 0) + (IF 1 \in S THEN 2 ELSE 0)
         + (IF 2 \in S THEN 4 ELSE 0) + (IF 3 \in S THEN 8 ELSE 0) + (IF 4 \in S THEN 16 ELSE 0)
  <2>1. l \in 0..31
    BY SMTT(20)
  <2>2. Sum8(S) = l + (IF 5 \in S THEN 32 ELSE 0) + (IF 6 \in S THEN 64 ELSE 0) + (IF 7 \in S THEN 128 ELSE 0)
    BY SMTT(20) DEF Sum8
  <2> QED
    BY <2>1, <2>2
<1>7. Sum8(S) = low + 32 * n
  BY <1>4, <1>5, <1>6, SMTT(30)
<1>8. (low + 32 * n) \div 32 = n
  BY SMTT(20)
<1> QED
  BY <1>7, <1>8, ValueIs

\* All the bits of a byte.
LEMMA WholeByte == BitsOf[\hff] = 0..7
<1>1. BitsOf[255] \in Byte
  BY BitsAre
<1>2. /\ 0 \in BitsOf[255] /\ 1 \in BitsOf[255] /\ 2 \in BitsOf[255] /\ 3 \in BitsOf[255]
      /\ 4 \in BitsOf[255] /\ 5 \in BitsOf[255] /\ 6 \in BitsOf[255] /\ 7 \in BitsOf[255]
  BY BitsAre
<1>3. \A b \in 0..7 : b = 0 \/ b = 1 \/ b = 2 \/ b = 3 \/ b = 4 \/ b = 5 \/ b = 6 \/ b = 7
  OBVIOUS
<1>4. \A b \in 0..7 : b \in BitsOf[255]
  BY <1>2, <1>3, Zenon
<1> QED
  BY <1>1, <1>4 DEF Byte

IsByte(S, v) == S \in Byte /\ v \in 0..255 /\ S \cap BitsOf[\hff] = BitsOf[v] \cap BitsOf[\hff]

LEMMA ValueOfWhole ==
    ASSUME NEW S, NEW v, IsByte(S, v)
    PROVE  Value(S) = v
<1>0. S \in SUBSET (0..7) /\ v \in 0..255 /\ S \cap BitsOf[\hff] = BitsOf[v] \cap BitsOf[\hff]
  BY DEF IsByte, Byte
<1>1. PICK all : all = 0..7
  OBVIOUS
<1>2. PICK B : B = BitsOf[v]
  OBVIOUS
<1>3. S \subseteq all /\ B \subseteq all
  BY <1>0, <1>1, <1>2, BitsAre DEF Byte
<1>4. S \cap all = B \cap all
  BY <1>0, <1>1, <1>2, WholeByte
<1>5. S = B
  BY <1>3, <1>4
<1> QED
  BY <1>0, <1>2, <1>5, ValueOfByte

-----------------------------------------------------------------------------
(***************************************************************************)
(* The walk through the gains.                                             *)
(***************************************************************************)
SumOf(f, S) == MapThenSumSet(LAMBDA i : f[i], S)

\* The sum of the entries of a table of fifteen.
Entry(f, S, i) == IF i \in S THEN f[i] ELSE 0
Sum15(f, S) ==
    Entry(f, S, 1) + Entry(f, S, 2) + Entry(f, S, 3) + Entry(f, S, 4) + Entry(f, S, 5)
  + Entry(f, S, 6) + Entry(f, S, 7) + Entry(f, S, 8) + Entry(f, S, 9) + Entry(f, S, 10)
  + Entry(f, S, 11) + Entry(f, S, 12) + Entry(f, S, 13) + Entry(f, S, 14) + Entry(f, S, 15)

LEMMA EntriesAre ==
    ASSUME NEW f \in [1..15 -> Int], NEW S
    PROVE  \A i \in 1..15 : Entry(f, S, i) \in Int
BY DEF Entry

LEMMA Sum15Step ==
    ASSUME NEW f \in [1..15 -> Int], NEW S \in SUBSET (1..15), NEW x \in S
    PROVE  Sum15(f, S) = f[x] + Sum15(f, S \ {x})
<1>1. PICK T : T = S \ {x}
  OBVIOUS
<1>2. x \in S /\ x \notin T /\ \A y : y # x => (y \in T <=> y \in S)
  BY <1>1
<1>3. /\ Entry(f, S, x) = f[x] /\ Entry(f, T, x) = 0 /\ f[x] \in Int
      /\ \A y \in 1..15 : y # x => Entry(f, T, y) = Entry(f, S, y)
  BY <1>2 DEF Entry
<1>4. /\ \A i \in 1..15 : Entry(f, S, i) \in Int
      /\ \A i \in 1..15 : Entry(f, T, i) \in Int
  BY EntriesAre
<1>5. x \in 1..15
  OBVIOUS
<1> HIDE <1>2
<1>6. CASE x = 1
  BY <1>1, <1>3, <1>4, <1>6, SMTT(30) DEF Sum15
<1>7. CASE x = 2
  BY <1>1, <1>3, <1>4, <1>7, SMTT(30) DEF Sum15
<1>8. CASE x = 3
  BY <1>1, <1>3, <1>4, <1>8, SMTT(30) DEF Sum15
<1>9. CASE x = 4
  BY <1>1, <1>3, <1>4, <1>9, SMTT(30) DEF Sum15
<1>10. CASE x = 5
  BY <1>1, <1>3, <1>4, <1>10, SMTT(30) DEF Sum15
<1>11. CASE x = 6
  BY <1>1, <1>3, <1>4, <1>11, SMTT(30) DEF Sum15
<1>12. CASE x = 7
  BY <1>1, <1>3, <1>4, <1>12, SMTT(30) DEF Sum15
<1>13. CASE x = 8
  BY <1>1, <1>3, <1>4, <1>13, SMTT(30) DEF Sum15
<1>14. CASE x = 9
  BY <1>1, <1>3, <1>4, <1>14, SMTT(30) DEF Sum15
<1>15. CASE x = 10
  BY <1>1, <1>3, <1>4, <1>15, SMTT(30) DEF Sum15
<1>16. CASE x = 11
  BY <1>1, <1>3, <1>4, <1>16, SMTT(30) DEF Sum15
<1>17. CASE x = 12
  BY <1>1, <1>3, <1>4, <1>17, SMTT(30) DEF Sum15
<1>18. CASE x = 13
  BY <1>1, <1>3, <1>4, <1>18, SMTT(30) DEF Sum15
<1>19. CASE x = 14
  BY <1>1, <1>3, <1>4, <1>19, SMTT(30) DEF Sum15
<1>20. CASE x = 15
  BY <1>1, <1>3, <1>4, <1>20, SMTT(30) DEF Sum15
<1> QED
  BY <1>5, FifteenBits, <1>6, <1>7, <1>8, <1>9, <1>10, <1>11, <1>12, <1>13, <1>14, <1>15, <1>16, <1>17, <1>18, <1>19, <1>20

LEMMA SumIs ==
    ASSUME NEW f \in [1..15 -> Int], NEW S \in SUBSET (1..15)
    PROVE  SumOf(f, S) = Sum15(f, S)
<1> DEFINE rest(s)  == s \ {CHOOSE x \in s : TRUE}
           first(s) == CHOOSE x \in s : TRUE
           iter     == CHOOSE g : g = [s \in SUBSET S |-> IF s = {} THEN 0 ELSE f[first(s)] + g[rest(s)]]
           sum      == [s \in SUBSET S |-> Sum15(f, s)]
<1>1. SumOf(f, S) = iter[S]
  BY Zenon DEF SumOf, MapThenSumSet, MapThenFoldSet
<1>0. Sum15(f, {}) = 0
  BY SMTT(20) DEF Sum15, Entry
<1>2. sum = [s \in SUBSET S |-> IF s = {} THEN 0 ELSE f[first(s)] + sum[rest(s)]]
  <2> SUFFICES ASSUME NEW s \in SUBSET S
               PROVE  Sum15(f, s) = IF s = {} THEN 0 ELSE f[first(s)] + sum[rest(s)]
    OBVIOUS
  <2>1. CASE s = {}
    BY <1>0, <2>1
  <2>2. CASE s # {}
    <3>1. first(s) \in s /\ rest(s) \in SUBSET S /\ s \in SUBSET (1..15)
      BY <2>2
    <3>2. Sum15(f, s) = f[first(s)] + Sum15(f, rest(s))
      BY <3>1, Sum15Step
    <3> QED
      BY <2>2, <3>1, <3>2
  <2> QED
    BY <2>1, <2>2
<1>3. iter = [s \in SUBSET S |-> IF s = {} THEN 0 ELSE f[first(s)] + iter[rest(s)]]
  <2> HIDE DEF sum
  <2> QED
    BY <1>2, Zenon
<1> HIDE DEF iter
<1>4. ASSUME NEW s \in SUBSET S, iter[s] # Sum15(f, s)
      PROVE  FALSE
  <2> DEFINE bad == {n \in Nat : \E t \in SUBSET S : Cardinality(t) = n /\ iter[t] # Sum15(f, t)}
  <2>a. IsFiniteSet(1..15)
    <3>1. 1 \in Int /\ 15 \in Int
      OBVIOUS
    <3> QED
      BY <3>1, FS_Interval, Zenon
  <2>0. \A t \in SUBSET S : IsFiniteSet(t) /\ Cardinality(t) \in Nat
    BY <2>a, FS_Subset, FS_CardinalityType
  <2>1. Cardinality(s) \in bad /\ bad \subseteq Nat
    BY <1>4, <2>0
  <2>2. PICK n \in bad : \A k \in bad : n <= k
    BY <2>1, Least
  <2>3. PICK t \in SUBSET S : Cardinality(t) = n /\ iter[t] # Sum15(f, t)
    BY <2>2
  <2>4. CASE t = {}
    BY <1>0, <1>3, <2>3, <2>4
  <2>5. CASE t # {}
    <3>1. first(t) \in t /\ rest(t) \in SUBSET S /\ t \in SUBSET (1..15)
      BY <2>5
    <3>2. Cardinality(rest(t)) = n - 1 /\ n - 1 \in Nat
      <4>1. Cardinality(t \ {first(t)}) = Cardinality(t) - 1
        BY <2>0, <3>1, FS_RemoveElement
      <4>2. Cardinality(rest(t)) \in Nat
        BY <2>0, <3>1
      <4> QED
        BY <2>3, <4>1, <4>2
    <3>3. rest(t) \in SUBSET S /\ n - 1 \notin bad
      BY <2>2, <3>1, <3>2
    <3>4. iter[rest(t)] = Sum15(f, rest(t))
      BY <3>2, <3>3
    <3>5. iter[t] = f[first(t)] + iter[rest(t)]
      BY <1>3, <2>5
    <3>6. Sum15(f, t) = f[first(t)] + Sum15(f, rest(t))
      BY <3>1, Sum15Step
    <3> QED
      BY <2>3, <3>4, <3>5, <3>6
  <2> QED
    BY <2>4, <2>5
<1> QED
  BY <1>1, <1>4

\* One entry more.
LEMMA SumOfMore ==
    ASSUME NEW f \in [1..15 -> Int], NEW k \in 1..15
    PROVE  SumOf(f, 1..k) = SumOf(f, 1..(k - 1)) + f[k]
<1>1. PICK s, t : s = 1..k /\ t = 1..(k - 1)
  OBVIOUS
<1>2. s \in SUBSET (1..15) /\ t \in SUBSET (1..15) /\ k \in s /\ t = s \ {k}
  <2>1. \A i : i \in s <=> i \in Int /\ 1 <= i /\ i <= k
    BY <1>1
  <2>2. \A i : i \in t <=> i \in Int /\ 1 <= i /\ i <= k - 1
    BY <1>1
  <2>3. k \in Int /\ 1 <= k /\ k <= 15
    OBVIOUS
  <2>4. s \in SUBSET (1..15) /\ t \in SUBSET (1..15) /\ k \in s
    BY <2>1, <2>2, <2>3
  <2>5. \A i : i \in t <=> i \in s /\ i # k
    BY <2>1, <2>2, <2>3
  <2>6. t = s \ {k}
    BY <2>5
  <2> QED
    BY <2>4, <2>6
<1>3. Sum15(f, s) = f[k] + Sum15(f, s \ {k})
  BY <1>2, Sum15Step
<1>4. SumOf(f, s) = Sum15(f, s) /\ SumOf(f, t) = Sum15(f, t)
  BY <1>2, SumIs
<1>5. Sum15(f, t) \in Int /\ f[k] \in Int
  <2>1. \A i \in 1..15 : Entry(f, t, i) \in Int
    BY EntriesAre
  <2> QED
    BY <2>1 DEF Sum15
<1>6. SumOf(f, s) = f[k] + SumOf(f, t)
  BY <1>2, <1>3, <1>4, Zenon
<1>7. SumOf(f, t) \in Int
  BY <1>4, <1>5
<1>8. SumOf(f, s) = SumOf(f, t) + f[k]
  BY <1>5, <1>6, <1>7
<1> QED
  BY <1>1, <1>8, Zenon

LEMMA SumOfNone ==
    ASSUME NEW f \in [1..15 -> Int]
    PROVE  SumOf(f, 1..0) = 0
<1>1. 1..0 = {}
  OBVIOUS
<1>2. SumOf(f, {}) = Sum15(f, {})
  BY SumIs
<1> QED
  BY <1>1, <1>2 DEF Sum15, Entry

LEMMA GainIsNumber ==
    ASSUME NEW l \in 0..15, NEW m \in 0..15
    PROVE  TotalGain(l, m) \in Int
<1>1. ASSUME NEW f \in [1..15 -> Int], NEW k \in 0..15
      PROVE  SumOf(f, 1..k) \in Int
  <2>1. PICK s : s = 1..k
    OBVIOUS
  <2>2. s \in SUBSET (1..15)
    <3>1. \A i : i \in s => i \in Int /\ 1 <= i /\ i <= k
      BY <2>1
    <3>2. k \in Int /\ k <= 15
      OBVIOUS
    <3> QED
      BY <3>1, <3>2
  <2>3. SumOf(f, s) = Sum15(f, s)
    BY <2>2, SumIs
  <2>4. \A i \in 1..15 : Entry(f, s, i) \in Int
    BY EntriesAre
  <2>5. Sum15(f, s) \in Int
    BY <2>4 DEF Sum15
  <2> QED
    BY <2>1, <2>3, <2>5, Zenon
<1>2. LnaSteps \in [1..15 -> Int] /\ MixerSteps \in [1..15 -> Int]
  BY DEF LnaSteps, MixerSteps
<1>3. SumOf(LnaSteps, 1..l) \in Int
  BY <1>1, <1>2
<1>4. SumOf(MixerSteps, 1..m) \in Int
  BY <1>1, <1>2
<1>5. TotalGain(l, m) = SumOf(LnaSteps, 1..l) + SumOf(MixerSteps, 1..m)
  BY Zenon DEF TotalGain, SumOf
<1> QED
  BY <1>3, <1>4, <1>5

\* The walk of r82xx_set_gain, for any gain: it ends with the amplifiers at most a
\* step apart, as soon as the gain is reached or at the last step, and never later.
THEOREM WalkStopsAtGain ==
    ASSUME NEW gain \in Int
    PROVE  LET l == LnaIndex(Steps(gain))
               m == MixIndex(Steps(gain))
           IN  /\ l \in 0..15 /\ m \in 0..15 /\ l - m \in 0..1
               /\ TotalGain(l, m) >= gain \/ l + m = 30
               /\ l > m => TotalGain(m, m) < gain
               /\ l = m /\ l > 0 => TotalGain(l, m - 1) < gain
<1> DEFINE enough == {n \in 0..30 : TotalGain(LnaIndex(n), MixIndex(n)) >= gain}
           n == Steps(gain)
           l == LnaIndex(n)
           m == MixIndex(n)
<1>1. enough \subseteq Nat
  OBVIOUS
<1>2. /\ n \in 0..30
      /\ n \in enough \/ n = 30
      /\ \A k \in 0..30 : k < n => k \notin enough
  <2>1. CASE enough = {}
    BY <2>1 DEF Steps
  <2>2. CASE enough # {}
    <3>1. n = Min(enough)
      BY <2>2 DEF Steps
    <3>2. n \in enough /\ \A k \in enough : n <= k
      BY <1>1, <2>2, <3>1, MinIsLeast
    <3> HIDE DEF n
    <3>3. n \in 0..30
      BY <3>2
    <3>4. \A k \in 0..30 : k < n => k \notin enough
      BY <3>2, <3>3
    <3> QED
      BY <3>2, <3>3, <3>4
  <2> QED
    BY <2>1, <2>2
<1>3. \A k \in 0..30 : LnaIndex(k) \in 0..15 /\ MixIndex(k) \in 0..15 /\ LnaIndex(k) - MixIndex(k) \in 0..1
                     /\ LnaIndex(k) + MixIndex(k) = k
  BY DEF LnaIndex, MixIndex
<1>4. \A k \in 0..30 : k < n => TotalGain(LnaIndex(k), MixIndex(k)) < gain
  <2> SUFFICES ASSUME NEW k \in 0..30, k < n
               PROVE  TotalGain(LnaIndex(k), MixIndex(k)) < gain
    OBVIOUS
  <2>1. ~(TotalGain(LnaIndex(k), MixIndex(k)) >= gain)
    BY <1>2
  <2>2. TotalGain(LnaIndex(k), MixIndex(k)) \in Int
    BY <1>3, GainIsNumber
  <2> QED
    BY <2>1, <2>2
<1>5. TotalGain(l, m) >= gain \/ l + m = 30
  BY <1>2, <1>3
<1> HIDE DEF n
<1>6. ASSUME l > m
      PROVE  TotalGain(m, m) < gain
  <2>1. n - 1 \in 0..30 /\ n - 1 < n /\ LnaIndex(n - 1) = m /\ MixIndex(n - 1) = m
    BY <1>2, <1>6 DEF LnaIndex, MixIndex
  <2> QED
    BY <1>4, <2>1
<1>7. ASSUME l = m, l > 0
      PROVE  TotalGain(l, m - 1) < gain
  <2>1. n - 1 \in 0..30 /\ n - 1 < n /\ LnaIndex(n - 1) = l /\ MixIndex(n - 1) = m - 1
    BY <1>2, <1>7 DEF LnaIndex, MixIndex
  <2> QED
    BY <1>4, <2>1
<1> QED
  BY <1>2, <1>3, <1>5, <1>6, <1>7 DEF n

\* What the steps of each amplifier add up to.
LEMMA LnaSums ==
    /\ SumOf(LnaSteps, 1..0) = 0 /\ SumOf(LnaSteps, 1..1) = 9 /\ SumOf(LnaSteps, 1..2) = 22
    /\ SumOf(LnaSteps, 1..3) = 62 /\ SumOf(LnaSteps, 1..4) = 100 /\ SumOf(LnaSteps, 1..5) = 113
    /\ SumOf(LnaSteps, 1..6) = 144 /\ SumOf(LnaSteps, 1..7) = 166 /\ SumOf(LnaSteps, 1..8) = 192
    /\ SumOf(LnaSteps, 1..9) = 223 /\ SumOf(LnaSteps, 1..10) = 249 /\ SumOf(LnaSteps, 1..11) = 263
    /\ SumOf(LnaSteps, 1..12) = 282 /\ SumOf(LnaSteps, 1..13) = 287 /\ SumOf(LnaSteps, 1..14) = 322
    /\ SumOf(LnaSteps, 1..15) = 335
<1>1. PICK f : f = LnaSteps
  OBVIOUS
<1>2. f \in [1..15 -> Int]
  BY <1>1 DEF LnaSteps
<1>3. /\ f[1] = 9 /\ f[2] = 13 /\ f[3] = 40 /\ f[4] = 38 /\ f[5] = 13 /\ f[6] = 31 /\ f[7] = 22 /\ f[8] = 26
      /\ f[9] = 31 /\ f[10] = 26 /\ f[11] = 14 /\ f[12] = 19 /\ f[13] = 5 /\ f[14] = 35 /\ f[15] = 13
  BY <1>1 DEF LnaSteps
<1>4. \A k \in 1..15 : SumOf(f, 1..k) = SumOf(f, 1..(k - 1)) + f[k]
  BY <1>2, SumOfMore
<1>5. SumOf(f, 1..0) = 0
  BY <1>2, SumOfNone
<1>6. SumOf(f, 1..1) = 9
  <2>1. 1 \in 1..15 /\ 1 - 1 = 0
    OBVIOUS
  <2>2. SumOf(f, 1..1) = SumOf(f, 1..(1 - 1)) + f[1]
    BY <1>4, <2>1, Zenon
  <2> QED
    BY <1>3, <1>5, <2>1, <2>2
<1>7. SumOf(f, 1..2) = 22
  <2>1. 2 \in 1..15 /\ 2 - 1 = 1
    OBVIOUS
  <2>2. SumOf(f, 1..2) = SumOf(f, 1..(2 - 1)) + f[2]
    BY <1>4, <2>1, Zenon
  <2> QED
    BY <1>3, <1>6, <2>1, <2>2
<1>8. SumOf(f, 1..3) = 62
  <2>1. 3 \in 1..15 /\ 3 - 1 = 2
    OBVIOUS
  <2>2. SumOf(f, 1..3) = SumOf(f, 1..(3 - 1)) + f[3]
    BY <1>4, <2>1, Zenon
  <2> QED
    BY <1>3, <1>7, <2>1, <2>2
<1>9. SumOf(f, 1..4) = 100
  <2>1. 4 \in 1..15 /\ 4 - 1 = 3
    OBVIOUS
  <2>2. SumOf(f, 1..4) = SumOf(f, 1..(4 - 1)) + f[4]
    BY <1>4, <2>1, Zenon
  <2> QED
    BY <1>3, <1>8, <2>1, <2>2
<1>10. SumOf(f, 1..5) = 113
  <2>1. 5 \in 1..15 /\ 5 - 1 = 4
    OBVIOUS
  <2>2. SumOf(f, 1..5) = SumOf(f, 1..(5 - 1)) + f[5]
    BY <1>4, <2>1, Zenon
  <2> QED
    BY <1>3, <1>9, <2>1, <2>2
<1>11. SumOf(f, 1..6) = 144
  <2>1. 6 \in 1..15 /\ 6 - 1 = 5
    OBVIOUS
  <2>2. SumOf(f, 1..6) = SumOf(f, 1..(6 - 1)) + f[6]
    BY <1>4, <2>1, Zenon
  <2> QED
    BY <1>3, <1>10, <2>1, <2>2
<1>12. SumOf(f, 1..7) = 166
  <2>1. 7 \in 1..15 /\ 7 - 1 = 6
    OBVIOUS
  <2>2. SumOf(f, 1..7) = SumOf(f, 1..(7 - 1)) + f[7]
    BY <1>4, <2>1, Zenon
  <2> QED
    BY <1>3, <1>11, <2>1, <2>2
<1>13. SumOf(f, 1..8) = 192
  <2>1. 8 \in 1..15 /\ 8 - 1 = 7
    OBVIOUS
  <2>2. SumOf(f, 1..8) = SumOf(f, 1..(8 - 1)) + f[8]
    BY <1>4, <2>1, Zenon
  <2> QED
    BY <1>3, <1>12, <2>1, <2>2
<1>14. SumOf(f, 1..9) = 223
  <2>1. 9 \in 1..15 /\ 9 - 1 = 8
    OBVIOUS
  <2>2. SumOf(f, 1..9) = SumOf(f, 1..(9 - 1)) + f[9]
    BY <1>4, <2>1, Zenon
  <2> QED
    BY <1>3, <1>13, <2>1, <2>2
<1>15. SumOf(f, 1..10) = 249
  <2>1. 10 \in 1..15 /\ 10 - 1 = 9
    OBVIOUS
  <2>2. SumOf(f, 1..10) = SumOf(f, 1..(10 - 1)) + f[10]
    BY <1>4, <2>1, Zenon
  <2> QED
    BY <1>3, <1>14, <2>1, <2>2
<1>16. SumOf(f, 1..11) = 263
  <2>1. 11 \in 1..15 /\ 11 - 1 = 10
    OBVIOUS
  <2>2. SumOf(f, 1..11) = SumOf(f, 1..(11 - 1)) + f[11]
    BY <1>4, <2>1, Zenon
  <2> QED
    BY <1>3, <1>15, <2>1, <2>2
<1>17. SumOf(f, 1..12) = 282
  <2>1. 12 \in 1..15 /\ 12 - 1 = 11
    OBVIOUS
  <2>2. SumOf(f, 1..12) = SumOf(f, 1..(12 - 1)) + f[12]
    BY <1>4, <2>1, Zenon
  <2> QED
    BY <1>3, <1>16, <2>1, <2>2
<1>18. SumOf(f, 1..13) = 287
  <2>1. 13 \in 1..15 /\ 13 - 1 = 12
    OBVIOUS
  <2>2. SumOf(f, 1..13) = SumOf(f, 1..(13 - 1)) + f[13]
    BY <1>4, <2>1, Zenon
  <2> QED
    BY <1>3, <1>17, <2>1, <2>2
<1>19. SumOf(f, 1..14) = 322
  <2>1. 14 \in 1..15 /\ 14 - 1 = 13
    OBVIOUS
  <2>2. SumOf(f, 1..14) = SumOf(f, 1..(14 - 1)) + f[14]
    BY <1>4, <2>1, Zenon
  <2> QED
    BY <1>3, <1>18, <2>1, <2>2
<1>20. SumOf(f, 1..15) = 335
  <2>1. 15 \in 1..15 /\ 15 - 1 = 14
    OBVIOUS
  <2>2. SumOf(f, 1..15) = SumOf(f, 1..(15 - 1)) + f[15]
    BY <1>4, <2>1, Zenon
  <2> QED
    BY <1>3, <1>19, <2>1, <2>2
<1> QED
  BY <1>1, <1>5, <1>6, <1>7, <1>8, <1>9, <1>10, <1>11, <1>12, <1>13, <1>14, <1>15, <1>16, <1>17, <1>18, <1>19, <1>20

LEMMA MixerSums ==
    /\ SumOf(MixerSteps, 1..0) = 0 /\ SumOf(MixerSteps, 1..1) = 5 /\ SumOf(MixerSteps, 1..2) = 15
    /\ SumOf(MixerSteps, 1..3) = 25 /\ SumOf(MixerSteps, 1..4) = 44 /\ SumOf(MixerSteps, 1..5) = 53
    /\ SumOf(MixerSteps, 1..6) = 63 /\ SumOf(MixerSteps, 1..7) = 88 /\ SumOf(MixerSteps, 1..8) = 105
    /\ SumOf(MixerSteps, 1..9) = 115 /\ SumOf(MixerSteps, 1..10) = 123 /\ SumOf(MixerSteps, 1..11) = 139
    /\ SumOf(MixerSteps, 1..12) = 152 /\ SumOf(MixerSteps, 1..13) = 158 /\ SumOf(MixerSteps, 1..14) = 161
    /\ SumOf(MixerSteps, 1..15) = 153
<1>1. PICK f : f = MixerSteps
  OBVIOUS
<1>2. f \in [1..15 -> Int]
  BY <1>1 DEF MixerSteps
<1>3. /\ f[1] = 5 /\ f[2] = 10 /\ f[3] = 10 /\ f[4] = 19 /\ f[5] = 9 /\ f[6] = 10 /\ f[7] = 25 /\ f[8] = 17
      /\ f[9] = 10 /\ f[10] = 8 /\ f[11] = 16 /\ f[12] = 13 /\ f[13] = 6 /\ f[14] = 3 /\ f[15] = -8
  BY <1>1 DEF MixerSteps
<1>4. \A k \in 1..15 : SumOf(f, 1..k) = SumOf(f, 1..(k - 1)) + f[k]
  BY <1>2, SumOfMore
<1>5. SumOf(f, 1..0) = 0
  BY <1>2, SumOfNone
<1>6. SumOf(f, 1..1) = 5
  <2>1. 1 \in 1..15 /\ 1 - 1 = 0
    OBVIOUS
  <2>2. SumOf(f, 1..1) = SumOf(f, 1..(1 - 1)) + f[1]
    BY <1>4, <2>1, Zenon
  <2> QED
    BY <1>3, <1>5, <2>1, <2>2
<1>7. SumOf(f, 1..2) = 15
  <2>1. 2 \in 1..15 /\ 2 - 1 = 1
    OBVIOUS
  <2>2. SumOf(f, 1..2) = SumOf(f, 1..(2 - 1)) + f[2]
    BY <1>4, <2>1, Zenon
  <2> QED
    BY <1>3, <1>6, <2>1, <2>2
<1>8. SumOf(f, 1..3) = 25
  <2>1. 3 \in 1..15 /\ 3 - 1 = 2
    OBVIOUS
  <2>2. SumOf(f, 1..3) = SumOf(f, 1..(3 - 1)) + f[3]
    BY <1>4, <2>1, Zenon
  <2> QED
    BY <1>3, <1>7, <2>1, <2>2
<1>9. SumOf(f, 1..4) = 44
  <2>1. 4 \in 1..15 /\ 4 - 1 = 3
    OBVIOUS
  <2>2. SumOf(f, 1..4) = SumOf(f, 1..(4 - 1)) + f[4]
    BY <1>4, <2>1, Zenon
  <2> QED
    BY <1>3, <1>8, <2>1, <2>2
<1>10. SumOf(f, 1..5) = 53
  <2>1. 5 \in 1..15 /\ 5 - 1 = 4
    OBVIOUS
  <2>2. SumOf(f, 1..5) = SumOf(f, 1..(5 - 1)) + f[5]
    BY <1>4, <2>1, Zenon
  <2> QED
    BY <1>3, <1>9, <2>1, <2>2
<1>11. SumOf(f, 1..6) = 63
  <2>1. 6 \in 1..15 /\ 6 - 1 = 5
    OBVIOUS
  <2>2. SumOf(f, 1..6) = SumOf(f, 1..(6 - 1)) + f[6]
    BY <1>4, <2>1, Zenon
  <2> QED
    BY <1>3, <1>10, <2>1, <2>2
<1>12. SumOf(f, 1..7) = 88
  <2>1. 7 \in 1..15 /\ 7 - 1 = 6
    OBVIOUS
  <2>2. SumOf(f, 1..7) = SumOf(f, 1..(7 - 1)) + f[7]
    BY <1>4, <2>1, Zenon
  <2> QED
    BY <1>3, <1>11, <2>1, <2>2
<1>13. SumOf(f, 1..8) = 105
  <2>1. 8 \in 1..15 /\ 8 - 1 = 7
    OBVIOUS
  <2>2. SumOf(f, 1..8) = SumOf(f, 1..(8 - 1)) + f[8]
    BY <1>4, <2>1, Zenon
  <2> QED
    BY <1>3, <1>12, <2>1, <2>2
<1>14. SumOf(f, 1..9) = 115
  <2>1. 9 \in 1..15 /\ 9 - 1 = 8
    OBVIOUS
  <2>2. SumOf(f, 1..9) = SumOf(f, 1..(9 - 1)) + f[9]
    BY <1>4, <2>1, Zenon
  <2> QED
    BY <1>3, <1>13, <2>1, <2>2
<1>15. SumOf(f, 1..10) = 123
  <2>1. 10 \in 1..15 /\ 10 - 1 = 9
    OBVIOUS
  <2>2. SumOf(f, 1..10) = SumOf(f, 1..(10 - 1)) + f[10]
    BY <1>4, <2>1, Zenon
  <2> QED
    BY <1>3, <1>14, <2>1, <2>2
<1>16. SumOf(f, 1..11) = 139
  <2>1. 11 \in 1..15 /\ 11 - 1 = 10
    OBVIOUS
  <2>2. SumOf(f, 1..11) = SumOf(f, 1..(11 - 1)) + f[11]
    BY <1>4, <2>1, Zenon
  <2> QED
    BY <1>3, <1>15, <2>1, <2>2
<1>17. SumOf(f, 1..12) = 152
  <2>1. 12 \in 1..15 /\ 12 - 1 = 11
    OBVIOUS
  <2>2. SumOf(f, 1..12) = SumOf(f, 1..(12 - 1)) + f[12]
    BY <1>4, <2>1, Zenon
  <2> QED
    BY <1>3, <1>16, <2>1, <2>2
<1>18. SumOf(f, 1..13) = 158
  <2>1. 13 \in 1..15 /\ 13 - 1 = 12
    OBVIOUS
  <2>2. SumOf(f, 1..13) = SumOf(f, 1..(13 - 1)) + f[13]
    BY <1>4, <2>1, Zenon
  <2> QED
    BY <1>3, <1>17, <2>1, <2>2
<1>19. SumOf(f, 1..14) = 161
  <2>1. 14 \in 1..15 /\ 14 - 1 = 13
    OBVIOUS
  <2>2. SumOf(f, 1..14) = SumOf(f, 1..(14 - 1)) + f[14]
    BY <1>4, <2>1, Zenon
  <2> QED
    BY <1>3, <1>18, <2>1, <2>2
<1>20. SumOf(f, 1..15) = 153
  <2>1. 15 \in 1..15 /\ 15 - 1 = 14
    OBVIOUS
  <2>2. SumOf(f, 1..15) = SumOf(f, 1..(15 - 1)) + f[15]
    BY <1>4, <2>1, Zenon
  <2> QED
    BY <1>3, <1>19, <2>1, <2>2
<1> QED
  BY <1>1, <1>5, <1>6, <1>7, <1>8, <1>9, <1>10, <1>11, <1>12, <1>13, <1>14, <1>15, <1>16, <1>17, <1>18, <1>19, <1>20

\* The total after each step of the walk.
Totals ==
    <<0, 9, 14, 27, 37, 77, 87, 125, 144, 157, 166, 197, 207, 229, 254, 280,
      297, 328, 338, 364, 372, 386, 402, 421, 434, 439, 445, 480, 483, 496, 488>>

LEMMA TotalsAre == \A n \in 0..30 : TotalGain(LnaIndex(n), MixIndex(n)) = Totals[n + 1]
<1>1. \A l, m : TotalGain(l, m) = SumOf(LnaSteps, 1..l) + SumOf(MixerSteps, 1..m)
  BY Zenon DEF TotalGain, SumOf
<1>2. PICK t : t = Totals
  OBVIOUS
<1>3. /\ t[1] = 0 /\ t[2] = 9 /\ t[3] = 14 /\ t[4] = 27 /\ t[5] = 37 /\ t[6] = 77 /\ t[7] = 87 /\ t[8] = 125
      /\ t[9] = 144 /\ t[10] = 157 /\ t[11] = 166 /\ t[12] = 197 /\ t[13] = 207 /\ t[14] = 229 /\ t[15] = 254 /\ t[16] = 280
      /\ t[17] = 297 /\ t[18] = 328 /\ t[19] = 338 /\ t[20] = 364 /\ t[21] = 372 /\ t[22] = 386 /\ t[23] = 402 /\ t[24] = 421
      /\ t[25] = 434 /\ t[26] = 439 /\ t[27] = 445 /\ t[28] = 480 /\ t[29] = 483 /\ t[30] = 496 /\ t[31] = 488
  BY <1>2, SMTT(20) DEF Totals
<1> TAKE n \in 0..30
<1>5. CASE n = 0
  <2>1. LnaIndex(n) = 0 /\ MixIndex(n) = 0 /\ n + 1 = 1
    BY <1>5 DEF LnaIndex, MixIndex
  <2>2. TotalGain(0, 0) = SumOf(LnaSteps, 1..0) + SumOf(MixerSteps, 1..0)
    BY <1>1, Zenon
  <2>3. SumOf(LnaSteps, 1..0) = 0 /\ SumOf(MixerSteps, 1..0) = 0
    BY LnaSums, MixerSums
  <2> QED
    BY <1>2, <1>3, <2>1, <2>2, <2>3
<1>6. CASE n = 1
  <2>1. LnaIndex(n) = 1 /\ MixIndex(n) = 0 /\ n + 1 = 2
    BY <1>6 DEF LnaIndex, MixIndex
  <2>2. TotalGain(1, 0) = SumOf(LnaSteps, 1..1) + SumOf(MixerSteps, 1..0)
    BY <1>1, Zenon
  <2>3. SumOf(LnaSteps, 1..1) = 9 /\ SumOf(MixerSteps, 1..0) = 0
    BY LnaSums, MixerSums
  <2> QED
    BY <1>2, <1>3, <2>1, <2>2, <2>3
<1>7. CASE n = 2
  <2>1. LnaIndex(n) = 1 /\ MixIndex(n) = 1 /\ n + 1 = 3
    BY <1>7 DEF LnaIndex, MixIndex
  <2>2. TotalGain(1, 1) = SumOf(LnaSteps, 1..1) + SumOf(MixerSteps, 1..1)
    BY <1>1, Zenon
  <2>3. SumOf(LnaSteps, 1..1) = 9 /\ SumOf(MixerSteps, 1..1) = 5
    BY LnaSums, MixerSums
  <2> QED
    BY <1>2, <1>3, <2>1, <2>2, <2>3
<1>8. CASE n = 3
  <2>1. LnaIndex(n) = 2 /\ MixIndex(n) = 1 /\ n + 1 = 4
    BY <1>8 DEF LnaIndex, MixIndex
  <2>2. TotalGain(2, 1) = SumOf(LnaSteps, 1..2) + SumOf(MixerSteps, 1..1)
    BY <1>1, Zenon
  <2>3. SumOf(LnaSteps, 1..2) = 22 /\ SumOf(MixerSteps, 1..1) = 5
    BY LnaSums, MixerSums
  <2> QED
    BY <1>2, <1>3, <2>1, <2>2, <2>3
<1>9. CASE n = 4
  <2>1. LnaIndex(n) = 2 /\ MixIndex(n) = 2 /\ n + 1 = 5
    BY <1>9 DEF LnaIndex, MixIndex
  <2>2. TotalGain(2, 2) = SumOf(LnaSteps, 1..2) + SumOf(MixerSteps, 1..2)
    BY <1>1, Zenon
  <2>3. SumOf(LnaSteps, 1..2) = 22 /\ SumOf(MixerSteps, 1..2) = 15
    BY LnaSums, MixerSums
  <2> QED
    BY <1>2, <1>3, <2>1, <2>2, <2>3
<1>10. CASE n = 5
  <2>1. LnaIndex(n) = 3 /\ MixIndex(n) = 2 /\ n + 1 = 6
    BY <1>10 DEF LnaIndex, MixIndex
  <2>2. TotalGain(3, 2) = SumOf(LnaSteps, 1..3) + SumOf(MixerSteps, 1..2)
    BY <1>1, Zenon
  <2>3. SumOf(LnaSteps, 1..3) = 62 /\ SumOf(MixerSteps, 1..2) = 15
    BY LnaSums, MixerSums
  <2> QED
    BY <1>2, <1>3, <2>1, <2>2, <2>3
<1>11. CASE n = 6
  <2>1. LnaIndex(n) = 3 /\ MixIndex(n) = 3 /\ n + 1 = 7
    BY <1>11 DEF LnaIndex, MixIndex
  <2>2. TotalGain(3, 3) = SumOf(LnaSteps, 1..3) + SumOf(MixerSteps, 1..3)
    BY <1>1, Zenon
  <2>3. SumOf(LnaSteps, 1..3) = 62 /\ SumOf(MixerSteps, 1..3) = 25
    BY LnaSums, MixerSums
  <2> QED
    BY <1>2, <1>3, <2>1, <2>2, <2>3
<1>12. CASE n = 7
  <2>1. LnaIndex(n) = 4 /\ MixIndex(n) = 3 /\ n + 1 = 8
    BY <1>12 DEF LnaIndex, MixIndex
  <2>2. TotalGain(4, 3) = SumOf(LnaSteps, 1..4) + SumOf(MixerSteps, 1..3)
    BY <1>1, Zenon
  <2>3. SumOf(LnaSteps, 1..4) = 100 /\ SumOf(MixerSteps, 1..3) = 25
    BY LnaSums, MixerSums
  <2> QED
    BY <1>2, <1>3, <2>1, <2>2, <2>3
<1>13. CASE n = 8
  <2>1. LnaIndex(n) = 4 /\ MixIndex(n) = 4 /\ n + 1 = 9
    BY <1>13 DEF LnaIndex, MixIndex
  <2>2. TotalGain(4, 4) = SumOf(LnaSteps, 1..4) + SumOf(MixerSteps, 1..4)
    BY <1>1, Zenon
  <2>3. SumOf(LnaSteps, 1..4) = 100 /\ SumOf(MixerSteps, 1..4) = 44
    BY LnaSums, MixerSums
  <2> QED
    BY <1>2, <1>3, <2>1, <2>2, <2>3
<1>14. CASE n = 9
  <2>1. LnaIndex(n) = 5 /\ MixIndex(n) = 4 /\ n + 1 = 10
    BY <1>14 DEF LnaIndex, MixIndex
  <2>2. TotalGain(5, 4) = SumOf(LnaSteps, 1..5) + SumOf(MixerSteps, 1..4)
    BY <1>1, Zenon
  <2>3. SumOf(LnaSteps, 1..5) = 113 /\ SumOf(MixerSteps, 1..4) = 44
    BY LnaSums, MixerSums
  <2> QED
    BY <1>2, <1>3, <2>1, <2>2, <2>3
<1>15. CASE n = 10
  <2>1. LnaIndex(n) = 5 /\ MixIndex(n) = 5 /\ n + 1 = 11
    BY <1>15 DEF LnaIndex, MixIndex
  <2>2. TotalGain(5, 5) = SumOf(LnaSteps, 1..5) + SumOf(MixerSteps, 1..5)
    BY <1>1, Zenon
  <2>3. SumOf(LnaSteps, 1..5) = 113 /\ SumOf(MixerSteps, 1..5) = 53
    BY LnaSums, MixerSums
  <2> QED
    BY <1>2, <1>3, <2>1, <2>2, <2>3
<1>16. CASE n = 11
  <2>1. LnaIndex(n) = 6 /\ MixIndex(n) = 5 /\ n + 1 = 12
    BY <1>16 DEF LnaIndex, MixIndex
  <2>2. TotalGain(6, 5) = SumOf(LnaSteps, 1..6) + SumOf(MixerSteps, 1..5)
    BY <1>1, Zenon
  <2>3. SumOf(LnaSteps, 1..6) = 144 /\ SumOf(MixerSteps, 1..5) = 53
    BY LnaSums, MixerSums
  <2> QED
    BY <1>2, <1>3, <2>1, <2>2, <2>3
<1>17. CASE n = 12
  <2>1. LnaIndex(n) = 6 /\ MixIndex(n) = 6 /\ n + 1 = 13
    BY <1>17 DEF LnaIndex, MixIndex
  <2>2. TotalGain(6, 6) = SumOf(LnaSteps, 1..6) + SumOf(MixerSteps, 1..6)
    BY <1>1, Zenon
  <2>3. SumOf(LnaSteps, 1..6) = 144 /\ SumOf(MixerSteps, 1..6) = 63
    BY LnaSums, MixerSums
  <2> QED
    BY <1>2, <1>3, <2>1, <2>2, <2>3
<1>18. CASE n = 13
  <2>1. LnaIndex(n) = 7 /\ MixIndex(n) = 6 /\ n + 1 = 14
    BY <1>18 DEF LnaIndex, MixIndex
  <2>2. TotalGain(7, 6) = SumOf(LnaSteps, 1..7) + SumOf(MixerSteps, 1..6)
    BY <1>1, Zenon
  <2>3. SumOf(LnaSteps, 1..7) = 166 /\ SumOf(MixerSteps, 1..6) = 63
    BY LnaSums, MixerSums
  <2> QED
    BY <1>2, <1>3, <2>1, <2>2, <2>3
<1>19. CASE n = 14
  <2>1. LnaIndex(n) = 7 /\ MixIndex(n) = 7 /\ n + 1 = 15
    BY <1>19 DEF LnaIndex, MixIndex
  <2>2. TotalGain(7, 7) = SumOf(LnaSteps, 1..7) + SumOf(MixerSteps, 1..7)
    BY <1>1, Zenon
  <2>3. SumOf(LnaSteps, 1..7) = 166 /\ SumOf(MixerSteps, 1..7) = 88
    BY LnaSums, MixerSums
  <2> QED
    BY <1>2, <1>3, <2>1, <2>2, <2>3
<1>20. CASE n = 15
  <2>1. LnaIndex(n) = 8 /\ MixIndex(n) = 7 /\ n + 1 = 16
    BY <1>20 DEF LnaIndex, MixIndex
  <2>2. TotalGain(8, 7) = SumOf(LnaSteps, 1..8) + SumOf(MixerSteps, 1..7)
    BY <1>1, Zenon
  <2>3. SumOf(LnaSteps, 1..8) = 192 /\ SumOf(MixerSteps, 1..7) = 88
    BY LnaSums, MixerSums
  <2> QED
    BY <1>2, <1>3, <2>1, <2>2, <2>3
<1>21. CASE n = 16
  <2>1. LnaIndex(n) = 8 /\ MixIndex(n) = 8 /\ n + 1 = 17
    BY <1>21 DEF LnaIndex, MixIndex
  <2>2. TotalGain(8, 8) = SumOf(LnaSteps, 1..8) + SumOf(MixerSteps, 1..8)
    BY <1>1, Zenon
  <2>3. SumOf(LnaSteps, 1..8) = 192 /\ SumOf(MixerSteps, 1..8) = 105
    BY LnaSums, MixerSums
  <2> QED
    BY <1>2, <1>3, <2>1, <2>2, <2>3
<1>22. CASE n = 17
  <2>1. LnaIndex(n) = 9 /\ MixIndex(n) = 8 /\ n + 1 = 18
    BY <1>22 DEF LnaIndex, MixIndex
  <2>2. TotalGain(9, 8) = SumOf(LnaSteps, 1..9) + SumOf(MixerSteps, 1..8)
    BY <1>1, Zenon
  <2>3. SumOf(LnaSteps, 1..9) = 223 /\ SumOf(MixerSteps, 1..8) = 105
    BY LnaSums, MixerSums
  <2> QED
    BY <1>2, <1>3, <2>1, <2>2, <2>3
<1>23. CASE n = 18
  <2>1. LnaIndex(n) = 9 /\ MixIndex(n) = 9 /\ n + 1 = 19
    BY <1>23 DEF LnaIndex, MixIndex
  <2>2. TotalGain(9, 9) = SumOf(LnaSteps, 1..9) + SumOf(MixerSteps, 1..9)
    BY <1>1, Zenon
  <2>3. SumOf(LnaSteps, 1..9) = 223 /\ SumOf(MixerSteps, 1..9) = 115
    BY LnaSums, MixerSums
  <2> QED
    BY <1>2, <1>3, <2>1, <2>2, <2>3
<1>24. CASE n = 19
  <2>1. LnaIndex(n) = 10 /\ MixIndex(n) = 9 /\ n + 1 = 20
    BY <1>24 DEF LnaIndex, MixIndex
  <2>2. TotalGain(10, 9) = SumOf(LnaSteps, 1..10) + SumOf(MixerSteps, 1..9)
    BY <1>1, Zenon
  <2>3. SumOf(LnaSteps, 1..10) = 249 /\ SumOf(MixerSteps, 1..9) = 115
    BY LnaSums, MixerSums
  <2> QED
    BY <1>2, <1>3, <2>1, <2>2, <2>3
<1>25. CASE n = 20
  <2>1. LnaIndex(n) = 10 /\ MixIndex(n) = 10 /\ n + 1 = 21
    BY <1>25 DEF LnaIndex, MixIndex
  <2>2. TotalGain(10, 10) = SumOf(LnaSteps, 1..10) + SumOf(MixerSteps, 1..10)
    BY <1>1, Zenon
  <2>3. SumOf(LnaSteps, 1..10) = 249 /\ SumOf(MixerSteps, 1..10) = 123
    BY LnaSums, MixerSums
  <2> QED
    BY <1>2, <1>3, <2>1, <2>2, <2>3
<1>26. CASE n = 21
  <2>1. LnaIndex(n) = 11 /\ MixIndex(n) = 10 /\ n + 1 = 22
    BY <1>26 DEF LnaIndex, MixIndex
  <2>2. TotalGain(11, 10) = SumOf(LnaSteps, 1..11) + SumOf(MixerSteps, 1..10)
    BY <1>1, Zenon
  <2>3. SumOf(LnaSteps, 1..11) = 263 /\ SumOf(MixerSteps, 1..10) = 123
    BY LnaSums, MixerSums
  <2> QED
    BY <1>2, <1>3, <2>1, <2>2, <2>3
<1>27. CASE n = 22
  <2>1. LnaIndex(n) = 11 /\ MixIndex(n) = 11 /\ n + 1 = 23
    BY <1>27 DEF LnaIndex, MixIndex
  <2>2. TotalGain(11, 11) = SumOf(LnaSteps, 1..11) + SumOf(MixerSteps, 1..11)
    BY <1>1, Zenon
  <2>3. SumOf(LnaSteps, 1..11) = 263 /\ SumOf(MixerSteps, 1..11) = 139
    BY LnaSums, MixerSums
  <2> QED
    BY <1>2, <1>3, <2>1, <2>2, <2>3
<1>28. CASE n = 23
  <2>1. LnaIndex(n) = 12 /\ MixIndex(n) = 11 /\ n + 1 = 24
    BY <1>28 DEF LnaIndex, MixIndex
  <2>2. TotalGain(12, 11) = SumOf(LnaSteps, 1..12) + SumOf(MixerSteps, 1..11)
    BY <1>1, Zenon
  <2>3. SumOf(LnaSteps, 1..12) = 282 /\ SumOf(MixerSteps, 1..11) = 139
    BY LnaSums, MixerSums
  <2> QED
    BY <1>2, <1>3, <2>1, <2>2, <2>3
<1>29. CASE n = 24
  <2>1. LnaIndex(n) = 12 /\ MixIndex(n) = 12 /\ n + 1 = 25
    BY <1>29 DEF LnaIndex, MixIndex
  <2>2. TotalGain(12, 12) = SumOf(LnaSteps, 1..12) + SumOf(MixerSteps, 1..12)
    BY <1>1, Zenon
  <2>3. SumOf(LnaSteps, 1..12) = 282 /\ SumOf(MixerSteps, 1..12) = 152
    BY LnaSums, MixerSums
  <2> QED
    BY <1>2, <1>3, <2>1, <2>2, <2>3
<1>30. CASE n = 25
  <2>1. LnaIndex(n) = 13 /\ MixIndex(n) = 12 /\ n + 1 = 26
    BY <1>30 DEF LnaIndex, MixIndex
  <2>2. TotalGain(13, 12) = SumOf(LnaSteps, 1..13) + SumOf(MixerSteps, 1..12)
    BY <1>1, Zenon
  <2>3. SumOf(LnaSteps, 1..13) = 287 /\ SumOf(MixerSteps, 1..12) = 152
    BY LnaSums, MixerSums
  <2> QED
    BY <1>2, <1>3, <2>1, <2>2, <2>3
<1>31. CASE n = 26
  <2>1. LnaIndex(n) = 13 /\ MixIndex(n) = 13 /\ n + 1 = 27
    BY <1>31 DEF LnaIndex, MixIndex
  <2>2. TotalGain(13, 13) = SumOf(LnaSteps, 1..13) + SumOf(MixerSteps, 1..13)
    BY <1>1, Zenon
  <2>3. SumOf(LnaSteps, 1..13) = 287 /\ SumOf(MixerSteps, 1..13) = 158
    BY LnaSums, MixerSums
  <2> QED
    BY <1>2, <1>3, <2>1, <2>2, <2>3
<1>32. CASE n = 27
  <2>1. LnaIndex(n) = 14 /\ MixIndex(n) = 13 /\ n + 1 = 28
    BY <1>32 DEF LnaIndex, MixIndex
  <2>2. TotalGain(14, 13) = SumOf(LnaSteps, 1..14) + SumOf(MixerSteps, 1..13)
    BY <1>1, Zenon
  <2>3. SumOf(LnaSteps, 1..14) = 322 /\ SumOf(MixerSteps, 1..13) = 158
    BY LnaSums, MixerSums
  <2> QED
    BY <1>2, <1>3, <2>1, <2>2, <2>3
<1>33. CASE n = 28
  <2>1. LnaIndex(n) = 14 /\ MixIndex(n) = 14 /\ n + 1 = 29
    BY <1>33 DEF LnaIndex, MixIndex
  <2>2. TotalGain(14, 14) = SumOf(LnaSteps, 1..14) + SumOf(MixerSteps, 1..14)
    BY <1>1, Zenon
  <2>3. SumOf(LnaSteps, 1..14) = 322 /\ SumOf(MixerSteps, 1..14) = 161
    BY LnaSums, MixerSums
  <2> QED
    BY <1>2, <1>3, <2>1, <2>2, <2>3
<1>34. CASE n = 29
  <2>1. LnaIndex(n) = 15 /\ MixIndex(n) = 14 /\ n + 1 = 30
    BY <1>34 DEF LnaIndex, MixIndex
  <2>2. TotalGain(15, 14) = SumOf(LnaSteps, 1..15) + SumOf(MixerSteps, 1..14)
    BY <1>1, Zenon
  <2>3. SumOf(LnaSteps, 1..15) = 335 /\ SumOf(MixerSteps, 1..14) = 161
    BY LnaSums, MixerSums
  <2> QED
    BY <1>2, <1>3, <2>1, <2>2, <2>3
<1>35. CASE n = 30
  <2>1. LnaIndex(n) = 15 /\ MixIndex(n) = 15 /\ n + 1 = 31
    BY <1>35 DEF LnaIndex, MixIndex
  <2>2. TotalGain(15, 15) = SumOf(LnaSteps, 1..15) + SumOf(MixerSteps, 1..15)
    BY <1>1, Zenon
  <2>3. SumOf(LnaSteps, 1..15) = 335 /\ SumOf(MixerSteps, 1..15) = 153
    BY LnaSums, MixerSums
  <2> QED
    BY <1>2, <1>3, <2>1, <2>2, <2>3
<1>36. \/ n = 0 \/ n = 1 \/ n = 2 \/ n = 3 \/ n = 4 \/ n = 5 \/ n = 6 \/ n = 7
      \/ n = 8 \/ n = 9 \/ n = 10 \/ n = 11 \/ n = 12 \/ n = 13 \/ n = 14 \/ n = 15
      \/ n = 16 \/ n = 17 \/ n = 18 \/ n = 19 \/ n = 20 \/ n = 21 \/ n = 22 \/ n = 23
      \/ n = 24 \/ n = 25 \/ n = 26 \/ n = 27 \/ n = 28 \/ n = 29 \/ n = 30
  OBVIOUS
<1> QED
  BY <1>5, <1>6, <1>7, <1>8, <1>9, <1>10, <1>11, <1>12, <1>13, <1>14, <1>15, <1>16, <1>17, <1>18, <1>19, <1>20,
     <1>21, <1>22, <1>23, <1>24, <1>25, <1>26, <1>27, <1>28, <1>29, <1>30, <1>31, <1>32, <1>33, <1>34, <1>35, <1>36

\* They rise, but for the last of the mixer's steps and the next to last of the LNA's.
LEMMA TotalsRise ==
    /\ \A n \in 0..30 : Totals[n + 1] \in Int
    /\ \A k \in 0..30, n \in 0..27 : k < n => Totals[k + 1] < Totals[n + 1]
    /\ \A k \in 0..28 : Totals[k + 1] < Totals[30]
<1>1. PICK t : t = Totals
  OBVIOUS
<1>2. /\ t[1] = 0 /\ t[2] = 9 /\ t[3] = 14 /\ t[4] = 27 /\ t[5] = 37 /\ t[6] = 77 /\ t[7] = 87 /\ t[8] = 125
      /\ t[9] = 144 /\ t[10] = 157 /\ t[11] = 166 /\ t[12] = 197 /\ t[13] = 207 /\ t[14] = 229 /\ t[15] = 254 /\ t[16] = 280
      /\ t[17] = 297 /\ t[18] = 328 /\ t[19] = 338 /\ t[20] = 364 /\ t[21] = 372 /\ t[22] = 386 /\ t[23] = 402 /\ t[24] = 421
      /\ t[25] = 434 /\ t[26] = 439 /\ t[27] = 445 /\ t[28] = 480 /\ t[29] = 483 /\ t[30] = 496 /\ t[31] = 488
  BY <1>1, SMTT(20) DEF Totals
<1>3. t \in Seq(Int) /\ Len(t) = 31 /\ 31 \in Nat
  BY <1>1, SMTT(20) DEF Totals
<1>4. t \in [1..31 -> Int]
  <2>1. PICK V : V = Int
    OBVIOUS
  <2>2. t \in Seq(V) /\ Len(t) = 31 /\ 31 \in Nat
    BY <1>3, <2>1
  <2>3. t \in [1..31 -> V]
    BY <2>2, AsFunction
  <2> QED
    BY <2>1, <2>3
<1>5. \A n \in 0..30 : t[n + 1] \in Int
  BY <1>4
<1>6. \A n \in 0..26 : t[n + 1] < t[n + 2]
  <2>1. \A n \in 0..26 : \/ n = 0 \/ n = 1 \/ n = 2 \/ n = 3 \/ n = 4 \/ n = 5 \/ n = 6 \/ n = 7
                         \/ n = 8 \/ n = 9 \/ n = 10 \/ n = 11 \/ n = 12 \/ n = 13 \/ n = 14 \/ n = 15
                         \/ n = 16 \/ n = 17 \/ n = 18 \/ n = 19 \/ n = 20 \/ n = 21 \/ n = 22 \/ n = 23
                         \/ n = 24 \/ n = 25 \/ n = 26
    OBVIOUS
  <2> QED
    BY <1>2, <2>1, SMTT(30)
<1>7. ASSUME NEW k \in 0..30, NEW n \in 0..27, k < n
      PROVE  t[k + 1] < t[n + 1]
  <2> DEFINE bad == {j \in 0..27 : k < j /\ ~(t[k + 1] < t[j + 1])}
  <2>1. CASE bad = {}
    BY <1>7, <2>1
  <2>2. CASE bad # {}
    <3>1. bad \subseteq Nat
      OBVIOUS
    <3>2. \E m \in bad : \A j \in bad : m <= j
      <4> HIDE DEF bad
      <4> QED
        BY <2>2, <3>1, Least
    <3>3. PICK m \in bad : \A j \in bad : m <= j
      BY <3>2
    <3>4. m \in 0..27 /\ k < m /\ ~(t[k + 1] < t[m + 1]) /\ m - 1 \in 0..26
      BY <3>3
    <3>5. m - 1 \notin bad
      <4> HIDE DEF bad
      <4> QED
        BY <3>3, <3>4
    <3>6. t[(m - 1) + 1] < t[(m - 1) + 2] /\ (m - 1) + 1 = m /\ (m - 1) + 2 = m + 1
      BY <1>6, <3>4
    <3>7. CASE k = m - 1
      BY <3>4, <3>6, <3>7
    <3>8. CASE k # m - 1
      <4>1. t[k + 1] < t[(m - 1) + 1]
        BY <3>4, <3>5, <3>8
      <4>2. t[k + 1] \in Int /\ t[m] \in Int /\ t[m + 1] \in Int
        BY <1>4, <3>4
      <4> QED
        BY <3>4, <3>6, <4>1, <4>2
    <3> QED
      BY <3>7, <3>8
  <2> QED
    BY <2>1, <2>2
<1>8. ASSUME NEW k \in 0..28
      PROVE  t[k + 1] < t[30]
  <2>1. k = 28 \/ k = 27 \/ (k \in 0..30 /\ 27 \in 0..27 /\ k < 27)
    OBVIOUS
  <2>2. t[28] < t[30] /\ t[29] < t[30]
    BY <1>2, SMTT(20)
  <2>3. CASE k = 28 \/ k = 27
    BY <2>2, <2>3
  <2>4. CASE k \in 0..30 /\ 27 \in 0..27 /\ k < 27
    <3>1. t[k + 1] < t[27 + 1] /\ t[k + 1] \in Int /\ 27 + 1 = 28
      BY <1>5, <1>7, <2>4
    <3> QED
      BY <1>2, <3>1, SMTT(20)
  <2> QED
    BY <2>1, <2>3, <2>4
<1> QED
  BY <1>1, <1>5, <1>7, <1>8

\* A total that no earlier one reaches is where the walk for it stops.
LEMMA WalkReaches ==
    ASSUME NEW n \in 0..30, \A k \in 0..30 : k < n => Totals[k + 1] < Totals[n + 1]
    PROVE  LET g == Totals[n + 1] IN TotalGain(LnaIndex(Steps(g)), MixIndex(Steps(g))) = g
<1> DEFINE g == Totals[n + 1]
           enough == {k \in 0..30 : TotalGain(LnaIndex(k), MixIndex(k)) >= g}
<1>1. \A k \in 0..30 : TotalGain(LnaIndex(k), MixIndex(k)) = Totals[k + 1] /\ Totals[k + 1] \in Int
  BY TotalsAre, TotalsRise
<1>2. n \in enough /\ \A k \in enough : n <= k
  BY <1>1
<1>3. enough # {} /\ enough \subseteq Nat
  BY <1>2
<1>4. Steps(g) = Min(enough)
  BY <1>3 DEF Steps
<1>5. Min(enough) \in enough /\ \A k \in enough : Min(enough) <= k
  <2> HIDE DEF enough
  <2> QED
    BY <1>3, MinIsLeast
<1>6. Steps(g) = n
  <2>1. Min(enough) \in 0..30 /\ Min(enough) <= n /\ n <= Min(enough)
    BY <1>2, <1>5
  <2> HIDE DEF enough
  <2> QED
    BY <1>4, <2>1
<1> HIDE DEF g
<1> QED
  BY <1>1, <1>6 DEF g

LEMMA TableOfTotals ==
    /\ DOMAIN GainTable = 1..29
    /\ \A i \in 1..28 : GainTable[i] = Totals[i]
    /\ GainTable[29] = Totals[30]
<1>1. PICK t, u : t = Totals /\ u = GainTable
  OBVIOUS
<1>2. /\ t[1] = 0 /\ t[2] = 9 /\ t[3] = 14 /\ t[4] = 27 /\ t[5] = 37 /\ t[6] = 77 /\ t[7] = 87 /\ t[8] = 125
      /\ t[9] = 144 /\ t[10] = 157 /\ t[11] = 166 /\ t[12] = 197 /\ t[13] = 207 /\ t[14] = 229 /\ t[15] = 254 /\ t[16] = 280
      /\ t[17] = 297 /\ t[18] = 328 /\ t[19] = 338 /\ t[20] = 364 /\ t[21] = 372 /\ t[22] = 386 /\ t[23] = 402 /\ t[24] = 421
      /\ t[25] = 434 /\ t[26] = 439 /\ t[27] = 445 /\ t[28] = 480 /\ t[29] = 483 /\ t[30] = 496 /\ t[31] = 488
  BY <1>1, SMTT(20) DEF Totals
<1>3. /\ u[1] = 0 /\ u[2] = 9 /\ u[3] = 14 /\ u[4] = 27 /\ u[5] = 37 /\ u[6] = 77 /\ u[7] = 87 /\ u[8] = 125
      /\ u[9] = 144 /\ u[10] = 157 /\ u[11] = 166 /\ u[12] = 197 /\ u[13] = 207 /\ u[14] = 229 /\ u[15] = 254 /\ u[16] = 280
      /\ u[17] = 297 /\ u[18] = 328 /\ u[19] = 338 /\ u[20] = 364 /\ u[21] = 372 /\ u[22] = 386 /\ u[23] = 402 /\ u[24] = 421
      /\ u[25] = 434 /\ u[26] = 439 /\ u[27] = 445 /\ u[28] = 480 /\ u[29] = 496
  BY <1>1, SMTT(20) DEF GainTable
<1>4. DOMAIN u = 1..29
  <2>1. u \in Seq(Int) /\ Len(u) = 29
    BY <1>1, SMTT(20) DEF GainTable
  <2> QED
    BY <2>1
<1>5. \A i \in 1..28 : \/ i = 1 \/ i = 2 \/ i = 3 \/ i = 4 \/ i = 5 \/ i = 6 \/ i = 7 \/ i = 8
                         \/ i = 9 \/ i = 10 \/ i = 11 \/ i = 12 \/ i = 13 \/ i = 14 \/ i = 15 \/ i = 16
                         \/ i = 17 \/ i = 18 \/ i = 19 \/ i = 20 \/ i = 21 \/ i = 22 \/ i = 23 \/ i = 24
                         \/ i = 25 \/ i = 26 \/ i = 27 \/ i = 28
  OBVIOUS
<1>6. \A i \in 1..28 : u[i] = t[i]
  BY <1>2, <1>3, <1>5, SMTT(30)
<1>7. u[29] = t[30]
  BY <1>2, <1>3, SMTT(20)
<1> QED
  BY <1>1, <1>4, <1>6, <1>7

\* Every gain that rtlsdr_get_tuner_gains lists is one at which the walk of
\* r82xx_set_gain stops: asked for it, the amplifiers add up to exactly it.
THEOREM ListedGainsAreReached ==
    \A i \in DOMAIN GainTable :
        TotalGain(LnaIndex(Steps(GainTable[i])), MixIndex(Steps(GainTable[i]))) = GainTable[i]
<1> SUFFICES ASSUME NEW i \in 1..29
             PROVE  TotalGain(LnaIndex(Steps(GainTable[i])), MixIndex(Steps(GainTable[i]))) = GainTable[i]
  BY TableOfTotals
<1>1. CASE i \in 1..28
  <2>1. i - 1 \in 0..27 /\ i - 1 \in 0..30 /\ (i - 1) + 1 = i /\ GainTable[i] = Totals[i]
    BY <1>1, TableOfTotals
  <2>2. \A k \in 0..30 : k < i - 1 => Totals[k + 1] < Totals[(i - 1) + 1]
    BY <2>1, TotalsRise
  <2>3. LET g == Totals[(i - 1) + 1] IN TotalGain(LnaIndex(Steps(g)), MixIndex(Steps(g))) = g
    BY <2>1, <2>2, WalkReaches
  <2> QED
    BY <2>1, <2>3
<1>2. CASE i = 29
  <2>1. 29 \in 0..30 /\ 29 + 1 = 30 /\ GainTable[i] = Totals[30]
    BY <1>2, TableOfTotals
  <2>2. \A k \in 0..30 : k < 29 => Totals[k + 1] < Totals[29 + 1]
    BY <2>1, TotalsRise
  <2>3. LET g == Totals[29 + 1] IN TotalGain(LnaIndex(Steps(g)), MixIndex(Steps(g))) = g
    BY <2>1, <2>2, WalkReaches
  <2> QED
    BY <2>1, <2>3
<1> QED
  BY <1>1, <1>2

-----------------------------------------------------------------------------
(***************************************************************************)
(* The synthesiser: the divider that fits, the integer part, the bits of   *)
(* the modulator, and the frequency that they make.                        *)
(***************************************************************************)
\* The divider of f: twice to the n, by which f comes into the range of the oscillator.
Divides(f, n, d) ==
    /\ n \in 0..5 /\ d \in {2, 4, 8, 16, 32, 64} /\ 2 ^ (n + 1) = d
    /\ MixDiv(f) = d /\ DivNum(f) = n
    /\ f * d \in Nat /\ 1770000 <= f * d /\ f * d < 3540000

LEMMA PowersOfTwo ==
    /\ 2 ^ 1 = 2 /\ 2 ^ 2 = 4 /\ 2 ^ 3 = 8 /\ 2 ^ 4 = 16 /\ 2 ^ 5 = 32 /\ 2 ^ 6 = 64 /\ 2 ^ 7 = 128 /\ 2 ^ 8 = 256
    /\ 2 ^ 9 = 512 /\ 2 ^ 10 = 1024 /\ 2 ^ 11 = 2048 /\ 2 ^ 12 = 4096 /\ 2 ^ 13 = 8192 /\ 2 ^ 14 = 16384
    /\ 2 ^ 15 = 32768
BY SMTT(30)

LEMMA DividersAre == MixDivs = {2, 4, 8, 16, 32, 64}
<1>1. \A n \in 1..6 : n = 1 \/ n = 2 \/ n = 3 \/ n = 4 \/ n = 5 \/ n = 6
  OBVIOUS
<1>4. 2 ^ 1 = 2 /\ 2 ^ 2 = 4 /\ 2 ^ 3 = 8 /\ 2 ^ 4 = 16 /\ 2 ^ 5 = 32 /\ 2 ^ 6 = 64
  BY PowersOfTwo, SMTT(20)
<1>2. \A n \in 1..6 : 2 ^ n \in {2, 4, 8, 16, 32, 64}
  <2> TAKE n \in 1..6
  <2>1. PICK p : p = 2 ^ n
    OBVIOUS
  <2>2. p = 2 \/ p = 4 \/ p = 8 \/ p = 16 \/ p = 32 \/ p = 64
    BY <1>1, <1>4, <2>1, Zenon
  <2> QED
    BY <2>1, <2>2
<1>3. {2, 4, 8, 16, 32, 64} \subseteq MixDivs
  BY PowersOfTwo, SMTT(30) DEF MixDivs
<1> QED
  BY <1>2, <1>3, SMTT(30) DEF MixDivs

LEMMA DividerFits ==
    ASSUME NEW f \in Nat, PllRange(f)
    PROVE  \E n, d : Divides(f, n, d)
<1>1. VcoMin = 1770000 /\ VcoMax = 3540000
  BY SMTT(20) DEF VcoMin, VcoMax
<1>2. Fitting(f) = {d \in {2, 4, 8, 16, 32, 64} : f * d >= 1770000 /\ f * d < 3540000}
  BY <1>1, DividersAre, SMTT(20) DEF Fitting
<1>3. 64 * f >= 1770000 /\ 2 * f < 3540000
  BY <1>1, SMTT(20) DEF PllRange
<1>4. Fitting(f) # {}
  <2>1. \/ (f * 2 >= 1770000 /\ f * 2 < 3540000) \/ (f * 4 >= 1770000 /\ f * 4 < 3540000)
        \/ (f * 8 >= 1770000 /\ f * 8 < 3540000) \/ (f * 16 >= 1770000 /\ f * 16 < 3540000)
        \/ (f * 32 >= 1770000 /\ f * 32 < 3540000) \/ (f * 64 >= 1770000 /\ f * 64 < 3540000)
    BY <1>3, SMTT(20)
  <2> QED
    BY <1>2, <2>1, SMTT(20)
<1>5. PICK S : S = Fitting(f)
  OBVIOUS
<1>6. S \subseteq Nat
  BY <1>2, <1>5, SMTT(20)
<1>7. Min(S) \in S
  BY <1>4, <1>5, <1>6, MinIsLeast
<1>8. PICK d : d = MixDiv(f)
  OBVIOUS
<1>9. d \in {2, 4, 8, 16, 32, 64} /\ f * d >= 1770000 /\ f * d < 3540000
  <2>1. MixDiv(f) = Min(S)
    BY <1>4, <1>5 DEF MixDiv
  <2> QED
    BY <1>2, <1>5, <1>7, <1>8, <2>1, SMTT(20)
<1>10. \E n \in 0..5 : 2 ^ (n + 1) = d
  <2>1. /\ 2 ^ (0 + 1) = 2 /\ 2 ^ (1 + 1) = 4 /\ 2 ^ (2 + 1) = 8 /\ 2 ^ (3 + 1) = 16 /\ 2 ^ (4 + 1) = 32
        /\ 2 ^ (5 + 1) = 64
    BY SMTT(20)
  <2>2. d \in {2, 4, 8, 16, 32, 64}
    BY <1>9
  <2>3. 0 \in 0..5 /\ 1 \in 0..5 /\ 2 \in 0..5 /\ 3 \in 0..5 /\ 4 \in 0..5 /\ 5 \in 0..5
    OBVIOUS
  <2> QED
    BY <2>1, <2>2, <2>3
<1>11. DivNum(f) = CHOOSE n \in 0..5 : 2 ^ (n + 1) = d
  BY <1>4, <1>5, <1>8 DEF DivNum
<1>12. PICK n : n = DivNum(f)
  OBVIOUS
<1>13. n \in 0..5 /\ 2 ^ (n + 1) = d
  BY <1>10, <1>11, <1>12, Zenon
<1>14. f * d \in Nat
  BY <1>9, SMTT(20)
<1>15. Divides(f, n, d)
  BY <1>8, <1>9, <1>12, <1>13, <1>14, SMTT(20) DEF Divides
<1> QED
  BY <1>15

\* The two crystals in use, and what a step of the modulator counts.
Crystals == {28800, 16000}
StepOf(xtal) == IF xtal = 28800 THEN 225 ELSE 125

LEMMA NintFits ==
    ASSUME NEW f \in Nat, NEW xtal \in Crystals, PllRange(f), NEW n, NEW d, Divides(f, n, d)
    PROVE  /\ Nint(f, xtal) \in 13..110 /\ (xtal = 28800 => Nint(f, xtal) <= 63)
           /\ VcoFra(f, xtal) \in Nat /\ VcoFra(f, xtal) < 2 * xtal
           /\ f * d = 2 * xtal * Nint(f, xtal) + VcoFra(f, xtal)
<1>1. PICK v \in Nat : v = f * d
  BY DEF Divides
<1>2. 1770000 <= v /\ v < 3540000 /\ MixDiv(f) = d
  BY <1>1, SMTT(20) DEF Divides
<1>3. CASE xtal = 28800
  <2>1. Nint(f, xtal) = (v \div 57600) % 256
    BY <1>1, <1>2, <1>3, SMTT(20) DEF Nint
  <2>2. PICK q \in Int : q = v \div 57600
    BY SMTT(20)
  <2>3. q * 57600 <= v /\ v < (q + 1) * 57600
    BY <2>2, SMTT(20)
  <2>4. 30 <= q /\ q <= 61
    BY <1>2, <2>3, SMTT(20)
  <2>5. Nint(f, xtal) = q
    BY <2>1, <2>2, <2>4, SMTT(20)
  <2>6. VcoFra(f, xtal) = v - 57600 * q
    BY <1>1, <1>2, <1>3, <2>5, SMTT(20) DEF VcoFra
  <2> QED
    BY <1>1, <1>3, <2>3, <2>4, <2>5, <2>6, SMTT(20)
<1>4. CASE xtal = 16000
  <2>1. Nint(f, xtal) = (v \div 32000) % 256
    BY <1>1, <1>2, <1>4, SMTT(20) DEF Nint
  <2>2. PICK q \in Int : q = v \div 32000
    BY SMTT(20)
  <2>3. q * 32000 <= v /\ v < (q + 1) * 32000
    BY <2>2, SMTT(20)
  <2>4. 55 <= q /\ q <= 110
    BY <1>2, <2>3, SMTT(20)
  <2>5. Nint(f, xtal) = q
    BY <2>1, <2>2, <2>4, SMTT(20)
  <2>6. VcoFra(f, xtal) = v - 32000 * q
    BY <1>1, <1>2, <1>4, <2>5, SMTT(20) DEF VcoFra
  <2> QED
    BY <1>1, <1>4, <2>3, <2>4, <2>5, <2>6, SMTT(20)
<1> QED
  BY <1>3, <1>4, SMTT(20) DEF Crystals

\* Register 0x14 holds the integer part.
LEMMA NiSiHolds ==
    ASSUME NEW nint \in 13..110
    PROVE  NiSi(nint) \in 0..255 /\ 4 * (NiSi(nint) % 64) + (NiSi(nint) \div 64) + 13 = nint
<1>1. PICK ni \in Int : ni = (nint - 13) \div 4
  OBVIOUS
<1>2. ni \in 0..24 /\ nint - 4 * ni - 13 \in 0..3
  BY <1>1, SMTT(20)
<1>3. PICK si \in Int : si = nint - 4 * ni - 13
  BY <1>2
<1>4. si \in 0..3 /\ si % 256 = si
  BY <1>2, <1>3, SMTT(20)
<1>5. NiSi(nint) = (ni + 64 * si) % 256
  BY <1>1, <1>3, <1>4, SMTT(20) DEF NiSi
<1>6. NiSi(nint) = ni + 64 * si
  BY <1>2, <1>4, <1>5, SMTT(20)
<1>7. (ni + 64 * si) % 64 = ni /\ (ni + 64 * si) \div 64 = si
  BY <1>2, <1>4, SMTT(20)
<1> QED
  BY <1>2, <1>3, <1>4, <1>6, <1>7, SMTT(20)

\* One bit of the modulator.
Bit(xtal, k, s) ==
    IF s.left > 1 /\ s.left > Share(xtal, k)
    THEN [left |-> s.left - Share(xtal, k), sdm |-> s.sdm + 2 ^ (16 - k)]
    ELSE s
Remaining == [left : Nat, sdm : Nat]

\* What is left after each bit.
IsModulation(g, fra, xtal) ==
    /\ g \in [0..15 -> Remaining]
    /\ g[0] = [left |-> fra, sdm |-> 0]
    /\ \A k \in 1..15 : g[k] = Bit(xtal, k, g[k-1])
    /\ Modulator(fra, xtal) = g

Shares(xtal) ==
    IF xtal = 28800 THEN <<28800, 14400, 7200, 3600, 1800, 900, 450, 225, 112, 56, 28, 14, 7, 3, 1>>
    ELSE <<16000, 8000, 4000, 2000, 1000, 500, 250, 125, 62, 31, 15, 7, 3, 1, 0>>
Bits == <<32768, 16384, 8192, 4096, 2048, 1024, 512, 256, 128, 64, 32, 16, 8, 4, 2>>

LEMMA SharesAre ==
    ASSUME NEW xtal \in Crystals
    PROVE  \A k \in 1..15 : Share(xtal, k) = Shares(xtal)[k]
<1>1. CASE xtal = 28800
  <2>1. \A k \in 1..15 : Share(xtal, k) = 57600 \div (2 ^ k)
    BY <1>1, SMTT(20) DEF Share
  <2>2. PICK t : t = Shares(xtal)
    OBVIOUS
  <2>3. /\ t[1] = 28800 /\ t[2] = 14400 /\ t[3] = 7200 /\ t[4] = 3600 /\ t[5] = 1800 /\ t[6] = 900 /\ t[7] = 450
        /\ t[8] = 225 /\ t[9] = 112 /\ t[10] = 56 /\ t[11] = 28 /\ t[12] = 14 /\ t[13] = 7 /\ t[14] = 3 /\ t[15] = 1
    BY <1>1, <2>2, SMTT(20) DEF Shares
  <2>4. \A k \in 1..15 : Share(xtal, k) = t[k]
    BY <2>1, <2>3, FifteenBits, PowersOfTwo, SMTT(60)
  <2> QED
    BY <2>2, <2>4
<1>2. CASE xtal = 16000
  <2>1. \A k \in 1..15 : Share(xtal, k) = 32000 \div (2 ^ k)
    BY <1>2, SMTT(20) DEF Share
  <2>2. PICK t : t = Shares(xtal)
    OBVIOUS
  <2>3. /\ t[1] = 16000 /\ t[2] = 8000 /\ t[3] = 4000 /\ t[4] = 2000 /\ t[5] = 1000 /\ t[6] = 500 /\ t[7] = 250
        /\ t[8] = 125 /\ t[9] = 62 /\ t[10] = 31 /\ t[11] = 15 /\ t[12] = 7 /\ t[13] = 3 /\ t[14] = 1 /\ t[15] = 0
    BY <1>2, <2>2, SMTT(20) DEF Shares
  <2>4. \A k \in 1..15 : Share(xtal, k) = t[k]
    BY <2>1, <2>3, FifteenBits, PowersOfTwo, SMTT(60)
  <2> QED
    BY <2>2, <2>4
<1> QED
  BY <1>1, <1>2, SMTT(20) DEF Crystals

LEMMA BitsOfSdm == \A k \in 1..15 : 2 ^ (16 - k) = Bits[k]
<1>1. /\ 2 ^ (16 - 1) = 32768 /\ 2 ^ (16 - 2) = 16384 /\ 2 ^ (16 - 3) = 8192 /\ 2 ^ (16 - 4) = 4096
      /\ 2 ^ (16 - 5) = 2048 /\ 2 ^ (16 - 6) = 1024 /\ 2 ^ (16 - 7) = 512 /\ 2 ^ (16 - 8) = 256
      /\ 2 ^ (16 - 9) = 128 /\ 2 ^ (16 - 10) = 64 /\ 2 ^ (16 - 11) = 32 /\ 2 ^ (16 - 12) = 16
      /\ 2 ^ (16 - 13) = 8 /\ 2 ^ (16 - 14) = 4 /\ 2 ^ (16 - 15) = 2
  BY SMTT(30)
<1>2. PICK t : t = Bits
  OBVIOUS
<1>3. /\ t[1] = 32768 /\ t[2] = 16384 /\ t[3] = 8192 /\ t[4] = 4096 /\ t[5] = 2048 /\ t[6] = 1024 /\ t[7] = 512
      /\ t[8] = 256 /\ t[9] = 128 /\ t[10] = 64 /\ t[11] = 32 /\ t[12] = 16 /\ t[13] = 8 /\ t[14] = 4 /\ t[15] = 2
  BY <1>2, SMTT(20) DEF Bits
<1>5. /\ 2 ^ (16 - 1) = t[1] /\ 2 ^ (16 - 2) = t[2] /\ 2 ^ (16 - 3) = t[3] /\ 2 ^ (16 - 4) = t[4] /\ 2 ^ (16 - 5) = t[5]
      /\ 2 ^ (16 - 6) = t[6] /\ 2 ^ (16 - 7) = t[7] /\ 2 ^ (16 - 8) = t[8] /\ 2 ^ (16 - 9) = t[9] /\ 2 ^ (16 - 10) = t[10]
      /\ 2 ^ (16 - 11) = t[11] /\ 2 ^ (16 - 12) = t[12] /\ 2 ^ (16 - 13) = t[13] /\ 2 ^ (16 - 14) = t[14] /\ 2 ^ (16 - 15) = t[15]
  BY <1>1, <1>3, SMTT(30)
<1>4. \A k \in 1..15 : 2 ^ (16 - k) = t[k]
  <2> TAKE k \in 1..15
  <2>1. CASE k = 1
    BY <1>5, <2>1, Zenon
  <2>2. CASE k = 2
    BY <1>5, <2>2, Zenon
  <2>3. CASE k = 3
    BY <1>5, <2>3, Zenon
  <2>4. CASE k = 4
    BY <1>5, <2>4, Zenon
  <2>5. CASE k = 5
    BY <1>5, <2>5, Zenon
  <2>6. CASE k = 6
    BY <1>5, <2>6, Zenon
  <2>7. CASE k = 7
    BY <1>5, <2>7, Zenon
  <2>8. CASE k = 8
    BY <1>5, <2>8, Zenon
  <2>9. CASE k = 9
    BY <1>5, <2>9, Zenon
  <2>10. CASE k = 10
    BY <1>5, <2>10, Zenon
  <2>11. CASE k = 11
    BY <1>5, <2>11, Zenon
  <2>12. CASE k = 12
    BY <1>5, <2>12, Zenon
  <2>13. CASE k = 13
    BY <1>5, <2>13, Zenon
  <2>14. CASE k = 14
    BY <1>5, <2>14, Zenon
  <2>15. CASE k = 15
    BY <1>5, <2>15, Zenon
  <2> QED
    BY FifteenBits, <2>1, <2>2, <2>3, <2>4, <2>5, <2>6, <2>7, <2>8, <2>9, <2>10, <2>11, <2>12, <2>13, <2>14, <2>15
<1> QED
  BY <1>2, <1>4

LEMMA BitTyped ==
    ASSUME NEW xtal \in Crystals, NEW k \in 1..15, NEW s \in Remaining
    PROVE  Bit(xtal, k, s) \in Remaining
<1>1. Share(xtal, k) \in Nat
  <2>1. PICK t : t = Shares(xtal)
    OBVIOUS
  <2>2. t \in Seq(Nat) /\ Len(t) = 15
    <3>1. CASE xtal = 28800
      BY <2>1, <3>1, SMTT(20) DEF Shares
    <3>2. CASE xtal # 28800
      BY <2>1, <3>2, SMTT(20) DEF Shares
    <3> QED
      BY <3>1, <3>2
  <2>3. t[k] \in Nat
    <3>1. PICK V : V = Nat
      OBVIOUS
    <3>2. t \in Seq(V) /\ Len(t) = 15 /\ 15 \in Nat
      BY <2>2, <3>1
    <3>3. t \in [1..15 -> V]
      BY <3>2, AsFunction
    <3> QED
      BY <3>1, <3>3
  <2> QED
    BY <2>1, <2>3, SharesAre
<1>2. 2 ^ (16 - k) \in Nat
  <2>1. PICK t : t = Bits
    OBVIOUS
  <2>2. t \in Seq(Nat) /\ Len(t) = 15
    BY <2>1, SMTT(20) DEF Bits
  <2>3. t[k] \in Nat
    <3>1. PICK V : V = Nat
      OBVIOUS
    <3>2. t \in Seq(V) /\ Len(t) = 15 /\ 15 \in Nat
      BY <2>2, <3>1
    <3>3. t \in [1..15 -> V]
      BY <3>2, AsFunction
    <3> QED
      BY <3>1, <3>3
  <2> QED
    BY <2>1, <2>3, BitsOfSdm
<1>3. PICK share \in Nat, b \in Nat : share = Share(xtal, k) /\ b = 2 ^ (16 - k)
  BY <1>1, <1>2
<1>4. Bit(xtal, k, s) = IF s.left > 1 /\ s.left > share THEN [left |-> s.left - share, sdm |-> s.sdm + b] ELSE s
  BY <1>3 DEF Bit
<1> QED
  BY <1>4, SMTT(20) DEF Remaining

LEMMA Modulates ==
    ASSUME NEW fra \in Nat, NEW xtal \in Crystals
    PROVE  \E g : IsModulation(g, fra, xtal)
<1> DEFINE S     == Remaining
           first == [left |-> fra, sdm |-> 0]
           F     == [k \in 1..15 |-> [s \in S |-> Bit(xtal, k, s)]]
           made(g) == [k \in 0..15 |-> IF k = 0 THEN first ELSE Bit(xtal, k, g[k-1])]
           done  == CHOOSE g : g = made(g)
<1>0. first \in S
  BY DEF Remaining
<1>1. Modulator(fra, xtal) = done
  BY Zenon DEF Modulator, Bit
<1>2. \E g : IsChain(g, S, first, F, 15)
  <2>1. F \in [1..15 -> [S -> S]]
    BY BitTyped
  <2> HIDE DEF F, S, first
  <2> QED
    BY <1>0, <2>1, Chain
<1> HIDE DEF S, first
<1>3. \E g : g = made(g)
  <2>0. PICK g : IsChain(g, S, first, F, 15)
    BY <1>2
  <2>1. g \in [0..15 -> S] /\ g[0] = first
    BY <2>0 DEF IsChain
  <2>2. \A k \in 1..15 : g[k] = Bit(xtal, k, g[k-1])
    <3> TAKE k \in 1..15
    <3>1. g[k] = F[k][g[k-1]] /\ k - 1 \in 0..15 /\ g[k-1] \in S
      BY <2>0, <2>1 DEF IsChain
    <3> QED
      BY <3>1
  <2>3. \A k \in 0..15 : g[k] = made(g)[k]
    BY <2>1, <2>2
  <2> QED
    BY <2>1, <2>3
<1>4. done = made(done)
  BY <1>3, Zenon
<1> HIDE DEF done
<1>6. done[0] = first /\ \A k \in 1..15 : done[k] = Bit(xtal, k, done[k-1])
  <2>1. \A k \in 0..15 : done[k] = made(done)[k]
    BY <1>4
  <2> QED
    BY <2>1
<1>7. \A k \in 0..15 : done[k] \in S
  <2> DEFINE bad == {k \in 0..15 : done[k] \notin S}
  <2>1. CASE bad = {}
    BY <2>1
  <2>2. CASE bad # {}
    <3>1. \E m \in bad : \A k \in bad : m <= k
      <4>1. bad \subseteq Nat
        OBVIOUS
      <4> HIDE DEF bad
      <4> QED
        BY <2>2, <4>1, Least
    <3>2. PICK m \in bad : \A k \in bad : m <= k
      BY <3>1
    <3>3. m \in 1..15 /\ m - 1 \in 0..15 /\ done[m] \notin S
      BY <1>0, <1>6, <3>2
    <3>4. m - 1 \notin bad
      <4> HIDE DEF bad
      <4> QED
        BY <3>2, <3>3
    <3>5. done[m-1] \in S
      BY <3>3, <3>4
    <3> QED
      BY <1>6, <3>3, <3>5, BitTyped DEF S
  <2> QED
    BY <2>1, <2>2
<1>8. done \in [0..15 -> S]
  <2>1. done = [k \in 0..15 |-> done[k]]
    BY <1>4
  <2> QED
    BY <1>7, <2>1
<1> QED
  BY <1>1, <1>6, <1>8 DEF IsModulation, S, first

\* A step of the modulator, with what it takes and the bit it sets.
Follows(r, s, share, b) ==
    \/ r.left > 1 /\ r.left > share /\ s.left = r.left - share /\ s.sdm = r.sdm + b
    \/ ~(r.left > 1 /\ r.left > share) /\ s.left = r.left /\ s.sdm = r.sdm

\* What the bits set so far leave of fra: at most t and no less than -q, each bit
\* of sdm counting w / 256 kHz, and at most d of it owed to the divisions.  sdm is at
\* most m.
Owes(s, fra, w, d, q, t, m) ==
    /\ s \in Remaining /\ s.sdm <= m
    /\ 256 * fra - w * s.sdm <= 256 * s.left /\ 256 * s.left <= 256 * fra - w * s.sdm + d
    /\ -q <= 256 * fra - w * s.sdm /\ 256 * fra - w * s.sdm <= t

LEMMA Follow ==
    ASSUME NEW fra, NEW xtal \in Crystals, NEW g, IsModulation(g, fra, xtal)
    PROVE  \A k \in 1..15 : Follows(g[k-1], g[k], Shares(xtal)[k], Bits[k])
<1> TAKE k \in 1..15
<1>1. k - 1 \in 0..15
  OBVIOUS
<1>2. g[k-1] \in Remaining /\ g[k] = Bit(xtal, k, g[k-1])
  BY <1>1 DEF IsModulation
<1>3. PICK share, b : share = Shares(xtal)[k] /\ b = Bits[k]
  OBVIOUS
<1>4. Share(xtal, k) = share /\ 2 ^ (16 - k) = b
  BY <1>3, SharesAre, BitsOfSdm
<1>5. PICK r, s : r = g[k-1] /\ s = g[k]
  OBVIOUS
<1>6. s = IF r.left > 1 /\ r.left > share THEN [left |-> r.left - share, sdm |-> r.sdm + b] ELSE r
  BY <1>2, <1>4, <1>5 DEF Bit
<1>7. Follows(r, s, share, b)
  BY <1>6, SMTT(20) DEF Follows
<1> QED
  BY <1>3, <1>5, <1>7

LEMMA OwedAt28800 ==
    ASSUME NEW fra \in Nat, fra < 57600, NEW g, IsModulation(g, fra, 28800)
    PROVE  Owes(g[15], fra, 225, 574, 318, 450, 65534)
<1>1. PICK xtal : xtal = 28800
  OBVIOUS
<1>2. xtal \in Crystals /\ IsModulation(g, fra, xtal)
  BY <1>1 DEF Crystals
<1>3. PICK t, u : t = Shares(xtal) /\ u = Bits
  OBVIOUS
<1>4. /\ t[1] = 28800 /\ t[2] = 14400 /\ t[3] = 7200 /\ t[4] = 3600 /\ t[5] = 1800 /\ t[6] = 900 /\ t[7] = 450
      /\ t[8] = 225 /\ t[9] = 112 /\ t[10] = 56 /\ t[11] = 28 /\ t[12] = 14 /\ t[13] = 7 /\ t[14] = 3 /\ t[15] = 1
  BY <1>1, <1>3, SMTT(20) DEF Shares
<1>5. /\ u[1] = 32768 /\ u[2] = 16384 /\ u[3] = 8192 /\ u[4] = 4096 /\ u[5] = 2048 /\ u[6] = 1024 /\ u[7] = 512
      /\ u[8] = 256 /\ u[9] = 128 /\ u[10] = 64 /\ u[11] = 32 /\ u[12] = 16 /\ u[13] = 8 /\ u[14] = 4 /\ u[15] = 2
  BY <1>3, SMTT(20) DEF Bits
<1>6. g[0].left = fra /\ g[0].sdm = 0
  BY <1>2 DEF IsModulation
<1>7. \A k \in 0..15 : g[k] \in Remaining
  BY <1>2 DEF IsModulation
<1>8. \A k \in 1..15 : Follows(g[k-1], g[k], t[k], u[k])
  BY <1>2, <1>3, Follow
<1>10. Owes(g[0], fra, 225, 0, 0, 14745600, 0)
  BY <1>6, <1>7, SMTT(20) DEF Owes
<1>11. Owes(g[1], fra, 225, 0, 0, 7372800, 32768)
  <2>1. Follows(g[0], g[1], 28800, 32768)
    <3>1. 1 - 1 = 0 /\ 1 \in 1..15
      OBVIOUS
    <3>2. Follows(g[1-1], g[1], t[1], u[1])
      BY <1>8, <3>1
    <3> QED
      BY <1>4, <1>5, <3>1, <3>2, SMTT(20)
  <2>2. PICK r, s : r = g[0] /\ s = g[1]
    OBVIOUS
  <2>3. Owes(r, fra, 225, 0, 0, 14745600, 0) /\ Follows(r, s, 28800, 32768) /\ s \in Remaining
    BY <1>7, <1>10, <2>1, <2>2
  <2>4. Owes(s, fra, 225, 0, 0, 7372800, 32768)
    BY <2>3, SMTT(30) DEF Owes, Follows, Remaining
  <2> QED
    BY <2>2, <2>4
<1>12. Owes(g[2], fra, 225, 0, 0, 3686400, 49152)
  <2>1. Follows(g[1], g[2], 14400, 16384)
    <3>1. 2 - 1 = 1 /\ 2 \in 1..15
      OBVIOUS
    <3>2. Follows(g[2-1], g[2], t[2], u[2])
      BY <1>8, <3>1
    <3> QED
      BY <1>4, <1>5, <3>1, <3>2, SMTT(20)
  <2>2. PICK r, s : r = g[1] /\ s = g[2]
    OBVIOUS
  <2>3. Owes(r, fra, 225, 0, 0, 7372800, 32768) /\ Follows(r, s, 14400, 16384) /\ s \in Remaining
    BY <1>7, <1>11, <2>1, <2>2
  <2>4. Owes(s, fra, 225, 0, 0, 3686400, 49152)
    BY <2>3, SMTT(30) DEF Owes, Follows, Remaining
  <2> QED
    BY <2>2, <2>4
<1>13. Owes(g[3], fra, 225, 0, 0, 1843200, 57344)
  <2>1. Follows(g[2], g[3], 7200, 8192)
    <3>1. 3 - 1 = 2 /\ 3 \in 1..15
      OBVIOUS
    <3>2. Follows(g[3-1], g[3], t[3], u[3])
      BY <1>8, <3>1
    <3> QED
      BY <1>4, <1>5, <3>1, <3>2, SMTT(20)
  <2>2. PICK r, s : r = g[2] /\ s = g[3]
    OBVIOUS
  <2>3. Owes(r, fra, 225, 0, 0, 3686400, 49152) /\ Follows(r, s, 7200, 8192) /\ s \in Remaining
    BY <1>7, <1>12, <2>1, <2>2
  <2>4. Owes(s, fra, 225, 0, 0, 1843200, 57344)
    BY <2>3, SMTT(30) DEF Owes, Follows, Remaining
  <2> QED
    BY <2>2, <2>4
<1>14. Owes(g[4], fra, 225, 0, 0, 921600, 61440)
  <2>1. Follows(g[3], g[4], 3600, 4096)
    <3>1. 4 - 1 = 3 /\ 4 \in 1..15
      OBVIOUS
    <3>2. Follows(g[4-1], g[4], t[4], u[4])
      BY <1>8, <3>1
    <3> QED
      BY <1>4, <1>5, <3>1, <3>2, SMTT(20)
  <2>2. PICK r, s : r = g[3] /\ s = g[4]
    OBVIOUS
  <2>3. Owes(r, fra, 225, 0, 0, 1843200, 57344) /\ Follows(r, s, 3600, 4096) /\ s \in Remaining
    BY <1>7, <1>13, <2>1, <2>2
  <2>4. Owes(s, fra, 225, 0, 0, 921600, 61440)
    BY <2>3, SMTT(30) DEF Owes, Follows, Remaining
  <2> QED
    BY <2>2, <2>4
<1>15. Owes(g[5], fra, 225, 0, 0, 460800, 63488)
  <2>1. Follows(g[4], g[5], 1800, 2048)
    <3>1. 5 - 1 = 4 /\ 5 \in 1..15
      OBVIOUS
    <3>2. Follows(g[5-1], g[5], t[5], u[5])
      BY <1>8, <3>1
    <3> QED
      BY <1>4, <1>5, <3>1, <3>2, SMTT(20)
  <2>2. PICK r, s : r = g[4] /\ s = g[5]
    OBVIOUS
  <2>3. Owes(r, fra, 225, 0, 0, 921600, 61440) /\ Follows(r, s, 1800, 2048) /\ s \in Remaining
    BY <1>7, <1>14, <2>1, <2>2
  <2>4. Owes(s, fra, 225, 0, 0, 460800, 63488)
    BY <2>3, SMTT(30) DEF Owes, Follows, Remaining
  <2> QED
    BY <2>2, <2>4
<1>16. Owes(g[6], fra, 225, 0, 0, 230400, 64512)
  <2>1. Follows(g[5], g[6], 900, 1024)
    <3>1. 6 - 1 = 5 /\ 6 \in 1..15
      OBVIOUS
    <3>2. Follows(g[6-1], g[6], t[6], u[6])
      BY <1>8, <3>1
    <3> QED
      BY <1>4, <1>5, <3>1, <3>2, SMTT(20)
  <2>2. PICK r, s : r = g[5] /\ s = g[6]
    OBVIOUS
  <2>3. Owes(r, fra, 225, 0, 0, 460800, 63488) /\ Follows(r, s, 900, 1024) /\ s \in Remaining
    BY <1>7, <1>15, <2>1, <2>2
  <2>4. Owes(s, fra, 225, 0, 0, 230400, 64512)
    BY <2>3, SMTT(30) DEF Owes, Follows, Remaining
  <2> QED
    BY <2>2, <2>4
<1>17. Owes(g[7], fra, 225, 0, 0, 115200, 65024)
  <2>1. Follows(g[6], g[7], 450, 512)
    <3>1. 7 - 1 = 6 /\ 7 \in 1..15
      OBVIOUS
    <3>2. Follows(g[7-1], g[7], t[7], u[7])
      BY <1>8, <3>1
    <3> QED
      BY <1>4, <1>5, <3>1, <3>2, SMTT(20)
  <2>2. PICK r, s : r = g[6] /\ s = g[7]
    OBVIOUS
  <2>3. Owes(r, fra, 225, 0, 0, 230400, 64512) /\ Follows(r, s, 450, 512) /\ s \in Remaining
    BY <1>7, <1>16, <2>1, <2>2
  <2>4. Owes(s, fra, 225, 0, 0, 115200, 65024)
    BY <2>3, SMTT(30) DEF Owes, Follows, Remaining
  <2> QED
    BY <2>2, <2>4
<1>18. Owes(g[8], fra, 225, 0, 0, 57600, 65280)
  <2>1. Follows(g[7], g[8], 225, 256)
    <3>1. 8 - 1 = 7 /\ 8 \in 1..15
      OBVIOUS
    <3>2. Follows(g[8-1], g[8], t[8], u[8])
      BY <1>8, <3>1
    <3> QED
      BY <1>4, <1>5, <3>1, <3>2, SMTT(20)
  <2>2. PICK r, s : r = g[7] /\ s = g[8]
    OBVIOUS
  <2>3. Owes(r, fra, 225, 0, 0, 115200, 65024) /\ Follows(r, s, 225, 256) /\ s \in Remaining
    BY <1>7, <1>17, <2>1, <2>2
  <2>4. Owes(s, fra, 225, 0, 0, 57600, 65280)
    BY <2>3, SMTT(30) DEF Owes, Follows, Remaining
  <2> QED
    BY <2>2, <2>4
<1>19. Owes(g[9], fra, 225, 128, 0, 28800, 65408)
  <2>1. Follows(g[8], g[9], 112, 128)
    <3>1. 9 - 1 = 8 /\ 9 \in 1..15
      OBVIOUS
    <3>2. Follows(g[9-1], g[9], t[9], u[9])
      BY <1>8, <3>1
    <3> QED
      BY <1>4, <1>5, <3>1, <3>2, SMTT(20)
  <2>2. PICK r, s : r = g[8] /\ s = g[9]
    OBVIOUS
  <2>3. Owes(r, fra, 225, 0, 0, 57600, 65280) /\ Follows(r, s, 112, 128) /\ s \in Remaining
    BY <1>7, <1>18, <2>1, <2>2
  <2>4. Owes(s, fra, 225, 128, 0, 28800, 65408)
    BY <2>3, SMTT(30) DEF Owes, Follows, Remaining
  <2> QED
    BY <2>2, <2>4
<1>20. Owes(g[10], fra, 225, 192, 0, 14400, 65472)
  <2>1. Follows(g[9], g[10], 56, 64)
    <3>1. 10 - 1 = 9 /\ 10 \in 1..15
      OBVIOUS
    <3>2. Follows(g[10-1], g[10], t[10], u[10])
      BY <1>8, <3>1
    <3> QED
      BY <1>4, <1>5, <3>1, <3>2, SMTT(20)
  <2>2. PICK r, s : r = g[9] /\ s = g[10]
    OBVIOUS
  <2>3. Owes(r, fra, 225, 128, 0, 28800, 65408) /\ Follows(r, s, 56, 64) /\ s \in Remaining
    BY <1>7, <1>19, <2>1, <2>2
  <2>4. Owes(s, fra, 225, 192, 0, 14400, 65472)
    BY <2>3, SMTT(30) DEF Owes, Follows, Remaining
  <2> QED
    BY <2>2, <2>4
<1>21. Owes(g[11], fra, 225, 224, 0, 7200, 65504)
  <2>1. Follows(g[10], g[11], 28, 32)
    <3>1. 11 - 1 = 10 /\ 11 \in 1..15
      OBVIOUS
    <3>2. Follows(g[11-1], g[11], t[11], u[11])
      BY <1>8, <3>1
    <3> QED
      BY <1>4, <1>5, <3>1, <3>2, SMTT(20)
  <2>2. PICK r, s : r = g[10] /\ s = g[11]
    OBVIOUS
  <2>3. Owes(r, fra, 225, 192, 0, 14400, 65472) /\ Follows(r, s, 28, 32) /\ s \in Remaining
    BY <1>7, <1>20, <2>1, <2>2
  <2>4. Owes(s, fra, 225, 224, 0, 7200, 65504)
    BY <2>3, SMTT(30) DEF Owes, Follows, Remaining
  <2> QED
    BY <2>2, <2>4
<1>22. Owes(g[12], fra, 225, 240, 0, 3600, 65520)
  <2>1. Follows(g[11], g[12], 14, 16)
    <3>1. 12 - 1 = 11 /\ 12 \in 1..15
      OBVIOUS
    <3>2. Follows(g[12-1], g[12], t[12], u[12])
      BY <1>8, <3>1
    <3> QED
      BY <1>4, <1>5, <3>1, <3>2, SMTT(20)
  <2>2. PICK r, s : r = g[11] /\ s = g[12]
    OBVIOUS
  <2>3. Owes(r, fra, 225, 224, 0, 7200, 65504) /\ Follows(r, s, 14, 16) /\ s \in Remaining
    BY <1>7, <1>21, <2>1, <2>2
  <2>4. Owes(s, fra, 225, 240, 0, 3600, 65520)
    BY <2>3, SMTT(30) DEF Owes, Follows, Remaining
  <2> QED
    BY <2>2, <2>4
<1>23. Owes(g[13], fra, 225, 248, 0, 1800, 65528)
  <2>1. Follows(g[12], g[13], 7, 8)
    <3>1. 13 - 1 = 12 /\ 13 \in 1..15
      OBVIOUS
    <3>2. Follows(g[13-1], g[13], t[13], u[13])
      BY <1>8, <3>1
    <3> QED
      BY <1>4, <1>5, <3>1, <3>2, SMTT(20)
  <2>2. PICK r, s : r = g[12] /\ s = g[13]
    OBVIOUS
  <2>3. Owes(r, fra, 225, 240, 0, 3600, 65520) /\ Follows(r, s, 7, 8) /\ s \in Remaining
    BY <1>7, <1>22, <2>1, <2>2
  <2>4. Owes(s, fra, 225, 248, 0, 1800, 65528)
    BY <2>3, SMTT(30) DEF Owes, Follows, Remaining
  <2> QED
    BY <2>2, <2>4
<1>24. Owes(g[14], fra, 225, 380, 124, 900, 65532)
  <2>1. Follows(g[13], g[14], 3, 4)
    <3>1. 14 - 1 = 13 /\ 14 \in 1..15
      OBVIOUS
    <3>2. Follows(g[14-1], g[14], t[14], u[14])
      BY <1>8, <3>1
    <3> QED
      BY <1>4, <1>5, <3>1, <3>2, SMTT(20)
  <2>2. PICK r, s : r = g[13] /\ s = g[14]
    OBVIOUS
  <2>3. Owes(r, fra, 225, 248, 0, 1800, 65528) /\ Follows(r, s, 3, 4) /\ s \in Remaining
    BY <1>7, <1>23, <2>1, <2>2
  <2>4. Owes(s, fra, 225, 380, 124, 900, 65532)
    BY <2>3, SMTT(30) DEF Owes, Follows, Remaining
  <2> QED
    BY <2>2, <2>4
<1>25. Owes(g[15], fra, 225, 574, 318, 450, 65534)
  <2>1. Follows(g[14], g[15], 1, 2)
    <3>1. 15 - 1 = 14 /\ 15 \in 1..15
      OBVIOUS
    <3>2. Follows(g[15-1], g[15], t[15], u[15])
      BY <1>8, <3>1
    <3> QED
      BY <1>4, <1>5, <3>1, <3>2, SMTT(20)
  <2>2. PICK r, s : r = g[14] /\ s = g[15]
    OBVIOUS
  <2>3. Owes(r, fra, 225, 380, 124, 900, 65532) /\ Follows(r, s, 1, 2) /\ s \in Remaining
    BY <1>7, <1>24, <2>1, <2>2
  <2>4. Owes(s, fra, 225, 574, 318, 450, 65534)
    BY <2>3, SMTT(30) DEF Owes, Follows, Remaining
  <2> QED
    BY <2>2, <2>4
<1> QED
  BY <1>25

LEMMA OwedAt16000 ==
    ASSUME NEW fra \in Nat, fra < 32000, NEW g, IsModulation(g, fra, 16000)
    PROVE  Owes(g[15], fra, 125, 1286, 780, 256, 65534)
<1>1. PICK xtal : xtal = 16000
  OBVIOUS
<1>2. xtal \in Crystals /\ IsModulation(g, fra, xtal)
  BY <1>1 DEF Crystals
<1>3. PICK t, u : t = Shares(xtal) /\ u = Bits
  OBVIOUS
<1>4. /\ t[1] = 16000 /\ t[2] = 8000 /\ t[3] = 4000 /\ t[4] = 2000 /\ t[5] = 1000 /\ t[6] = 500 /\ t[7] = 250
      /\ t[8] = 125 /\ t[9] = 62 /\ t[10] = 31 /\ t[11] = 15 /\ t[12] = 7 /\ t[13] = 3 /\ t[14] = 1 /\ t[15] = 0
  BY <1>1, <1>3, SMTT(20) DEF Shares
<1>5. /\ u[1] = 32768 /\ u[2] = 16384 /\ u[3] = 8192 /\ u[4] = 4096 /\ u[5] = 2048 /\ u[6] = 1024 /\ u[7] = 512
      /\ u[8] = 256 /\ u[9] = 128 /\ u[10] = 64 /\ u[11] = 32 /\ u[12] = 16 /\ u[13] = 8 /\ u[14] = 4 /\ u[15] = 2
  BY <1>3, SMTT(20) DEF Bits
<1>6. g[0].left = fra /\ g[0].sdm = 0
  BY <1>2 DEF IsModulation
<1>7. \A k \in 0..15 : g[k] \in Remaining
  BY <1>2 DEF IsModulation
<1>8. \A k \in 1..15 : Follows(g[k-1], g[k], t[k], u[k])
  BY <1>2, <1>3, Follow
<1>10. Owes(g[0], fra, 125, 0, 0, 8192000, 0)
  BY <1>6, <1>7, SMTT(20) DEF Owes
<1>11. Owes(g[1], fra, 125, 0, 0, 4096000, 32768)
  <2>1. Follows(g[0], g[1], 16000, 32768)
    <3>1. 1 - 1 = 0 /\ 1 \in 1..15
      OBVIOUS
    <3>2. Follows(g[1-1], g[1], t[1], u[1])
      BY <1>8, <3>1
    <3> QED
      BY <1>4, <1>5, <3>1, <3>2, SMTT(20)
  <2>2. PICK r, s : r = g[0] /\ s = g[1]
    OBVIOUS
  <2>3. Owes(r, fra, 125, 0, 0, 8192000, 0) /\ Follows(r, s, 16000, 32768) /\ s \in Remaining
    BY <1>7, <1>10, <2>1, <2>2
  <2>4. Owes(s, fra, 125, 0, 0, 4096000, 32768)
    BY <2>3, SMTT(30) DEF Owes, Follows, Remaining
  <2> QED
    BY <2>2, <2>4
<1>12. Owes(g[2], fra, 125, 0, 0, 2048000, 49152)
  <2>1. Follows(g[1], g[2], 8000, 16384)
    <3>1. 2 - 1 = 1 /\ 2 \in 1..15
      OBVIOUS
    <3>2. Follows(g[2-1], g[2], t[2], u[2])
      BY <1>8, <3>1
    <3> QED
      BY <1>4, <1>5, <3>1, <3>2, SMTT(20)
  <2>2. PICK r, s : r = g[1] /\ s = g[2]
    OBVIOUS
  <2>3. Owes(r, fra, 125, 0, 0, 4096000, 32768) /\ Follows(r, s, 8000, 16384) /\ s \in Remaining
    BY <1>7, <1>11, <2>1, <2>2
  <2>4. Owes(s, fra, 125, 0, 0, 2048000, 49152)
    BY <2>3, SMTT(30) DEF Owes, Follows, Remaining
  <2> QED
    BY <2>2, <2>4
<1>13. Owes(g[3], fra, 125, 0, 0, 1024000, 57344)
  <2>1. Follows(g[2], g[3], 4000, 8192)
    <3>1. 3 - 1 = 2 /\ 3 \in 1..15
      OBVIOUS
    <3>2. Follows(g[3-1], g[3], t[3], u[3])
      BY <1>8, <3>1
    <3> QED
      BY <1>4, <1>5, <3>1, <3>2, SMTT(20)
  <2>2. PICK r, s : r = g[2] /\ s = g[3]
    OBVIOUS
  <2>3. Owes(r, fra, 125, 0, 0, 2048000, 49152) /\ Follows(r, s, 4000, 8192) /\ s \in Remaining
    BY <1>7, <1>12, <2>1, <2>2
  <2>4. Owes(s, fra, 125, 0, 0, 1024000, 57344)
    BY <2>3, SMTT(30) DEF Owes, Follows, Remaining
  <2> QED
    BY <2>2, <2>4
<1>14. Owes(g[4], fra, 125, 0, 0, 512000, 61440)
  <2>1. Follows(g[3], g[4], 2000, 4096)
    <3>1. 4 - 1 = 3 /\ 4 \in 1..15
      OBVIOUS
    <3>2. Follows(g[4-1], g[4], t[4], u[4])
      BY <1>8, <3>1
    <3> QED
      BY <1>4, <1>5, <3>1, <3>2, SMTT(20)
  <2>2. PICK r, s : r = g[3] /\ s = g[4]
    OBVIOUS
  <2>3. Owes(r, fra, 125, 0, 0, 1024000, 57344) /\ Follows(r, s, 2000, 4096) /\ s \in Remaining
    BY <1>7, <1>13, <2>1, <2>2
  <2>4. Owes(s, fra, 125, 0, 0, 512000, 61440)
    BY <2>3, SMTT(30) DEF Owes, Follows, Remaining
  <2> QED
    BY <2>2, <2>4
<1>15. Owes(g[5], fra, 125, 0, 0, 256000, 63488)
  <2>1. Follows(g[4], g[5], 1000, 2048)
    <3>1. 5 - 1 = 4 /\ 5 \in 1..15
      OBVIOUS
    <3>2. Follows(g[5-1], g[5], t[5], u[5])
      BY <1>8, <3>1
    <3> QED
      BY <1>4, <1>5, <3>1, <3>2, SMTT(20)
  <2>2. PICK r, s : r = g[4] /\ s = g[5]
    OBVIOUS
  <2>3. Owes(r, fra, 125, 0, 0, 512000, 61440) /\ Follows(r, s, 1000, 2048) /\ s \in Remaining
    BY <1>7, <1>14, <2>1, <2>2
  <2>4. Owes(s, fra, 125, 0, 0, 256000, 63488)
    BY <2>3, SMTT(30) DEF Owes, Follows, Remaining
  <2> QED
    BY <2>2, <2>4
<1>16. Owes(g[6], fra, 125, 0, 0, 128000, 64512)
  <2>1. Follows(g[5], g[6], 500, 1024)
    <3>1. 6 - 1 = 5 /\ 6 \in 1..15
      OBVIOUS
    <3>2. Follows(g[6-1], g[6], t[6], u[6])
      BY <1>8, <3>1
    <3> QED
      BY <1>4, <1>5, <3>1, <3>2, SMTT(20)
  <2>2. PICK r, s : r = g[5] /\ s = g[6]
    OBVIOUS
  <2>3. Owes(r, fra, 125, 0, 0, 256000, 63488) /\ Follows(r, s, 500, 1024) /\ s \in Remaining
    BY <1>7, <1>15, <2>1, <2>2
  <2>4. Owes(s, fra, 125, 0, 0, 128000, 64512)
    BY <2>3, SMTT(30) DEF Owes, Follows, Remaining
  <2> QED
    BY <2>2, <2>4
<1>17. Owes(g[7], fra, 125, 0, 0, 64000, 65024)
  <2>1. Follows(g[6], g[7], 250, 512)
    <3>1. 7 - 1 = 6 /\ 7 \in 1..15
      OBVIOUS
    <3>2. Follows(g[7-1], g[7], t[7], u[7])
      BY <1>8, <3>1
    <3> QED
      BY <1>4, <1>5, <3>1, <3>2, SMTT(20)
  <2>2. PICK r, s : r = g[6] /\ s = g[7]
    OBVIOUS
  <2>3. Owes(r, fra, 125, 0, 0, 128000, 64512) /\ Follows(r, s, 250, 512) /\ s \in Remaining
    BY <1>7, <1>16, <2>1, <2>2
  <2>4. Owes(s, fra, 125, 0, 0, 64000, 65024)
    BY <2>3, SMTT(30) DEF Owes, Follows, Remaining
  <2> QED
    BY <2>2, <2>4
<1>18. Owes(g[8], fra, 125, 0, 0, 32000, 65280)
  <2>1. Follows(g[7], g[8], 125, 256)
    <3>1. 8 - 1 = 7 /\ 8 \in 1..15
      OBVIOUS
    <3>2. Follows(g[8-1], g[8], t[8], u[8])
      BY <1>8, <3>1
    <3> QED
      BY <1>4, <1>5, <3>1, <3>2, SMTT(20)
  <2>2. PICK r, s : r = g[7] /\ s = g[8]
    OBVIOUS
  <2>3. Owes(r, fra, 125, 0, 0, 64000, 65024) /\ Follows(r, s, 125, 256) /\ s \in Remaining
    BY <1>7, <1>17, <2>1, <2>2
  <2>4. Owes(s, fra, 125, 0, 0, 32000, 65280)
    BY <2>3, SMTT(30) DEF Owes, Follows, Remaining
  <2> QED
    BY <2>2, <2>4
<1>19. Owes(g[9], fra, 125, 128, 0, 16000, 65408)
  <2>1. Follows(g[8], g[9], 62, 128)
    <3>1. 9 - 1 = 8 /\ 9 \in 1..15
      OBVIOUS
    <3>2. Follows(g[9-1], g[9], t[9], u[9])
      BY <1>8, <3>1
    <3> QED
      BY <1>4, <1>5, <3>1, <3>2, SMTT(20)
  <2>2. PICK r, s : r = g[8] /\ s = g[9]
    OBVIOUS
  <2>3. Owes(r, fra, 125, 0, 0, 32000, 65280) /\ Follows(r, s, 62, 128) /\ s \in Remaining
    BY <1>7, <1>18, <2>1, <2>2
  <2>4. Owes(s, fra, 125, 128, 0, 16000, 65408)
    BY <2>3, SMTT(30) DEF Owes, Follows, Remaining
  <2> QED
    BY <2>2, <2>4
<1>20. Owes(g[10], fra, 125, 192, 0, 8000, 65472)
  <2>1. Follows(g[9], g[10], 31, 64)
    <3>1. 10 - 1 = 9 /\ 10 \in 1..15
      OBVIOUS
    <3>2. Follows(g[10-1], g[10], t[10], u[10])
      BY <1>8, <3>1
    <3> QED
      BY <1>4, <1>5, <3>1, <3>2, SMTT(20)
  <2>2. PICK r, s : r = g[9] /\ s = g[10]
    OBVIOUS
  <2>3. Owes(r, fra, 125, 128, 0, 16000, 65408) /\ Follows(r, s, 31, 64) /\ s \in Remaining
    BY <1>7, <1>19, <2>1, <2>2
  <2>4. Owes(s, fra, 125, 192, 0, 8000, 65472)
    BY <2>3, SMTT(30) DEF Owes, Follows, Remaining
  <2> QED
    BY <2>2, <2>4
<1>21. Owes(g[11], fra, 125, 352, 96, 4000, 65504)
  <2>1. Follows(g[10], g[11], 15, 32)
    <3>1. 11 - 1 = 10 /\ 11 \in 1..15
      OBVIOUS
    <3>2. Follows(g[11-1], g[11], t[11], u[11])
      BY <1>8, <3>1
    <3> QED
      BY <1>4, <1>5, <3>1, <3>2, SMTT(20)
  <2>2. PICK r, s : r = g[10] /\ s = g[11]
    OBVIOUS
  <2>3. Owes(r, fra, 125, 192, 0, 8000, 65472) /\ Follows(r, s, 15, 32) /\ s \in Remaining
    BY <1>7, <1>20, <2>1, <2>2
  <2>4. Owes(s, fra, 125, 352, 96, 4000, 65504)
    BY <2>3, SMTT(30) DEF Owes, Follows, Remaining
  <2> QED
    BY <2>2, <2>4
<1>22. Owes(g[12], fra, 125, 560, 304, 2000, 65520)
  <2>1. Follows(g[11], g[12], 7, 16)
    <3>1. 12 - 1 = 11 /\ 12 \in 1..15
      OBVIOUS
    <3>2. Follows(g[12-1], g[12], t[12], u[12])
      BY <1>8, <3>1
    <3> QED
      BY <1>4, <1>5, <3>1, <3>2, SMTT(20)
  <2>2. PICK r, s : r = g[11] /\ s = g[12]
    OBVIOUS
  <2>3. Owes(r, fra, 125, 352, 96, 4000, 65504) /\ Follows(r, s, 7, 16) /\ s \in Remaining
    BY <1>7, <1>21, <2>1, <2>2
  <2>4. Owes(s, fra, 125, 560, 304, 2000, 65520)
    BY <2>3, SMTT(30) DEF Owes, Follows, Remaining
  <2> QED
    BY <2>2, <2>4
<1>23. Owes(g[13], fra, 125, 792, 536, 1000, 65528)
  <2>1. Follows(g[12], g[13], 3, 8)
    <3>1. 13 - 1 = 12 /\ 13 \in 1..15
      OBVIOUS
    <3>2. Follows(g[13-1], g[13], t[13], u[13])
      BY <1>8, <3>1
    <3> QED
      BY <1>4, <1>5, <3>1, <3>2, SMTT(20)
  <2>2. PICK r, s : r = g[12] /\ s = g[13]
    OBVIOUS
  <2>3. Owes(r, fra, 125, 560, 304, 2000, 65520) /\ Follows(r, s, 3, 8) /\ s \in Remaining
    BY <1>7, <1>22, <2>1, <2>2
  <2>4. Owes(s, fra, 125, 792, 536, 1000, 65528)
    BY <2>3, SMTT(30) DEF Owes, Follows, Remaining
  <2> QED
    BY <2>2, <2>4
<1>24. Owes(g[14], fra, 125, 1036, 780, 500, 65532)
  <2>1. Follows(g[13], g[14], 1, 4)
    <3>1. 14 - 1 = 13 /\ 14 \in 1..15
      OBVIOUS
    <3>2. Follows(g[14-1], g[14], t[14], u[14])
      BY <1>8, <3>1
    <3> QED
      BY <1>4, <1>5, <3>1, <3>2, SMTT(20)
  <2>2. PICK r, s : r = g[13] /\ s = g[14]
    OBVIOUS
  <2>3. Owes(r, fra, 125, 792, 536, 1000, 65528) /\ Follows(r, s, 1, 4) /\ s \in Remaining
    BY <1>7, <1>23, <2>1, <2>2
  <2>4. Owes(s, fra, 125, 1036, 780, 500, 65532)
    BY <2>3, SMTT(30) DEF Owes, Follows, Remaining
  <2> QED
    BY <2>2, <2>4
<1>25. Owes(g[15], fra, 125, 1286, 780, 256, 65534)
  <2>1. Follows(g[14], g[15], 0, 2)
    <3>1. 15 - 1 = 14 /\ 15 \in 1..15
      OBVIOUS
    <3>2. Follows(g[15-1], g[15], t[15], u[15])
      BY <1>8, <3>1
    <3> QED
      BY <1>4, <1>5, <3>1, <3>2, SMTT(20)
  <2>2. PICK r, s : r = g[14] /\ s = g[15]
    OBVIOUS
  <2>3. Owes(r, fra, 125, 1036, 780, 500, 65532) /\ Follows(r, s, 0, 2) /\ s \in Remaining
    BY <1>7, <1>24, <2>1, <2>2
  <2>4. Owes(s, fra, 125, 1286, 780, 256, 65534)
    BY <2>3, SMTT(30) DEF Owes, Follows, Remaining
  <2> QED
    BY <2>2, <2>4
<1> QED
  BY <1>25

LEMMA Modulated ==
    ASSUME NEW xtal \in Crystals, NEW fra \in Nat, fra < 2 * xtal
    PROVE  /\ ~DividesByZero(fra, xtal)
           /\ Sdm(fra, xtal) \in Nat /\ Sdm(fra, xtal) <= 65534
           /\ -2 <= (StepOf(xtal) * Sdm(fra, xtal)) \div 256 - fra
           /\ (StepOf(xtal) * Sdm(fra, xtal)) \div 256 - fra <= 3
<1>1. PICK g : IsModulation(g, fra, xtal)
  BY Modulates
<1>2. ~DividesByZero(fra, xtal)
  <2>1. Share(xtal, 15) <= 1
    <3>1. PICK t : t = Shares(xtal)
      OBVIOUS
    <3>2. t[15] <= 1
      BY <3>1, SMTT(20) DEF Shares
    <3>3. 15 \in 1..15
      OBVIOUS
    <3> QED
      BY <3>1, <3>2, <3>3, SharesAre
  <2>2. g[14].left \in Nat
    BY <1>1, SMTT(20) DEF IsModulation, Remaining
  <2>3. DividesByZero(fra, xtal) = (g[14].left > 1 /\ g[14].left <= Share(xtal, 15))
    BY <1>1 DEF DividesByZero, IsModulation
  <2>4. PICK l, share : l = g[14].left /\ share = Share(xtal, 15)
    OBVIOUS
  <2>5. share \in Int
    BY <2>4, SMTT(20) DEF Share, Crystals
  <2>6. ~(l > 1 /\ l <= share)
    BY <2>1, <2>2, <2>4, <2>5, SMTT(20)
  <2> QED
    BY <2>3, <2>4, <2>6, Zenon
<1>3. PICK s : s = g[15]
  OBVIOUS
<1>4. Sdm(fra, xtal) = s.sdm
  BY <1>1, <1>3 DEF Sdm, IsModulation
<1>5. CASE xtal = 28800
  <2>1. Owes(s, fra, 225, 574, 318, 450, 65534)
    BY <1>1, <1>3, <1>5, OwedAt28800
  <2>2. PICK m \in Nat : m = s.sdm
    BY <2>1 DEF Owes, Remaining
  <2>3. -318 <= 256 * fra - 225 * m /\ 256 * fra - 225 * m <= 450 /\ m <= 65534
    BY <2>1, <2>2, SMTT(20) DEF Owes
  <2>4. -2 <= (225 * m) \div 256 - fra /\ (225 * m) \div 256 - fra <= 3
    BY <2>3, SMTT(20)
  <2> QED
    BY <1>2, <1>4, <1>5, <2>2, <2>3, <2>4, SMTT(20) DEF StepOf
<1>6. CASE xtal = 16000
  <2>1. Owes(s, fra, 125, 1286, 780, 256, 65534)
    BY <1>1, <1>3, <1>6, OwedAt16000
  <2>2. PICK m \in Nat : m = s.sdm
    BY <2>1 DEF Owes, Remaining
  <2>3. -780 <= 256 * fra - 125 * m /\ 256 * fra - 125 * m <= 256 /\ m <= 65534
    BY <2>1, <2>2, SMTT(20) DEF Owes
  <2>4. -2 <= (125 * m) \div 256 - fra /\ (125 * m) \div 256 - fra <= 3
    BY <2>3, SMTT(20)
  <2> QED
    BY <1>2, <1>4, <1>6, <2>2, <2>3, <2>4, SMTT(20) DEF StepOf
<1> QED
  BY <1>5, <1>6 DEF Crystals

LEMMA Divided ==
    ASSUME NEW f \in Nat, NEW v \in Int, NEW d \in {2, 4, 8, 16, 32, 64}, -2 <= v - f * d, v - f * d <= 3
    PROVE  v \div d - f \in -1..1
<1>1. CASE d = 2
  BY <1>1, SMTT(20)
<1>2. CASE d = 4
  BY <1>2, SMTT(20)
<1>3. CASE d = 8
  BY <1>3, SMTT(20)
<1>4. CASE d = 16
  BY <1>4, SMTT(20)
<1>5. CASE d = 32
  BY <1>5, SMTT(20)
<1>6. CASE d = 64
  BY <1>6, SMTT(20)
<1> QED
  BY <1>1, <1>2, <1>3, <1>4, <1>5, <1>6

\* r82xx_set_pll, for every frequency that some divider brings into the range of the
\* oscillator and with either crystal: nint is within the chip's limit, the modulator
\* divides nothing by zero, and what the chip makes of the divider, the integer part
\* and the 16 bits of the fraction is within 1 kHz of the frequency asked for.
THEOREM PllIsAccurate ==
    \A f \in Nat, xtal \in Crystals : PllRange(f) =>
        /\ ValidNint(f, xtal, IF xtal = 28800 THEN 2 ELSE 1)
        /\ ~DividesByZero(VcoFra(f, xtal), xtal)
        /\ Synthesised(DivField(f, 0), NiSi(Nint(f, xtal)), Sdm(VcoFra(f, xtal), xtal), xtal) - f \in -1..1
<1> SUFFICES ASSUME NEW f \in Nat, NEW xtal \in Crystals, PllRange(f)
             PROVE  /\ ValidNint(f, xtal, IF xtal = 28800 THEN 2 ELSE 1)
                    /\ ~DividesByZero(VcoFra(f, xtal), xtal)
                    /\ Synthesised(DivField(f, 0), NiSi(Nint(f, xtal)), Sdm(VcoFra(f, xtal), xtal), xtal) - f \in -1..1
  OBVIOUS
<1>1. PICK n, d : Divides(f, n, d)
  BY DividerFits
<1>2. PICK nint, fra : nint = Nint(f, xtal) /\ fra = VcoFra(f, xtal)
  OBVIOUS
<1>3. /\ nint \in 13..110 /\ (xtal = 28800 => nint <= 63)
      /\ fra \in Nat /\ fra < 2 * xtal /\ f * d = 2 * xtal * nint + fra
  BY <1>1, <1>2, NintFits
<1>4. ValidNint(f, xtal, IF xtal = 28800 THEN 2 ELSE 1)
  <2>1. CASE xtal = 28800
    BY <1>2, <1>3, <2>1, SMTT(20) DEF ValidNint
  <2>2. CASE xtal # 28800
    BY <1>2, <1>3, <2>2, SMTT(20) DEF ValidNint
  <2> QED
    BY <2>1, <2>2
<1>5. PICK m : m = Sdm(fra, xtal)
  OBVIOUS
<1>6. /\ ~DividesByZero(fra, xtal) /\ m \in Nat
      /\ -2 <= (StepOf(xtal) * m) \div 256 - fra /\ (StepOf(xtal) * m) \div 256 - fra <= 3
  BY <1>3, <1>5, Modulated
<1>7. PICK k \in Int : k = (StepOf(xtal) * m) \div 256
  BY <1>6, SMTT(20) DEF StepOf
<1>8. DivField(f, 0) = n
  BY <1>1, SMTT(20) DEF DivField, Divides
<1>9. 4 * (NiSi(nint) % 64) + (NiSi(nint) \div 64) + 13 = nint
  <2>1. nint \in 13..110
    BY <1>3
  <2> QED
    BY <2>1, NiSiHolds
<1>10. Synthesised(n, NiSi(nint), m, xtal) = (2 * xtal * nint + k) \div d
  <2>1. (2 * xtal) \div 256 = StepOf(xtal)
    BY SMTT(20) DEF StepOf, Crystals
  <2>2. PICK ns : ns = NiSi(nint)
    OBVIOUS
  <2>3. 4 * (ns % 64) + ns \div 64 + 13 = nint
    BY <1>9, <2>2
  <2>4. 2 ^ (n + 1) = d
    BY <1>1 DEF Divides
  <2> QED
    BY <1>7, <2>1, <2>2, <2>3, <2>4 DEF Synthesised
<1>11. PICK v \in Int : v = 2 * xtal * nint + k
  BY <1>3, <1>7, SMTT(20) DEF Crystals
<1>12. d \in {2, 4, 8, 16, 32, 64}
  BY <1>1 DEF Divides
<1>13. -2 <= v - f * d /\ v - f * d <= 3
  <2>1. PICK w \in Int : w = 2 * xtal * nint
    BY <1>3, SMTT(20) DEF Crystals
  <2>2. PICK u : u = f * d
    OBVIOUS
  <2> QED
    BY <1>3, <1>6, <1>7, <1>11, <2>1, <2>2, SMTT(20)
<1>14. v \div d - f \in -1..1
  BY <1>12, <1>13, Divided
<1> QED
  BY <1>2, <1>4, <1>5, <1>6, <1>8, <1>10, <1>11, <1>14
==============================================================================
