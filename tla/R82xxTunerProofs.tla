--------------------------- MODULE R82xxTunerProofs --------------------------
(***************************************************************************)
(* Theorems about R82xxTuner, for any chips, arguments, answers of the chip*)
(* and numbers of calls and of failing transfers.                          *)
(***************************************************************************)
EXTENDS R82xxTuner, R82xxTableProofs

-----------------------------------------------------------------------------
(***************************************************************************)
(* Which registers a program writes with which masks, whatever the values. *)
(***************************************************************************)
Uses(x, masks)    == <<x[1], x[3]>> \in masks
Within(p, masks)  == \E S : p \in Seq(S) /\ \A x \in S : Uses(x, masks)
IsProgram(p)      == \E S : p \in Seq(S)

LEMMA UsesIs == \A r, v, m, masks : <<r, m>> \in masks => Uses(<<r, v, m>>, masks)
BY DEF Uses

LEMMA IsFinite ==
    ASSUME NEW p, NEW masks, Within(p, masks)
    PROVE  /\ IsProgram(p) /\ Len(p) \in Nat
           /\ \A j \in 1..Len(p) : Uses(p[j], masks)
<1>1. PICK S : p \in Seq(S) /\ \A x \in S : Uses(x, masks)
  BY DEF Within
<1>2. Len(p) \in Nat /\ \A j \in 1..Len(p) : p[j] \in S
  BY <1>1
<1> QED
  BY <1>1, <1>2 DEF IsProgram

LEMMA Wider ==
    ASSUME NEW p, NEW masks, Within(p, masks), NEW more, masks \subseteq more
    PROVE  Within(p, more)
<1>1. PICK S : p \in Seq(S) /\ \A x \in S : Uses(x, masks)
  BY DEF Within
<1>2. \A x \in S : Uses(x, more)
  BY <1>1 DEF Uses
<1> QED
  BY <1>1, <1>2 DEF Within

\* One after the other.
LEMMA Concatenation ==
    ASSUME NEW masks, NEW p, Within(p, masks), NEW q, Within(q, masks)
    PROVE  Within(p \o q, masks)
<1>1. PICK S : p \in Seq(S) /\ \A x \in S : Uses(x, masks)
  BY DEF Within
<1>2. PICK T : q \in Seq(T) /\ \A x \in T : Uses(x, masks)
  BY DEF Within
<1>3. p \in Seq(S \cup T) /\ q \in Seq(S \cup T)
  BY <1>1, <1>2
<1>4. p \o q \in Seq(S \cup T)
  BY <1>3
<1>5. \A x \in S \cup T : Uses(x, masks)
  BY <1>1, <1>2
<1> QED
  BY <1>4, <1>5 DEF Within

\* The programs that are written out.
LEMMA Listed0 == \A masks : Within(<<>>, masks)
<1> DEFINE S == {}
<1>1. <<>> \in Seq(S) /\ \A masks : \A x \in S : Uses(x, masks)
  OBVIOUS
<1> HIDE DEF S
<1> QED
  BY <1>1 DEF Within

LEMMA Listed1 ==
    ASSUME NEW masks, NEW a, Uses(a, masks)
    PROVE  Within(<<a>>, masks)
<1> DEFINE S == {a}
<1>1. <<a>> \in Seq(S) /\ \A x \in S : Uses(x, masks)
  OBVIOUS
<1> HIDE DEF S
<1> QED  BY <1>1 DEF Within

LEMMA Listed2 ==
    ASSUME NEW masks, NEW a, Uses(a, masks), NEW b, Uses(b, masks)
    PROVE  Within(<<a, b>>, masks)
<1> DEFINE S == {a, b}
<1>1. <<a, b>> \in Seq(S) /\ \A x \in S : Uses(x, masks)
  OBVIOUS
<1> HIDE DEF S
<1> QED  BY <1>1 DEF Within

LEMMA Listed3 ==
    ASSUME NEW masks, NEW a, Uses(a, masks), NEW b, Uses(b, masks), NEW c, Uses(c, masks)
    PROVE  Within(<<a, b, c>>, masks)
<1> DEFINE S == {a, b, c}
<1>1. <<a, b, c>> \in Seq(S) /\ \A x \in S : Uses(x, masks)
  OBVIOUS
<1> HIDE DEF S
<1> QED  BY <1>1 DEF Within

LEMMA Listed4 ==
    ASSUME NEW masks, NEW a, Uses(a, masks), NEW b, Uses(b, masks), NEW c, Uses(c, masks),
           NEW d, Uses(d, masks)
    PROVE  Within(<<a, b, c, d>>, masks)
<1> DEFINE S == {a, b, c, d}
<1>1. <<a, b, c, d>> \in Seq(S) /\ \A x \in S : Uses(x, masks)
  OBVIOUS
<1> HIDE DEF S
<1> QED  BY <1>1 DEF Within

LEMMA Listed5 ==
    ASSUME NEW masks, NEW a, Uses(a, masks), NEW b, Uses(b, masks), NEW c, Uses(c, masks),
           NEW d, Uses(d, masks), NEW e, Uses(e, masks)
    PROVE  Within(<<a, b, c, d, e>>, masks)
<1> DEFINE S == {a, b, c, d, e}
<1>1. <<a, b, c, d, e>> \in Seq(S) /\ \A x \in S : Uses(x, masks)
  OBVIOUS
<1> HIDE DEF S
<1> QED  BY <1>1 DEF Within

LEMMA Listed6 ==
    ASSUME NEW masks, NEW a, Uses(a, masks), NEW b, Uses(b, masks), NEW c, Uses(c, masks),
           NEW d, Uses(d, masks), NEW e, Uses(e, masks), NEW f, Uses(f, masks)
    PROVE  Within(<<a, b, c, d, e, f>>, masks)
<1> DEFINE S == {a, b, c, d, e, f}
<1>1. <<a, b, c, d, e, f>> \in Seq(S) /\ \A x \in S : Uses(x, masks)
  OBVIOUS
<1> HIDE DEF S
<1> QED  BY <1>1 DEF Within

LEMMA Listed9 ==
    ASSUME NEW masks, NEW a, Uses(a, masks), NEW b, Uses(b, masks), NEW c, Uses(c, masks),
           NEW d, Uses(d, masks), NEW e, Uses(e, masks), NEW f, Uses(f, masks),
           NEW g, Uses(g, masks), NEW h, Uses(h, masks), NEW i, Uses(i, masks)
    PROVE  Within(<<a, b, c, d, e, f, g, h, i>>, masks)
<1> DEFINE S == {a, b, c, d, e, f, g, h, i}
<1>1. <<a, b, c, d, e, f, g, h, i>> \in Seq(S) /\ \A x \in S : Uses(x, masks)
  OBVIOUS
<1> HIDE DEF S
<1> QED  BY <1>1 DEF Within

LEMMA Listed13 ==
    ASSUME NEW masks, NEW a, Uses(a, masks), NEW b, Uses(b, masks), NEW c, Uses(c, masks),
           NEW d, Uses(d, masks), NEW e, Uses(e, masks), NEW f, Uses(f, masks),
           NEW g, Uses(g, masks), NEW h, Uses(h, masks), NEW i, Uses(i, masks),
           NEW j, Uses(j, masks), NEW k, Uses(k, masks), NEW l, Uses(l, masks),
           NEW m, Uses(m, masks)
    PROVE  Within(<<a, b, c, d, e, f, g, h, i, j, k, l, m>>, masks)
<1> DEFINE S == {a, b, c, d, e, f, g, h, i, j, k, l, m}
<1>1. <<a, b, c, d, e, f, g, h, i, j, k, l, m>> \in Seq(S) /\ \A x \in S : Uses(x, masks)
  OBVIOUS
<1> HIDE DEF S
<1> QED  BY <1>1 DEF Within

-----------------------------------------------------------------------------
(***************************************************************************)
(* What the programs of the driver use.                                    *)
(***************************************************************************)
AnyMask  == (0..255) \X (0..255)
TuneMasks ==
    {<<0, 0>>, <<\h08, \h3f>>, <<\h09, \h3f>>, <<\h10, \h0b>>, <<\h10, \h10>>, <<\h10, \he0>>,
     <<\h12, \h08>>, <<\h12, \he0>>, <<\h14, \hff>>, <<\h15, \hff>>, <<\h16, \hff>>,
     <<\h17, \h08>>, <<\h1a, \h08>>, <<\h1a, \h0c>>, <<\h1a, \hc3>>, <<\h1b, \hff>>}
\* Of which the parts of r82xx_set_pll use:
DividerMasks  == {<<0, 0>>, <<\h10, \h10>>, <<\h10, \he0>>, <<\h12, \he0>>, <<\h1a, \h0c>>}
FractionMasks == {<<\h12, \h08>>, <<\h14, \hff>>, <<\h15, \hff>>, <<\h16, \hff>>}
LockMasks     == {<<0, 0>>, <<\h12, \he0>>, <<\h1a, \h08>>}
SwitchMasks == {<<\h05, \h60>>}
GainMasks   == {<<0, 0>>, <<\h05, \h0f>>, <<\h05, \h10>>, <<\h07, \h0f>>, <<\h07, \h10>>, <<\h0c, \h9f>>}
FilterMasks == {<<\h0a, \h10>>, <<\h0b, \hef>>}
RestMasks   ==
    {<<\h06, \h08>>, <<\h11, \h38>>, <<\h17, \h30>>, <<\h0a, \h60>>, <<\h1d, \h38>>, <<\h1c, \h04>>,
     <<\h06, \h40>>, <<\h1a, \h30>>, <<\h1e, \h1f>>}
StandardMasks ==
    {<<\h0a, \h1f>>, <<\h0b, \hef>>, <<\h07, \h80>>, <<\h06, \h30>>, <<\h1e, \h60>>, <<\h05, \h80>>,
     <<\h1f, \h80>>, <<\h0f, \h80>>, <<\h19, \h60>>}
TopMasks    == {<<\h1d, \hc7>>, <<\h1c, \hf8>>, <<\h0d, \hff>>, <<\h0e, \hff>>}
HeadMasks   ==
    {<<\h0c, \h0f>>, <<\h13, \h3f>>, <<\h1d, \h38>>, <<\h0b, \h60>>, <<\h0b, \h10>>, <<\h0f, \h04>>, <<\h10, \h03>>}
InitMasks   == TuneMasks \cup SwitchMasks \cup RestMasks \cup StandardMasks \cup TopMasks \cup HeadMasks

LEMMA DividerWithin == \A lo, fine : Within(PllDivider(lo, fine), DividerMasks)
<1> TAKE lo, fine
<1>1. /\ <<\h10, \h10>> \in DividerMasks /\ <<\h1a, \h0c>> \in DividerMasks /\ <<\h12, \he0>> \in DividerMasks
      /\ <<0, 0>> \in DividerMasks /\ <<\h10, \he0>> \in DividerMasks
  BY DEF DividerMasks
<1>2. ASSUME NEW v1, NEW v2, NEW v3, NEW v4, NEW v5
      PROVE  Within(<< <<\h10, v1, \h10>>, <<\h1a, v2, \h0c>>, <<\h12, v3, \he0>>, <<0, v4, 0>>, <<\h10, v5, \he0>> >>, DividerMasks)
  BY <1>1, UsesIs, Listed5
<1> QED
  BY <1>2 DEF PllDivider, Read

LEMMA FractionWithin == \A lo : Within(PllFraction(lo), FractionMasks)
<1> TAKE lo
<1>1. /\ <<\h14, \hff>> \in FractionMasks /\ <<\h12, \h08>> \in FractionMasks /\ <<\h16, \hff>> \in FractionMasks
      /\ <<\h15, \hff>> \in FractionMasks
  BY DEF FractionMasks
<1>2. ASSUME NEW v1, NEW v2, NEW v3, NEW v4
      PROVE  Within(<< <<\h14, v1, \hff>>, <<\h12, v2, \h08>>, <<\h16, v3, \hff>>, <<\h15, v4, \hff>> >>, FractionMasks)
  BY <1>1, UsesIs, Listed4
<1> QED
  BY <1>2 DEF PllFraction, Write

LEMMA LockWithin == \A lock : Within(PllLock(lock), LockMasks)
<1> TAKE lock
<1> DEFINE again  == IF lock = 1 THEN <<>> ELSE << <<\h12, \h60, \he0>>, Read >>
           locked == IF lock = 0 THEN <<>> ELSE << <<\h1a, \h08, \h08>> >>
<1>0. /\ <<0, 0>> \in LockMasks /\ <<\h12, \he0>> \in LockMasks /\ <<\h1a, \h08>> \in LockMasks
  BY DEF LockMasks
<1>1. Within(<<Read>>, LockMasks)
  BY <1>0, UsesIs, Listed1 DEF Read
<1>2. Within(again, LockMasks)
  BY <1>0, UsesIs, Listed0, Listed2 DEF Read
<1>3. Within(locked, LockMasks)
  BY <1>0, UsesIs, Listed0, Listed1
<1>4. PllLock(lock) = (<<Read>> \o again) \o locked
  BY DEF PllLock
<1> HIDE DEF again, locked
<1>5. Within(<<Read>> \o again, LockMasks)
  BY <1>1, <1>2, Concatenation
<1> QED
  BY <1>3, <1>4, <1>5, Concatenation

LEMMA PllWithin ==
    ASSUME NEW lo, NEW fine, NEW lock
    PROVE  Within(Pll(lo, fine, lock), TuneMasks)
<1>0. DividerMasks \subseteq TuneMasks /\ FractionMasks \subseteq TuneMasks /\ LockMasks \subseteq TuneMasks
  BY DEF DividerMasks, FractionMasks, LockMasks, TuneMasks
<1>1. Within(PllDivider(lo, fine), TuneMasks)
  BY <1>0, DividerWithin, Wider
<1>2. Within(PllFraction(lo), TuneMasks)
  BY <1>0, FractionWithin, Wider
<1>3. Within(PllLock(lock), TuneMasks)
  BY <1>0, LockWithin, Wider
<1>4. Within(PllFraction(lo) \o PllLock(lock), TuneMasks)
  BY <1>2, <1>3, Concatenation
<1>5. Within(IF Valid(lo) THEN PllFraction(lo) \o PllLock(lock) ELSE <<>>, TuneMasks)
  BY <1>4, Listed0
<1> QED
  BY <1>1, <1>5, Concatenation DEF Pll

LEMMA TuneWithin ==
    ASSUME NEW lo, NEW fine, NEW lock
    PROVE  Within(Mux(lo) \o Pll(lo, fine, lock), TuneMasks)
<1>1. Within(Mux(lo), TuneMasks)
  <2>1. /\ <<\h17, \h08>> \in TuneMasks /\ <<\h1a, \hc3>> \in TuneMasks /\ <<\h1b, \hff>> \in TuneMasks
        /\ <<\h10, \h0b>> \in TuneMasks /\ <<\h08, \h3f>> \in TuneMasks /\ <<\h09, \h3f>> \in TuneMasks
    BY DEF TuneMasks
  <2>2. ASSUME NEW v1, NEW v2, NEW v3, NEW v4, NEW v5, NEW v6
        PROVE  Within(<< <<\h17, v1, \h08>>, <<\h1a, v2, \hc3>>, <<\h1b, v3, \hff>>, <<\h10, v4, \h0b>>, <<\h08, v5, \h3f>>,
                         <<\h09, v6, \h3f>> >>, TuneMasks)
    BY <2>1, UsesIs, Listed6
  <2> QED
    BY <2>2 DEF Mux, Write
<1> QED
  BY <1>1, PllWithin, Concatenation

LEMMA SwitchWithin ==
    ASSUME NEW locked, NEW f
    PROVE  Within(IF locked THEN InputSwitch(f) ELSE <<>>, SwitchMasks)
<1>1. Within(InputSwitch(f), SwitchMasks)
  <2>1. <<\h05, \h60>> \in SwitchMasks
    BY DEF SwitchMasks
  <2> QED
    BY <2>1, UsesIs, Listed0, Listed1 DEF InputSwitch
<1> QED
  BY <1>1, Listed0

LEMMA FreqWithin ==
    ASSUME NEW lo, NEW fine, NEW lock, NEW locked, NEW f
    PROVE  LET tune == Mux(lo) \o Pll(lo, fine, lock)
           IN  Within(tune \o (IF locked THEN InputSwitch(f) ELSE <<>>), TuneMasks \cup SwitchMasks)
<1> DEFINE switch == IF locked THEN InputSwitch(f) ELSE <<>>
<1>1. Within(Mux(lo) \o Pll(lo, fine, lock), TuneMasks) /\ Within(switch, SwitchMasks)
  BY TuneWithin, SwitchWithin
<1> HIDE DEF switch
<1>2. /\ Within(Mux(lo) \o Pll(lo, fine, lock), TuneMasks \cup SwitchMasks)
      /\ Within(switch, TuneMasks \cup SwitchMasks)
  BY <1>1, Wider
<1>3. Within((Mux(lo) \o Pll(lo, fine, lock)) \o switch, TuneMasks \cup SwitchMasks)
  BY <1>2, Concatenation
<1> QED
  BY <1>3 DEF switch

LEMMA GainWithin ==
    /\ \A g : Within(ManualGain(g), GainMasks)
    /\ Within(AutoGain, GainMasks)
    /\ \A lna, mixer, vga : Within(ExtendedGain(lna, mixer, vga), GainMasks)
<1>0. /\ <<0, 0>> \in GainMasks /\ <<\h05, \h0f>> \in GainMasks /\ <<\h05, \h10>> \in GainMasks
      /\ <<\h07, \h0f>> \in GainMasks /\ <<\h07, \h10>> \in GainMasks /\ <<\h0c, \h9f>> \in GainMasks
  BY DEF GainMasks
<1>1. ASSUME NEW g
      PROVE  Within(ManualGain(g), GainMasks)
  <2>1. ASSUME NEW n
        PROVE  Within(<< <<\h05, \h10, \h10>>, <<\h07, 0, \h10>>, Read, <<\h0c, \h08, \h9f>>,
                         <<\h05, LnaIndex(n), \h0f>>, <<\h07, MixIndex(n), \h0f>> >>, GainMasks)
    BY <1>0, UsesIs, Listed6 DEF Read
  <2> QED
    BY <2>1 DEF ManualGain
<1>2. Within(AutoGain, GainMasks)
  BY <1>0, UsesIs, Listed3 DEF AutoGain
<1>3. ASSUME NEW lna, NEW mixer, NEW vga
      PROVE  Within(ExtendedGain(lna, mixer, vga), GainMasks)
  BY <1>0, UsesIs, Listed3 DEF ExtendedGain
<1> QED
  BY <1>1, <1>2, <1>3

LEMMA FilterWithin == \A w : Within(FilterProgram(w), FilterMasks)
<1>1. /\ <<\h0a, \h10>> \in FilterMasks /\ <<\h0b, \hef>> \in FilterMasks
  BY DEF FilterMasks
<1> QED
  BY <1>1, UsesIs, Listed2 DEF FilterProgram

LEMMA StandbyWithin == Within(StandbyProgram, AnyMask)
<1> DEFINE value == << <<\h06, \hb1>>, <<\h05, \h03>>, <<\h07, \h3a>>, <<\h08, \h40>>, <<\h09, \hc0>>,
                       <<\h0a, \h36>>, <<\h0c, \h35>>, <<\h0f, \h68>>, <<\h11, \h03>>, <<\h17, \hf4>>,
                       <<\h19, \h0c>> >>
           x(i)  == Write(value[i][1], value[i][2])
<1>1. DOMAIN value = 1..11 /\ \A i \in 1..11 : value[i][1] \in 0..255
  OBVIOUS
<1>2. StandbyProgram = [i \in 1..11 |-> x(i)]
  BY <1>1 DEF StandbyProgram
<1>3. \A i \in 1..11 : Uses(x(i), AnyMask)
  BY SMTT(20), <1>1 DEF Uses, Write, AnyMask
<1> HIDE DEF x
<1>4. [i \in 1..11 |-> x(i)] \in Seq({x(i) : i \in 1..11})
  OBVIOUS
<1>5. \A y \in {x(i) : i \in 1..11} : Uses(y, AnyMask)
  BY <1>3
<1> QED
  BY <1>2, <1>4, <1>5 DEF Within

LEMMA CalibrateWithin ==
    ASSUME NEW fine, NEW try
    PROVE  Within(Calibrate(fine, try), InitMasks)
<1> DEFINE start == << <<\h0b, \h6b, \h60>>, <<\h0f, \h04, \h04>>, <<\h10, 0, \h03>> >>
           rest  == IF try[1] = 0 THEN <<>>
                    ELSE << <<\h0b, \h10, \h10>>, <<\h0b, 0, \h10>>, <<\h0f, 0, \h04>>, Read >>
<1>1. Within(start, HeadMasks)
  <2>1. /\ <<\h0b, \h60>> \in HeadMasks /\ <<\h0f, \h04>> \in HeadMasks /\ <<\h10, \h03>> \in HeadMasks
    BY DEF HeadMasks
  <2> QED
    BY <2>1, UsesIs, Listed3
<1>2. Within(rest, HeadMasks \cup TuneMasks)
  <2> DEFINE both == HeadMasks \cup TuneMasks
  <2>1. /\ <<\h0b, \h10>> \in both /\ <<\h0f, \h04>> \in both /\ <<0, 0>> \in both
    BY DEF HeadMasks, TuneMasks
  <2> HIDE DEF both
  <2>2. Within(rest, both)
    BY <2>1, UsesIs, Listed0, Listed4 DEF Read
  <2> QED
    BY <2>2 DEF both
<1>3. Calibrate(fine, try) = (start \o Pll(56000, fine, try[1])) \o rest
  BY DEF Calibrate
<1> HIDE DEF start, rest
<1>4. HeadMasks \subseteq InitMasks /\ TuneMasks \subseteq InitMasks /\ HeadMasks \cup TuneMasks \subseteq InitMasks
  BY DEF InitMasks
<1>5. Within(start, InitMasks) /\ Within(rest, InitMasks) /\ Within(Pll(56000, fine, try[1]), InitMasks)
  BY <1>1, <1>2, <1>4, PllWithin, Wider
<1>6. Within(start \o Pll(56000, fine, try[1]), InitMasks)
  BY <1>5, Concatenation
<1> QED
  BY <1>3, <1>5, <1>6, Concatenation

LEMMA StandardWithin == \A code : Within(Standard(code), StandardMasks)
<1>1. /\ <<\h0a, \h1f>> \in StandardMasks /\ <<\h0b, \hef>> \in StandardMasks /\ <<\h07, \h80>> \in StandardMasks
      /\ <<\h06, \h30>> \in StandardMasks /\ <<\h1e, \h60>> \in StandardMasks /\ <<\h05, \h80>> \in StandardMasks
      /\ <<\h1f, \h80>> \in StandardMasks /\ <<\h0f, \h80>> \in StandardMasks /\ <<\h19, \h60>> \in StandardMasks
  BY DEF StandardMasks
<1>2. ASSUME NEW v1, NEW v2, NEW v3, NEW v4, NEW v5, NEW v6, NEW v7,
             NEW v8, NEW v9
      PROVE  Within(<< <<\h0a, v1, \h1f>>, <<\h0b, v2, \hef>>, <<\h07, v3, \h80>>, <<\h06, v4, \h30>>,
                       <<\h1e, v5, \h60>>, <<\h05, v6, \h80>>, <<\h1f, v7, \h80>>, <<\h0f, v8, \h80>>,
                       <<\h19, v9, \h60>> >>, StandardMasks)
  <2> DEFINE a == <<\h0a, v1, \h1f>>
             b == <<\h0b, v2, \hef>>
             c == <<\h07, v3, \h80>>
             d == <<\h06, v4, \h30>>
             e == <<\h1e, v5, \h60>>
             f == <<\h05, v6, \h80>>
             g == <<\h1f, v7, \h80>>
             h == <<\h0f, v8, \h80>>
             i == <<\h19, v9, \h60>>
  <2>1. /\ Uses(a, StandardMasks) /\ Uses(b, StandardMasks) /\ Uses(c, StandardMasks) /\ Uses(d, StandardMasks)
        /\ Uses(e, StandardMasks) /\ Uses(f, StandardMasks) /\ Uses(g, StandardMasks) /\ Uses(h, StandardMasks)
        /\ Uses(i, StandardMasks)
    BY <1>1, UsesIs
  <2> HIDE DEF a, b, c, d, e, f, g, h, i
  <2>2. Within(<<a, b, c, d, e, f, g, h, i>>, StandardMasks)
    BY <2>1, Listed9
  <2> QED
    BY <2>2 DEF a, b, c, d, e, f, g, h, i
<1> QED
  BY <1>2 DEF Standard

LEMMA HeadWithin == Within(TvHead, HeadMasks)
<1>1. /\ <<\h0c, \h0f>> \in HeadMasks /\ <<\h13, \h3f>> \in HeadMasks /\ <<\h1d, \h38>> \in HeadMasks
  BY DEF HeadMasks
<1> QED
  BY <1>1, UsesIs, Listed3 DEF TvHead

LEMMA TvWithin ==
    ASSUME NEW fine, NEW tries
    PROVE  Within(TvStandard(fine, tries), InitMasks)
<1> DEFINE second   == IF Len(tries) = 1 THEN <<>> ELSE Calibrate(fine, tries[2])
           standard == IF Calibrated(tries) THEN Standard(Code(tries)) ELSE <<>>
<1>1. Within(TvHead, InitMasks)
  BY HeadWithin, Wider DEF InitMasks
<1>2. Within(second, InitMasks)
  BY Listed0, CalibrateWithin
<1>3. Within(standard, InitMasks)
  <2>1. Within(Standard(Code(tries)), InitMasks)
    BY StandardWithin, Wider DEF InitMasks
  <2> QED
    BY <2>1, Listed0
<1>4. TvStandard(fine, tries) = ((TvHead \o Calibrate(fine, tries[1])) \o second) \o standard
  BY DEF TvStandard
<1> HIDE DEF second, standard
<1>5. Within(TvHead \o Calibrate(fine, tries[1]), InitMasks)
  BY <1>1, CalibrateWithin, Concatenation
<1>6. Within((TvHead \o Calibrate(fine, tries[1])) \o second, InitMasks)
  BY <1>2, <1>5, Concatenation
<1> QED
  BY <1>3, <1>4, <1>6, Concatenation

LEMMA SysfreqWithin ==
    /\ Within(SysfreqTop, TopMasks) /\ Within(SysfreqRest, RestMasks \cup SwitchMasks)
    /\ Within(SysfreqTop, InitMasks) /\ Within(SysfreqRest, InitMasks)
<1>1. Within(SysfreqTop, TopMasks)
  <2>1. /\ <<\h1d, \hc7>> \in TopMasks /\ <<\h1c, \hf8>> \in TopMasks /\ <<\h0d, \hff>> \in TopMasks
        /\ <<\h0e, \hff>> \in TopMasks
    BY DEF TopMasks
  <2>2. ASSUME NEW v1, NEW v2, NEW v3, NEW v4
        PROVE  Within(<< <<\h1d, v1, \hc7>>, <<\h1c, v2, \hf8>>, <<\h0d, v3, \hff>>, <<\h0e, v4, \hff>> >>, TopMasks)
    BY <2>1, UsesIs, Listed4
  <2> QED
    BY <2>2 DEF SysfreqTop, Write
<1>2. Within(SysfreqRest, RestMasks \cup SwitchMasks)
  <2> DEFINE both == RestMasks \cup SwitchMasks
  <2>1. /\ <<\h05, \h60>> \in both /\ <<\h06, \h08>> \in both /\ <<\h11, \h38>> \in both
        /\ <<\h17, \h30>> \in both /\ <<\h0a, \h60>> \in both /\ <<\h1d, \h38>> \in both
        /\ <<\h1c, \h04>> \in both /\ <<\h06, \h40>> \in both /\ <<\h1a, \h30>> \in both
        /\ <<\h1e, \h1f>> \in both
    BY DEF RestMasks, SwitchMasks
  <2> HIDE DEF both
  <2>2. ASSUME NEW v1, NEW v2, NEW v3, NEW v4, NEW v5, NEW v6, NEW v7,
               NEW v8, NEW v9, NEW v10, NEW v11, NEW v12, NEW v13
        PROVE  Within(<< <<\h05, v1, \h60>>, <<\h06, v2, \h08>>, <<\h11, v3, \h38>>, <<\h17, v4, \h30>>,
                         <<\h0a, v5, \h60>>, <<\h1d, v6, \h38>>, <<\h1c, v7, \h04>>, <<\h06, v8, \h40>>,
                         <<\h1a, v9, \h30>>, <<\h1d, v10, \h38>>, <<\h1c, v11, \h04>>, <<\h1e, v12, \h1f>>,
                         <<\h1a, v13, \h30>> >>, both)
    <3> DEFINE a == <<\h05, v1, \h60>>
               b == <<\h06, v2, \h08>>
               c == <<\h11, v3, \h38>>
               d == <<\h17, v4, \h30>>
               e == <<\h0a, v5, \h60>>
               f == <<\h1d, v6, \h38>>
               g == <<\h1c, v7, \h04>>
               h == <<\h06, v8, \h40>>
               i == <<\h1a, v9, \h30>>
               j == <<\h1d, v10, \h38>>
               k == <<\h1c, v11, \h04>>
               l == <<\h1e, v12, \h1f>>
               m == <<\h1a, v13, \h30>>
    <3>1. /\ Uses(a, both) /\ Uses(b, both) /\ Uses(c, both) /\ Uses(d, both)
          /\ Uses(e, both) /\ Uses(f, both) /\ Uses(g, both) /\ Uses(h, both)
          /\ Uses(i, both) /\ Uses(j, both) /\ Uses(k, both) /\ Uses(l, both)
          /\ Uses(m, both)
      BY <2>1, UsesIs
    <3> HIDE DEF a, b, c, d, e, f, g, h, i, j, k, l, m
    <3>2. Within(<<a, b, c, d, e, f, g, h, i, j, k, l, m>>, both)
      BY <3>1, Listed13
    <3> QED
      BY <3>2 DEF a, b, c, d, e, f, g, h, i, j, k, l, m
  <2> QED
    BY <2>2 DEF SysfreqRest, both
<1>3. TopMasks \subseteq InitMasks /\ RestMasks \cup SwitchMasks \subseteq InitMasks
  BY DEF InitMasks
<1> QED
  BY <1>1, <1>2, <1>3, Wider

LEMMA InitWithin ==
    ASSUME NEW fine, NEW tries
    PROVE  Within(TvStandard(fine, tries) \o SysfreqTop \o SysfreqRest, InitMasks)
<1>1. Within(TvStandard(fine, tries) \o SysfreqTop, InitMasks)
  BY TvWithin, SysfreqWithin, Concatenation
<1> QED
  BY <1>1, SysfreqWithin, Concatenation

\* All of them write bytes.
LEMMA ByteMasks ==
    /\ TuneMasks \cup SwitchMasks \subseteq AnyMask /\ GainMasks \subseteq AnyMask
    /\ FilterMasks \subseteq AnyMask /\ InitMasks \subseteq AnyMask
<1>1. TuneMasks \subseteq AnyMask
  BY DEF TuneMasks, AnyMask
<1>2. SwitchMasks \subseteq AnyMask /\ GainMasks \subseteq AnyMask /\ FilterMasks \subseteq AnyMask
  BY DEF SwitchMasks, GainMasks, FilterMasks, AnyMask
<1>3. RestMasks \subseteq AnyMask /\ StandardMasks \subseteq AnyMask
  BY SMTT(20) DEF RestMasks, StandardMasks, AnyMask
<1>4. TopMasks \subseteq AnyMask /\ HeadMasks \subseteq AnyMask
  BY DEF TopMasks, HeadMasks, AnyMask
<1> QED
  BY <1>1, <1>2, <1>3, <1>4 DEF InitMasks

-----------------------------------------------------------------------------
(***************************************************************************)
(* A program keeps the shadow right about every register it was right      *)
(* about, and makes it right about those it writes.                        *)
(***************************************************************************)
\* A transfer does not change another register in the shadow.
LEMMA OtherRegister ==
    ASSUME NEW base, NEW p, NEW n \in Int, n >= 1, NEW r \in Regs, p[n][1] # r
    PROVE  Store(base, p, n)[r] = Store(base, p, n - 1)[r]
<1>1. \A j : j \in 1..n <=> j \in 1..(n - 1) \/ j = n
  OBVIOUS
<1>2. On(p, n, r) = On(p, n - 1, r)
  BY <1>1 DEF On
<1> QED
  BY <1>2 DEF Store

\* A register to which nothing was written keeps its value.
LEMMA NotWritten ==
    ASSUME NEW base, NEW p, NEW n, NEW r \in Regs, \A j \in 1..n : p[j][1] # r
    PROVE  Store(base, p, n)[r] = base[r]
<1>1. On(p, n, r) = {}
  BY DEF On
<1> QED
  BY <1>1 DEF Store

\* A failing transfer is one of the program.
LEMMA FailureIndex ==
    ASSUME NEW p, IsProgram(p), NEW o \in Outcomes(p), o # Done
    PROVE  o.k \in Int /\ o.k >= 1 /\ o.landed \in BOOLEAN
<1>1. o \in [k : 1..Len(p), landed : BOOLEAN]
  BY DEF Outcomes, Failures
<1>2. Len(p) \in Nat
  BY DEF IsProgram
<1> QED
  BY <1>1, <1>2

LEMMA RunKeeps ==
    ASSUME NEW base, NEW regs, NEW lost, NEW p, IsProgram(p), NEW o \in Outcomes(p),
           Run(base, regs, lost, p, o),
           \A r \in Regs \ lost : base[r] = regs[r]
    PROVE  Coherent'
<1> DEFINE n    == IF o = Done THEN Len(p) ELSE o.k
           sent == {p[j][1] : j \in 1..(IF o.landed THEN n ELSE n - 1)} \cap Regs
           now  == Store(base, p, n)
           was  == Store(base, p, n - 1)
           bad  == IF o = Done THEN {} ELSE {p[n][1]} \cap Regs
<1>1. /\ shadow' = now
      /\ chip' = [r \in Regs |-> IF r \notin sent THEN regs[r] ELSE IF o.landed THEN now[r] ELSE was[r]]
      /\ dirty' = (lost \ sent) \cup bad
  BY DEF Run, Remember
<1>2. SUFFICES ASSUME NEW r \in Regs, r \notin dirty'
               PROVE  shadow'[r] = chip'[r]
  BY DEF Coherent
<1>3. chip'[r] = IF r \notin sent THEN regs[r] ELSE IF o.landed THEN now[r] ELSE was[r]
  BY <1>1
<1>4. o = Done => o.landed
  BY DEF Done
<1>5. o # Done => n \in Int /\ n >= 1 /\ p[n][1] # r
  BY <1>1, <1>2, FailureIndex
<1>6. o # Done => now[r] = was[r]
  BY <1>5, OtherRegister
<1>7. CASE r \in sent
  <2>1. CASE o = Done
    BY <1>1, <1>3, <1>4, <1>7, <2>1
  <2>2. CASE o # Done
    BY <1>1, <1>3, <1>6, <1>7, <2>2
  <2> QED
    BY <2>1, <2>2
<1>8. CASE r \notin sent
  <2>1. r \notin lost
    BY <1>1, <1>2, <1>8
  <2>2. \A j \in 1..n : p[j][1] # r
    <3>1. CASE o.landed
      BY <1>8, <3>1
    <3>2. CASE ~o.landed
      <4>1. \A j \in 1..(n - 1) : p[j][1] # r
        BY <1>8, <3>2
      <4>2. n \in Int /\ n >= 1 /\ p[n][1] # r
        BY <1>4, <1>5, <3>2
      <4>3. \A j \in 1..n : j \in 1..(n - 1) \/ j = n
        BY <4>2
      <4> QED
        BY <4>1, <4>2, <4>3
    <3> QED
      BY <3>1, <3>2
  <2>3. now[r] = base[r]
    BY <2>2, NotWritten
  <2> QED
    BY <1>1, <1>3, <1>8, <2>1, <2>3
<1> QED
  BY <1>7, <1>8

-----------------------------------------------------------------------------
\* Where the last write of a register did not fail, the shadow says what the chip
\* has (shadow_store and the transfers of r82xx_write).
THEOREM ShadowIsRight == Spec => []Coherent
<1>1. Init => Coherent
  BY DEF Init, Coherent
<1>2. Coherent /\ [Next]_vars => Coherent'
  <2> SUFFICES ASSUME Coherent, [Next]_vars
               PROVE  Coherent'
    OBVIOUS
  <2>1. \A r \in Regs \ dirty : shadow[r] = chip[r]
    BY DEF Coherent
  <2>2. ASSUME NEW fine \in FineTunes, NEW tries \in Tries, InitTuner(fine, tries)
        PROVE  Coherent'
    <3> DEFINE p == TvStandard(fine, tries) \o SysfreqTop \o SysfreqRest
    <3>1. IsProgram(p)
      BY InitWithin, IsFinite
    <3>2. PICK reached \in Bursts, o \in Outcomes(p) :
             Run(InitArray, AfterBurst(reached), NotReached(reached), p, o)
      BY <2>2 DEF InitTuner, Outcomes
    <3>3. \A r \in Regs \ NotReached(reached) : InitArray[r] = AfterBurst(reached)[r]
      BY DEF AfterBurst
    <3> HIDE DEF p
    <3> QED
      BY <3>1, <3>2, <3>3, RunKeeps
  <2>3. ASSUME NEW f, NEW fine, NEW lock, SetFreq(f, fine, lock)
        PROVE  Coherent'
    <3> DEFINE lo   == LoFreq(f)
               tune == Mux(lo) \o Pll(lo, fine, lock)
               p    == tune \o (IF Valid(lo) /\ lock # 0 THEN InputSwitch(f) ELSE <<>>)
    <3>1. IsProgram(p)
      BY FreqWithin, IsFinite
    <3>2. PICK o \in Outcomes(p) : Run(shadow, chip, dirty, p, o)
      BY <2>3 DEF SetFreq
    <3> HIDE DEF p
    <3> QED
      BY <2>1, <3>1, <3>2, RunKeeps
  <2>4. ASSUME NEW p, NEW what, IsProgram(p), GainCall(p, what)
        PROVE  Coherent'
    <3>1. PICK o \in Outcomes(p) : Run(shadow, chip, dirty, p, o)
      BY <2>4 DEF GainCall
    <3> QED
      BY <2>1, <2>4, <3>1, RunKeeps
  <2>5. ASSUME NEW g, SetGain(g)
        PROVE  Coherent'
    BY <2>4, <2>5, GainWithin, IsFinite DEF SetGain
  <2>6. ASSUME NEW manual, SetGainMode(manual)
        PROVE  Coherent'
    BY <2>4, <2>5, <2>6, GainWithin, IsFinite DEF SetGainMode
  <2>7. CASE SetGainExt(15, 15, 15)
    BY <2>4, <2>7, GainWithin, IsFinite DEF SetGainExt
  <2>8. ASSUME NEW w, SetFilter(w)
        PROVE  Coherent'
    <3>1. PICK o \in Outcomes(FilterProgram(w)) : Run(shadow, chip, dirty, FilterProgram(w), o)
      BY <2>8 DEF SetFilter
    <3> QED
      BY <2>1, <3>1, FilterWithin, IsFinite, RunKeeps
  <2>9. CASE Standby
    <3> DEFINE p == IF init_done THEN StandbyProgram ELSE <<>>
    <3>1. IsProgram(p)
      BY StandbyWithin, Listed0, IsFinite
    <3>2. PICK o \in Outcomes(p) : Run(shadow, chip, dirty, p, o)
      BY <2>9 DEF Standby
    <3> HIDE DEF p
    <3> QED
      BY <2>1, <3>1, <3>2, RunKeeps
  <2>10. CASE Reopen
    BY <2>10 DEF Reopen, Coherent
  <2>11. CASE UNCHANGED vars
    BY <2>1, <2>11 DEF vars, Coherent
  <2> QED
    BY <2>2, <2>3, <2>5, <2>6, <2>7, <2>8, <2>9, <2>10, <2>11 DEF Next
<1> QED
  BY <1>1, <1>2, PTL DEF Spec
-----------------------------------------------------------------------------
(***************************************************************************)
(* What a program leaves alone.                                            *)
(***************************************************************************)
Misses(masks, r, bits) == \A x \in masks : x[1] = r => BitsOf[x[2]] \cap bits = {}

\* Bits that no transfer has in its mask keep their value in the shadow.
LEMMA BitsKept ==
    ASSUME NEW base, NEW p, NEW n, NEW r \in Regs, NEW bits,
           \A j \in 1..n : p[j][1] = r => BitsOf[p[j][3]] \cap bits = {}
    PROVE  Store(base, p, n)[r] \cap bits = base[r] \cap bits
<1>1. \A j \in On(p, n, r) : BitsOf[p[j][3]] \cap bits = {}
  BY DEF On
<1> DEFINE on == On(p, n, r)
<1>2. Store(base, p, n)[r] = IF on = {} THEN base[r] ELSE Merged(base[r], p, on)
  BY DEF Store
<1> HIDE DEF on
<1>3. \A j \in on : BitsOf[p[j][3]] \cap bits = {}
  BY <1>1 DEF on
<1>4. Merged(base[r], p, on) \cap bits = base[r] \cap bits
  BY <1>3 DEF Merged
<1> QED
  BY <1>2, <1>4

\* ... in the chip too, if the shadow was right about them.
LEMMA RunHolds ==
    ASSUME NEW base, NEW regs, NEW lost, NEW p, NEW masks, Within(p, masks), NEW o \in Outcomes(p),
           Run(base, regs, lost, p, o), NEW r \in Regs, NEW bits, Misses(masks, r, bits)
    PROVE  /\ shadow'[r] \cap bits = base[r] \cap bits
           /\ base[r] \cap bits = regs[r] \cap bits => chip'[r] \cap bits = regs[r] \cap bits
<1> DEFINE n    == IF o = Done THEN Len(p) ELSE o.k
           sent == {p[j][1] : j \in 1..(IF o.landed THEN n ELSE n - 1)} \cap Regs
           now  == Store(base, p, n)
           was  == Store(base, p, n - 1)
<1>1. /\ shadow' = now
      /\ chip'[r] = IF r \notin sent THEN regs[r] ELSE IF o.landed THEN now[r] ELSE was[r]
  BY DEF Run, Remember
<1>2. Len(p) \in Nat /\ \A j \in 1..Len(p) : Uses(p[j], masks)
  BY IsFinite
<1>3. n \in Int /\ n <= Len(p)
  <2>1. CASE o = Done
    BY <1>2, <2>1
  <2>2. CASE o # Done
    <3>1. o \in [k : 1..Len(p), landed : BOOLEAN]
      BY <2>2 DEF Outcomes, Failures
    <3> QED
      BY <1>2, <2>2, <3>1
  <2> QED
    BY <2>1, <2>2
<1>4. \A j \in 1..n : p[j][1] = r => BitsOf[p[j][3]] \cap bits = {}
  <2> SUFFICES ASSUME NEW j \in 1..n, p[j][1] = r
               PROVE  BitsOf[p[j][3]] \cap bits = {}
    OBVIOUS
  <2> DEFINE x == <<p[j][1], p[j][3]>>
  <2>1. x \in masks
    BY <1>2, <1>3 DEF Uses
  <2>2. x[1] = p[j][1] /\ x[2] = p[j][3]
    OBVIOUS
  <2> HIDE DEF x
  <2> QED
    BY <2>1, <2>2 DEF Misses
<1>5. \A j \in 1..(n - 1) : p[j][1] = r => BitsOf[p[j][3]] \cap bits = {}
  BY <1>3, <1>4
<1> HIDE DEF n
<1>6. now[r] \cap bits = base[r] \cap bits
  BY <1>4, BitsKept
<1>7. was[r] \cap bits = base[r] \cap bits
  BY <1>5, BitsKept
<1> QED
  BY <1>1, <1>6, <1>7

LEMMA MasksDiffer ==
    /\ BitsOf[\h60] \cap BitsOf[\h1f] = {}
    /\ BitsOf[\h10] \cap BitsOf[\h60] = {}
    /\ BitsOf[\h0f] \cap BitsOf[\h60] = {}
<1>1. BitsOf[96] \in Byte /\ BitsOf[31] \in Byte /\ BitsOf[16] \in Byte /\ BitsOf[15] \in Byte
  BY BitsAre
<1>2. \A b \in BitsOf[96] : b = 5 \/ b = 6
  <2>1. 0 \notin BitsOf[96] /\ 1 \notin BitsOf[96] /\ 2 \notin BitsOf[96]
    BY BitsAre
  <2>2. 3 \notin BitsOf[96] /\ 4 \notin BitsOf[96] /\ 7 \notin BitsOf[96]
    BY BitsAre
  <2> QED
    BY <1>1, <2>1, <2>2 DEF Byte
<1>3. 5 \notin BitsOf[31] /\ 6 \notin BitsOf[31]
  BY BitsAre
<1>4. 5 \notin BitsOf[16] /\ 6 \notin BitsOf[16]
  BY BitsAre
<1>5. 5 \notin BitsOf[15] /\ 6 \notin BitsOf[15]
  BY BitsAre
<1> QED
  BY <1>2, <1>3, <1>4, <1>5

\* A transfer of a register of which none of the bits are meant.
LEMMA Elsewhere ==
    ASSUME NEW bits
    PROVE  /\ \A r \in {\h05, \h07, \h0a, \h0b, \h0c} : Misses(TuneMasks, r, bits)
           /\ \A r \in {\h07, \h0a, \h0b, \h0c} : Misses(SwitchMasks, r, bits)
           /\ \A r \in Regs \ {\h05, \h07, \h0c} : Misses(GainMasks, r, bits)
           /\ \A r \in Regs \ {\h0a, \h0b} : Misses(FilterMasks, r, bits)
<1>1. \A r \in {\h05, \h07, \h0a, \h0b, \h0c} : Misses(TuneMasks, r, bits)
  BY DEF Misses, TuneMasks
<1>2. \A r \in {\h07, \h0a, \h0b, \h0c} : Misses(SwitchMasks, r, bits)
  BY DEF Misses, SwitchMasks
<1>3. \A r \in Regs \ {\h05, \h07, \h0c} : Misses(GainMasks, r, bits)
  BY DEF Misses, GainMasks, Regs
<1>4. \A r \in Regs \ {\h0a, \h0b} : Misses(FilterMasks, r, bits)
  BY DEF Misses, FilterMasks
<1> QED
  BY <1>1, <1>2, <1>3, <1>4

LEMMA MissesBoth ==
    ASSUME NEW some, NEW more, NEW r, NEW bits, Misses(some, r, bits), Misses(more, r, bits)
    PROVE  Misses(some \cup more, r, bits)
BY DEF Misses

\* Of the shared register \h05.
LEMMA Shared ==
    /\ Misses(SwitchMasks, \h05, BitsOf[\h1f])
    /\ Misses(GainMasks, \h05, BitsOf[\h60])
<1>1. Misses(SwitchMasks, \h05, BitsOf[\h1f])
  BY MasksDiffer DEF Misses, SwitchMasks
<1>2. Misses(GainMasks, \h05, BitsOf[\h60])
  BY MasksDiffer DEF Misses, GainMasks
<1> QED
  BY <1>1, <1>2

-----------------------------------------------------------------------------
(***************************************************************************)
(* The programs of each call against the settings of the others.           *)
(***************************************************************************)
Spares(masks, s) == \A x \in Owned[s] : x[1] \in Regs /\ Misses(masks, x[1], BitsOf[x[2]])

LEMMA GainSpares == Spares(GainMasks, "freq") /\ Spares(GainMasks, "filter")
<1>1. \A x \in Owned["filter"] : x[1] \in {\h0a, \h0b}
  BY DEF Owned
<1>2. Spares(GainMasks, "filter")
  BY <1>1, Elsewhere DEF Spares, Regs
<1>3. ASSUME NEW x \in Owned["freq"]
      PROVE  x[1] \in Regs /\ Misses(GainMasks, x[1], BitsOf[x[2]])
  <2>1. x = <<\h05, \h60>> \/ x[1] \in {\h10, \h12, \h14, \h15, \h16, \h17, \h1a, \h1b}
    BY DEF Owned
  <2>2. CASE x = <<\h05, \h60>>
    BY <2>2, Shared DEF Regs
  <2>3. CASE x[1] \in {\h10, \h12, \h14, \h15, \h16, \h17, \h1a, \h1b}
    BY <2>3, Elsewhere DEF Regs
  <2> QED
    BY <2>1, <2>2, <2>3
<1> QED
  BY <1>2, <1>3 DEF Spares

LEMMA FreqSpares ==
    /\ Spares(TuneMasks \cup SwitchMasks, "gain")
    /\ Spares(TuneMasks \cup SwitchMasks, "filter")
<1> DEFINE masks == TuneMasks \cup SwitchMasks
<1>1. \A bits : \A r \in {\h07, \h0a, \h0b, \h0c} : Misses(masks, r, bits)
  BY Elsewhere, MissesBoth
<1>2. Misses(masks, \h05, BitsOf[\h1f])
  BY Elsewhere, Shared, MissesBoth
<1> HIDE DEF masks
<1>3. \A x \in Owned["filter"] : x[1] \in {\h0a, \h0b}
  BY DEF Owned
<1>4. \A x \in Owned["gain"] : x = <<\h05, \h1f>> \/ x[1] \in {\h07, \h0c}
  BY DEF Owned
<1>5. Spares(masks, "filter")
  BY <1>1, <1>3 DEF Spares, Regs
<1>6. Spares(masks, "gain")
  BY <1>1, <1>2, <1>4 DEF Spares, Regs
<1> QED
  BY <1>5, <1>6 DEF masks

LEMMA FilterSpares == Spares(FilterMasks, "gain") /\ Spares(FilterMasks, "freq")
<1>1. \A x \in Owned["gain"] : x[1] \in {\h05, \h07, \h0c}
  BY DEF Owned
<1>2. \A x \in Owned["freq"] : x[1] \in {\h05, \h10, \h12, \h14, \h15, \h16, \h17, \h1a, \h1b}
  BY DEF Owned
<1>3. Spares(FilterMasks, "gain")
  BY <1>1, Elsewhere DEF Spares, Regs
<1>4. Spares(FilterMasks, "freq")
  BY <1>2, Elsewhere DEF Spares, Regs
<1> QED
  BY <1>3, <1>4

\* What each setting's call leaves as it was.
Kept(s) ==
    \A y \in Owned[s] :
        y[1] \in dirty \/ chip'[y[1]] \cap BitsOf[y[2]] = chip[y[1]] \cap BitsOf[y[2]]

LEMMA KeptBy ==
    ASSUME Coherent, NEW s, NEW p, NEW masks, Within(p, masks), Spares(masks, s), NEW o \in Outcomes(p),
           Run(shadow, chip, dirty, p, o)
    PROVE  Kept(s)
<1> SUFFICES ASSUME NEW y \in Owned[s], y[1] \notin dirty
             PROVE  chip'[y[1]] \cap BitsOf[y[2]] = chip[y[1]] \cap BitsOf[y[2]]
  BY DEF Kept
<1> DEFINE r == y[1]
           bits == BitsOf[y[2]]
<1>1. r \in Regs /\ Misses(masks, r, bits)
  BY DEF Spares
<1>2. shadow[r] = chip[r]
  BY <1>1 DEF Coherent
<1> HIDE DEF r, bits
<1>3. shadow[r] \cap bits = chip[r] \cap bits
  BY <1>2
<1>4. chip'[r] \cap bits = chip[r] \cap bits
  BY <1>1, <1>3, RunHolds
<1> QED
  BY <1>4 DEF r, bits

\* A call changes the bits of its own setting only, unless it sets up the whole
\* tuner or carries out what a failed write left in the shadow (the masks of
\* r82xx_write_reg_mask in r82xx_set_freq, r82xx_set_gain and r82xx_set_bandwidth).
THEOREM SettingsAlwaysKept == Spec => SettingsKept
<1> DEFINE Keeps == \A s \in DOMAIN Owned :
                      call'.op \notin {s, "init", "standby", "none"} => Kept(s)
<1>1. DOMAIN Owned = {"freq", "gain", "filter"}
  BY DEF Owned
<1>2. Coherent /\ [Next]_vars => [Keeps]_vars
  <2> SUFFICES ASSUME Coherent, Next, NEW s \in DOMAIN Owned,
                      call'.op \notin {s, "init", "standby", "none"}
               PROVE  Kept(s)
    OBVIOUS
  <2>1. ASSUME NEW fine, NEW tries, InitTuner(fine, tries)
        PROVE  FALSE
    <3>1. call'.op = "init"
      BY <2>1 DEF InitTuner, Called
    <3> QED
      BY <3>1
  <2>2. ASSUME NEW f, NEW fine, NEW lock, SetFreq(f, fine, lock)
        PROVE  Kept(s)
    <3> DEFINE lo   == LoFreq(f)
               tune == Mux(lo) \o Pll(lo, fine, lock)
               p    == tune \o (IF Valid(lo) /\ lock # 0 THEN InputSwitch(f) ELSE <<>>)
    <3>1. PICK o \in Outcomes(p) : Run(shadow, chip, dirty, p, o)
      BY <2>2 DEF SetFreq
    <3>2. call'.op = "freq"
      BY <2>2 DEF SetFreq, Called
    <3>3. Spares(TuneMasks \cup SwitchMasks, s)
      BY <1>1, <3>2, FreqSpares
    <3>4. Within(p, TuneMasks \cup SwitchMasks)
      BY FreqWithin
    <3> HIDE DEF p
    <3> QED
      BY <3>1, <3>3, <3>4, KeptBy
  <2>3. ASSUME NEW p, NEW what, GainCall(p, what), Within(p, GainMasks)
        PROVE  Kept(s)
    <3>1. PICK o \in Outcomes(p) : Run(shadow, chip, dirty, p, o)
      BY <2>3 DEF GainCall
    <3>2. call'.op = "gain"
      BY <2>3 DEF GainCall, Called
    <3>3. Spares(GainMasks, s)
      BY <1>1, <3>2, GainSpares
    <3> QED
      BY <2>3, <3>1, <3>3, KeptBy
  <2>4. ASSUME NEW g, SetGain(g)
        PROVE  Kept(s)
    BY <2>3, <2>4, GainWithin DEF SetGain
  <2>5. ASSUME NEW manual, SetGainMode(manual)
        PROVE  Kept(s)
    BY <2>3, <2>4, <2>5, GainWithin DEF SetGainMode
  <2>6. CASE SetGainExt(15, 15, 15)
    BY <2>3, <2>6, GainWithin DEF SetGainExt
  <2>7. ASSUME NEW w, SetFilter(w)
        PROVE  Kept(s)
    <3>1. PICK o \in Outcomes(FilterProgram(w)) : Run(shadow, chip, dirty, FilterProgram(w), o)
      BY <2>7 DEF SetFilter
    <3>2. call'.op = "filter"
      BY <2>7 DEF SetFilter, Called
    <3>3. Spares(FilterMasks, s)
      BY <1>1, <3>2, FilterSpares
    <3> QED
      BY <3>1, <3>3, FilterWithin, KeptBy
  <2>8. CASE Standby
    <3>1. call'.op = "standby"
      BY <2>8 DEF Standby, Called
    <3> QED
      BY <3>1
  <2>9. CASE Reopen
    <3>1. call'.op = "none"
      BY <2>9 DEF Reopen
    <3> QED
      BY <3>1
  <2> QED
    BY <2>1, <2>2, <2>4, <2>5, <2>6, <2>7, <2>8, <2>9 DEF Next
<1>3. Keeps <=> \A s \in DOMAIN Owned :
        call'.op \notin {s, "init", "standby", "none"} =>
          \A x \in Owned[s] :
            x[1] \in dirty \/ chip'[x[1]] \cap BitsOf[x[2]] = chip[x[1]] \cap BitsOf[x[2]]
  BY DEF Kept
<1> QED
  BY <1>2, <1>3, ShadowIsRight, PTL DEF Spec, SettingsKept
-----------------------------------------------------------------------------
(***************************************************************************)
(* What a program leaves, when all of its transfers succeed: after the last*)
(* one with these bits of r in its mask, r has v of them.                  *)
(***************************************************************************)
Sets(x, r, bits, v) == x[1] = r /\ bits \subseteq BitsOf[x[3]] /\ BitsOf[x[2]] \cap bits = v
Spared(x, r, bits)  == x[1] = r => BitsOf[x[3]] \cap bits = {}

Leaves(p, r, bits, v) ==
    \E j \in 1..Len(p) :
        Sets(p[j], r, bits, v) /\ \A i \in 1..Len(p) : i > j => Spared(p[i], r, bits)

LEMMA SparedBy ==
    ASSUME NEW p, NEW masks, Within(p, masks), NEW r, NEW bits, Misses(masks, r, bits)
    PROVE  \A i \in 1..Len(p) : Spared(p[i], r, bits)
<1> SUFFICES ASSUME NEW i \in 1..Len(p), p[i][1] = r
             PROVE  BitsOf[p[i][3]] \cap bits = {}
  BY DEF Spared
<1> DEFINE x == <<p[i][1], p[i][3]>>
<1>1. x \in masks
  BY IsFinite DEF Uses
<1>2. x[1] = p[i][1] /\ x[2] = p[i][3]
  OBVIOUS
<1> HIDE DEF x
<1> QED
  BY <1>1, <1>2 DEF Misses

LEMMA Joined ==
    ASSUME NEW p, IsProgram(p), NEW q, IsProgram(q)
    PROVE  /\ IsProgram(p \o q) /\ Len(p) \in Nat /\ Len(q) \in Nat /\ Len(p \o q) = Len(p) + Len(q)
           /\ \A i \in 1..Len(p) : (p \o q)[i] = p[i]
           /\ \A i \in 1..Len(q) : (p \o q)[Len(p) + i] = q[i]
<1>1. PICK S : p \in Seq(S)
  BY DEF IsProgram
<1>2. PICK T : q \in Seq(T)
  BY DEF IsProgram
<1>3. p \in Seq(S \cup T) /\ q \in Seq(S \cup T)
  BY <1>1, <1>2
<1>4. p \o q \in Seq(S \cup T)
  BY <1>3
<1> QED
  BY <1>3, <1>4 DEF IsProgram

LEMMA LeavesLast ==
    ASSUME NEW p, IsProgram(p), NEW q, IsProgram(q), NEW r, NEW bits, NEW v, Leaves(q, r, bits, v)
    PROVE  Leaves(p \o q, r, bits, v)
<1>1. PICK j \in 1..Len(q) :
        Sets(q[j], r, bits, v) /\ \A i \in 1..Len(q) : i > j => Spared(q[i], r, bits)
  BY DEF Leaves
<1> DEFINE pq == p \o q
           m  == Len(p)
           n  == Len(q)
           k  == m + j
<1>2. /\ m \in Nat /\ n \in Nat /\ Len(pq) = m + n
      /\ \A i \in 1..n : pq[m + i] = q[i]
  BY Joined
<1>3. \A i \in 1..n : i > j => Spared(q[i], r, bits)
  BY <1>1
<1>4. j \in 1..n /\ Sets(q[j], r, bits, v)
  BY <1>1
<1> HIDE DEF pq, m, n
<1>5. k \in 1..Len(pq) /\ Sets(pq[k], r, bits, v)
  BY <1>2, <1>4
<1>6. ASSUME NEW i \in 1..Len(pq), i > k
      PROVE  Spared(pq[i], r, bits)
  <2>1. i - m \in 1..n /\ i - m > j /\ m + (i - m) = i
    BY <1>2, <1>4, <1>6
  <2>2. Spared(q[i - m], r, bits) /\ pq[m + (i - m)] = q[i - m]
    BY <1>2, <1>3, <2>1
  <2> QED
    BY <2>1, <2>2
<1>7. Leaves(pq, r, bits, v)
  BY <1>5, <1>6 DEF Leaves
<1> QED
  BY <1>7 DEF pq

LEMMA LeavesFirst ==
    ASSUME NEW p, IsProgram(p), NEW q, NEW masks, Within(q, masks), NEW r, NEW bits, NEW v,
           Leaves(p, r, bits, v), Misses(masks, r, bits)
    PROVE  Leaves(p \o q, r, bits, v)
<1>1. PICK j \in 1..Len(p) :
        Sets(p[j], r, bits, v) /\ \A i \in 1..Len(p) : i > j => Spared(p[i], r, bits)
  BY DEF Leaves
<1> DEFINE pq == p \o q
           m  == Len(p)
           n  == Len(q)
<1>2. IsProgram(q) /\ \A i \in 1..n : Spared(q[i], r, bits)
  BY IsFinite, SparedBy
<1>3. /\ m \in Nat /\ n \in Nat /\ Len(pq) = m + n
      /\ \A i \in 1..m : pq[i] = p[i]
      /\ \A i \in 1..n : pq[m + i] = q[i]
  BY <1>2, Joined
<1>4. j \in 1..m /\ Sets(p[j], r, bits, v) /\ \A i \in 1..m : i > j => Spared(p[i], r, bits)
  BY <1>1
<1> HIDE DEF pq, m, n
<1>5. j \in 1..Len(pq) /\ Sets(pq[j], r, bits, v)
  BY <1>3, <1>4
<1>6. ASSUME NEW i \in 1..Len(pq), i > j
      PROVE  Spared(pq[i], r, bits)
  <2>1. CASE i \in 1..m
    BY <1>3, <1>4, <1>6, <2>1
  <2>2. CASE i \notin 1..m
    <3>1. i - m \in 1..n /\ m + (i - m) = i
      BY <1>3, <2>2
    <3>2. pq[m + (i - m)] = q[i - m] /\ Spared(q[i - m], r, bits)
      BY <1>2, <1>3, <3>1
    <3> QED
      BY <3>1, <3>2
  <2> QED
    BY <2>1, <2>2
<1>7. Leaves(pq, r, bits, v)
  BY <1>5, <1>6 DEF Leaves
<1> QED
  BY <1>7 DEF pq

LEMMA StoreLeaves ==
    ASSUME NEW base, NEW p, IsProgram(p), NEW r \in Regs, NEW bits, NEW v, Leaves(p, r, bits, v)
    PROVE  /\ Store(base, p, Len(p))[r] \cap bits = v
           /\ \E j \in 1..Len(p) : p[j][1] = r
<1>1. PICK j \in 1..Len(p) :
        Sets(p[j], r, bits, v) /\ \A i \in 1..Len(p) : i > j => Spared(p[i], r, bits)
  BY DEF Leaves
<1> DEFINE on == On(p, Len(p), r)
<1>2. Len(p) \in Nat
  BY DEF IsProgram
<1>3. j \in on /\ j \in Int /\ bits \subseteq BitsOf[p[j][3]] /\ BitsOf[p[j][2]] \cap bits = v
  BY <1>1, <1>2 DEF On, Sets
<1>4. \A i \in on : i \in Int /\ (i > j => BitsOf[p[i][3]] \cap bits = {})
  BY <1>1, <1>2 DEF On, Spared
<1>5. Store(base, p, Len(p))[r] = IF on = {} THEN base[r] ELSE Merged(base[r], p, on)
  BY DEF Store
<1> HIDE DEF on
<1>6. ASSUME NEW b \in bits
      PROVE  b \in Merged(base[r], p, on) <=> b \in BitsOf[p[j][2]]
  <2> DEFINE Mask(i)  == BitsOf[p[i][3]]
             later(i) == UNION {Mask(k) : k \in {k \in on : k > i}}
  <2>1. b \in Mask(j) /\ \A i \in on : i > j => b \notin Mask(i)
    BY <1>3, <1>4, <1>6
  <2>2. b \notin later(j)
    BY <2>1
  <2>3. \A i \in on : i < j => b \in later(i)
    BY <1>3, <1>4, <2>1
  <2>4. \A i \in on : b \in Mask(i) /\ b \notin later(i) => i = j
    BY <1>3, <1>4, <2>1, <2>3
  <2>5. b \notin base[r] \ UNION {Mask(i) : i \in on}
    BY <1>3, <2>1
  <2>6. Merged(base[r], p, on) = (base[r] \ UNION {Mask(i) : i \in on})
                                   \cup UNION {(BitsOf[p[i][2]] \cap Mask(i)) \ later(i) : i \in on}
    BY DEF Merged
  <2> HIDE DEF Mask, later
  <2>7. b \in Merged(base[r], p, on) <=> \E i \in on : b \in (BitsOf[p[i][2]] \cap Mask(i)) \ later(i)
    BY <2>5, <2>6
  <2> QED
    BY <1>3, <2>1, <2>2, <2>4, <2>7
<1>7. Merged(base[r], p, on) \cap bits = v
  BY <1>3, <1>6
<1> QED
  BY <1>1, <1>3, <1>5, <1>7 DEF Sets

LEMMA RunLeaves ==
    ASSUME NEW base, NEW regs, NEW lost, NEW p, IsProgram(p), NEW o, o = Done, Run(base, regs, lost, p, o),
           NEW r \in Regs, NEW bits, NEW v, Leaves(p, r, bits, v)
    PROVE  shadow'[r] \cap bits = v /\ chip'[r] \cap bits = v
<1> DEFINE now == Store(base, p, Len(p))
<1>1. now[r] \cap bits = v /\ \E j \in 1..Len(p) : p[j][1] = r
  BY StoreLeaves
<1>2. /\ shadow' = now
      /\ chip' = [s \in Regs |-> IF s \notin {p[j][1] : j \in 1..Len(p)} \cap Regs THEN regs[s] ELSE now[s]]
  BY DEF Run, Remember, Done
<1> HIDE DEF now
<1> QED
  BY <1>1, <1>2

-----------------------------------------------------------------------------
(***************************************************************************)
(* What the calls leave in the registers of their own settings.            *)
(***************************************************************************)
LEMMA SingleBits ==
    /\ {4} \subseteq BitsOf[\h10] /\ 4 \notin BitsOf[0] /\ BitsOf[0] = {}
    /\ BitsOf[\h0f] \cap {4} = {} /\ BitsOf[\h60] \cap {4} = {} /\ BitsOf[\h80] \cap {4} = {}
    /\ BitsOf[\h10] = {4}
    /\ \A n \in {0, \h0f, \h60, \h80} : BitsOf[n] \cap BitsOf[\h10] = {} /\ BitsOf[\h10] \cap BitsOf[n] = {}
<1>1. BitsOf[16] \in Byte /\ BitsOf[0] \in Byte
  BY BitsAre
<1>2. \A b \in BitsOf[16] : b = 4
  <2>1. 0 \notin BitsOf[16] /\ 1 \notin BitsOf[16] /\ 2 \notin BitsOf[16] /\ 3 \notin BitsOf[16]
    BY BitsAre
  <2>2. 5 \notin BitsOf[16] /\ 6 \notin BitsOf[16] /\ 7 \notin BitsOf[16]
    BY BitsAre
  <2> QED
    BY <1>1, <2>1, <2>2 DEF Byte
<1>3. BitsOf[0] = {}
  <2>1. 0 \notin BitsOf[0] /\ 1 \notin BitsOf[0] /\ 2 \notin BitsOf[0] /\ 3 \notin BitsOf[0]
    BY BitsAre
  <2>2. 4 \notin BitsOf[0] /\ 5 \notin BitsOf[0] /\ 6 \notin BitsOf[0] /\ 7 \notin BitsOf[0]
    BY BitsAre
  <2> QED
    BY <1>1, <2>1, <2>2 DEF Byte
<1>4. 4 \in BitsOf[16]
  BY BitsAre
<1>5. 4 \notin BitsOf[15] /\ 4 \notin BitsOf[96] /\ 4 \notin BitsOf[128]
  BY BitsAre
<1> QED
  BY <1>2, <1>3, <1>4, <1>5

\* The low half of a byte holds a small number.
LEMMA LowHalf ==
    ASSUME NEW n \in 0..15
    PROVE  BitsOf[n] \cap BitsOf[\h0f] = BitsOf[n]
<1>1. n \in 0..255 /\ n \div 16 = 0 /\ n \div 32 = 0 /\ n \div 64 = 0 /\ n \div 128 = 0
  OBVIOUS
<1>2. BitsOf[n] \in Byte
  BY <1>1, BitsAre
<1>3. 4 \notin BitsOf[n] /\ 5 \notin BitsOf[n] /\ 6 \notin BitsOf[n] /\ 7 \notin BitsOf[n]
  BY <1>1, BitsAre
<1>4. 0 \in BitsOf[15] /\ 1 \in BitsOf[15] /\ 2 \in BitsOf[15] /\ 3 \in BitsOf[15]
  BY BitsAre
<1>5. \A b \in BitsOf[n] : b \in BitsOf[15]
  BY <1>2, <1>3, <1>4 DEF Byte
<1> QED
  BY <1>5

LEMMA AutoLeaves ==
    /\ Leaves(AutoGain, \h05, BitsOf[\h10], {}) /\ Leaves(AutoGain, \h07, BitsOf[\h10], BitsOf[\h10])
<1>1. /\ Len(AutoGain) = 3
      /\ AutoGain[1] = <<\h05, 0, \h10>> /\ AutoGain[2] = <<\h07, \h10, \h10>> /\ AutoGain[3] = <<\h0c, \h0b, \h9f>>
  BY DEF AutoGain
<1>2. Leaves(AutoGain, \h05, BitsOf[\h10], {})
  <2>1. Sets(AutoGain[1], \h05, BitsOf[\h10], {})
    BY <1>1, SingleBits DEF Sets
  <2>2. \A i \in 1..3 : i > 1 => Spared(AutoGain[i], \h05, BitsOf[\h10])
    BY <1>1 DEF Spared
  <2> QED
    BY <1>1, <2>1, <2>2 DEF Leaves
<1>3. Leaves(AutoGain, \h07, BitsOf[\h10], BitsOf[\h10])
  <2>1. Sets(AutoGain[2], \h07, BitsOf[\h10], BitsOf[\h10])
    BY <1>1, SingleBits DEF Sets
  <2>2. \A i \in 1..3 : i > 2 => Spared(AutoGain[i], \h07, BitsOf[\h10])
    BY <1>1 DEF Spared
  <2> QED
    BY <1>1, <2>1, <2>2 DEF Leaves
<1> QED
  BY <1>2, <1>3

LEMMA ManualLeaves ==
    ASSUME NEW g \in Int
    PROVE  /\ Leaves(ManualGain(g), \h05, BitsOf[\h10], BitsOf[\h10]) /\ Leaves(ManualGain(g), \h07, BitsOf[\h10], {})
           /\ Leaves(ManualGain(g), \h05, BitsOf[\h0f], BitsOf[LnaIndex(Steps(g))])
           /\ Leaves(ManualGain(g), \h07, BitsOf[\h0f], BitsOf[MixIndex(Steps(g))])
<1> DEFINE p == ManualGain(g)
           l == LnaIndex(Steps(g))
           m == MixIndex(Steps(g))
<1>1. l \in 0..15 /\ m \in 0..15
  BY WalkStopsAtGain
<1>2. /\ Len(p) = 6
      /\ p[1] = <<\h05, \h10, \h10>> /\ p[2] = <<\h07, 0, \h10>> /\ p[3] = <<0, 0, 0>>
      /\ p[4] = <<\h0c, \h08, \h9f>> /\ p[5] = <<\h05, l, \h0f>> /\ p[6] = <<\h07, m, \h0f>>
  BY DEF ManualGain, Read
<1> HIDE DEF p, l, m
<1>3. Leaves(p, \h05, BitsOf[\h10], BitsOf[\h10])
  <2>1. Sets(p[1], \h05, BitsOf[\h10], BitsOf[\h10])
    BY <1>2, SingleBits DEF Sets
  <2>2. \A i \in 1..6 : i > 1 => Spared(p[i], \h05, BitsOf[\h10])
    BY <1>2, SingleBits DEF Spared
  <2> QED
    BY <1>2, <2>1, <2>2 DEF Leaves
<1>4. Leaves(p, \h07, BitsOf[\h10], {})
  <2>1. Sets(p[2], \h07, BitsOf[\h10], {})
    BY <1>2, SingleBits DEF Sets
  <2>2. \A i \in 1..6 : i > 2 => Spared(p[i], \h07, BitsOf[\h10])
    BY <1>2, SingleBits DEF Spared
  <2> QED
    BY <1>2, <2>1, <2>2 DEF Leaves
<1>5. Leaves(p, \h05, BitsOf[\h0f], BitsOf[l])
  <2>1. Sets(p[5], \h05, BitsOf[\h0f], BitsOf[l])
    BY <1>1, <1>2, LowHalf DEF Sets
  <2>2. \A i \in 1..6 : i > 5 => Spared(p[i], \h05, BitsOf[\h0f])
    BY <1>2 DEF Spared
  <2> QED
    BY <1>2, <2>1, <2>2 DEF Leaves
<1>6. Leaves(p, \h07, BitsOf[\h0f], BitsOf[m])
  <2>1. Sets(p[6], \h07, BitsOf[\h0f], BitsOf[m])
    BY <1>1, <1>2, LowHalf DEF Sets
  <2>2. \A i \in 1..6 : i > 6 => Spared(p[i], \h07, BitsOf[\h0f])
    OBVIOUS
  <2> QED
    BY <1>2, <2>1, <2>2 DEF Leaves
<1> QED
  BY <1>3, <1>4, <1>5, <1>6 DEF p, l, m

\* Register 0x0b: all but bit 4.
LEMMA AllButFour ==
    ASSUME NEW n \in 0..255, (n \div 16) % 2 = 0
    PROVE  BitsOf[n] \cap BitsOf[\hef] = BitsOf[n]
<1>1. BitsOf[n] \in Byte /\ 4 \notin BitsOf[n]
  BY BitsAre
<1>2. 0 \in BitsOf[239] /\ 1 \in BitsOf[239] /\ 2 \in BitsOf[239] /\ 3 \in BitsOf[239]
  BY BitsAre
<1>3. 5 \in BitsOf[239] /\ 6 \in BitsOf[239] /\ 7 \in BitsOf[239]
  BY BitsAre
<1>4. \A b \in BitsOf[n] : b \in BitsOf[239]
  BY <1>1, <1>2, <1>3 DEF Byte
<1> QED
  BY <1>4

LEMMA FilterLeaves ==
    ASSUME NEW w \in Nat
    PROVE  /\ Leaves(FilterProgram(w), \h0a, BitsOf[\h10], BitsOf[SetBandwidth(w).reg_0a])
           /\ Leaves(FilterProgram(w), \h0b, BitsOf[\hef], BitsOf[SetBandwidth(w).reg_0b])
<1> DEFINE p == FilterProgram(w)
           a == SetBandwidth(w).reg_0a
           b == SetBandwidth(w).reg_0b
<1>1. a \in {0, 16} /\ b \in 0..255 /\ (b \div 16) % 2 = 0
  BY FilterRegisters
<1>2. Len(p) = 2 /\ p[1] = <<\h0a, a, \h10>> /\ p[2] = <<\h0b, b, \hef>>
  BY DEF FilterProgram
<1> HIDE DEF p, a, b
<1>3. Leaves(p, \h0a, BitsOf[\h10], BitsOf[a])
  <2>1. Sets(p[1], \h0a, BitsOf[\h10], BitsOf[a])
    BY <1>1, <1>2, SingleBits DEF Sets
  <2>2. \A i \in 1..2 : i > 1 => Spared(p[i], \h0a, BitsOf[\h10])
    BY <1>2 DEF Spared
  <2> QED
    BY <1>2, <2>1, <2>2 DEF Leaves
<1>4. Leaves(p, \h0b, BitsOf[\hef], BitsOf[b])
  <2>1. Sets(p[2], \h0b, BitsOf[\hef], BitsOf[b])
    BY <1>1, <1>2, AllButFour DEF Sets
  <2>2. \A i \in 1..2 : i > 2 => Spared(p[i], \h0b, BitsOf[\hef])
    OBVIOUS
  <2> QED
    BY <1>2, <2>1, <2>2 DEF Leaves
<1> QED
  BY <1>3, <1>4 DEF p, a, b

\* The setup selects the input 0, and nothing else touches what AutoGain sets.
LEMMA InitLeavesInput ==
    ASSUME NEW fine, NEW tries
    PROVE  Leaves(TvStandard(fine, tries) \o SysfreqTop \o SysfreqRest, \h05, BitsOf[\h60], {})
<1> DEFINE before == TvStandard(fine, tries) \o SysfreqTop
<1>1. IsProgram(before) /\ IsProgram(SysfreqRest)
  <2>1. Within(before, InitMasks) /\ Within(SysfreqRest, InitMasks)
    BY TvWithin, SysfreqWithin, Concatenation
  <2> HIDE DEF before
  <2> QED
    BY <2>1, IsFinite
<1>2. Leaves(SysfreqRest, \h05, BitsOf[\h60], {})
  <2>1. /\ Len(SysfreqRest) = 13 /\ SysfreqRest[1] = <<\h05, \h00, \h60>>
        /\ \A i \in 1..13 : i > 1 => SysfreqRest[i][1] # \h05
    BY DEF SysfreqRest
  <2>2. Sets(SysfreqRest[1], \h05, BitsOf[\h60], {})
    BY <2>1, SingleBits DEF Sets
  <2>3. \A i \in 1..13 : i > 1 => Spared(SysfreqRest[i], \h05, BitsOf[\h60])
    BY <2>1 DEF Spared
  <2> QED
    BY <2>1, <2>2, <2>3 DEF Leaves
<1> HIDE DEF before
<1>3. Leaves(before \o SysfreqRest, \h05, BitsOf[\h60], {})
  BY <1>1, <1>2, LeavesLast
<1> QED
  BY <1>3 DEF before

LEMMA InitSpares == Misses(InitMasks, \h05, BitsOf[\h10]) /\ Misses(InitMasks, \h07, BitsOf[\h10])
<1>1. Misses(TuneMasks, \h05, BitsOf[\h10]) /\ Misses(TuneMasks, \h07, BitsOf[\h10])
  BY Elsewhere
<1>2. Misses(SwitchMasks, \h05, BitsOf[\h10]) /\ Misses(SwitchMasks, \h07, BitsOf[\h10])
  BY SingleBits DEF Misses, SwitchMasks
<1>3. Misses(RestMasks, \h05, BitsOf[\h10]) /\ Misses(RestMasks, \h07, BitsOf[\h10])
  BY DEF Misses, RestMasks
<1>4. Misses(StandardMasks, \h05, BitsOf[\h10]) /\ Misses(StandardMasks, \h07, BitsOf[\h10])
  BY SingleBits DEF Misses, StandardMasks
<1>5. Misses(TopMasks, \h05, BitsOf[\h10]) /\ Misses(TopMasks, \h07, BitsOf[\h10])
  BY DEF Misses, TopMasks
<1>6. Misses(HeadMasks, \h05, BitsOf[\h10]) /\ Misses(HeadMasks, \h07, BitsOf[\h10])
  BY DEF Misses, HeadMasks
<1> QED
  BY <1>1, <1>2, <1>3, <1>4, <1>5, <1>6 DEF Misses, InitMasks

\* A calibrated setup leaves the filter of 6 MHz, whatever code the chip answered.
LEMMA StandardLeaves ==
    ASSUME NEW code \in 0..15
    PROVE  /\ Leaves(Standard(code), \h0a, BitsOf[\h10], BitsOf[\h10])
           /\ Leaves(Standard(code), \h0b, BitsOf[\hef], BitsOf[\h6b])
<1> DEFINE p == Standard(code)
<1>1. /\ Len(p) = 9 /\ p[1] = <<\h0a, \h10 + code, \h1f>> /\ p[2] = <<\h0b, \h6b, \hef>>
      /\ \A i \in 1..9 : i > 1 => p[i][1] # \h0a
      /\ \A i \in 1..9 : i > 2 => p[i][1] # \h0b
  BY DEF Standard
<1> HIDE DEF p
<1>2. Leaves(p, \h0a, BitsOf[\h10], BitsOf[\h10])
  <2>1. 4 \in BitsOf[16 + code] /\ 4 \in BitsOf[31]
    <3>1. 16 + code \in 0..255 /\ ((16 + code) \div 16) % 2 = 1
      OBVIOUS
    <3> QED
      BY <3>1, BitsAre
  <2>2. Sets(p[1], \h0a, BitsOf[\h10], BitsOf[\h10])
    BY <1>1, <2>1, SingleBits DEF Sets
  <2>3. \A i \in 1..9 : i > 1 => Spared(p[i], \h0a, BitsOf[\h10])
    BY <1>1 DEF Spared
  <2> QED
    BY <1>1, <2>2, <2>3 DEF Leaves
<1>3. Leaves(p, \h0b, BitsOf[\hef], BitsOf[\h6b])
  <2>1. Sets(p[2], \h0b, BitsOf[\hef], BitsOf[\h6b])
    BY <1>1, AllButFour DEF Sets
  <2>2. \A i \in 1..9 : i > 2 => Spared(p[i], \h0b, BitsOf[\hef])
    BY <1>1 DEF Spared
  <2> QED
    BY <1>1, <2>1, <2>2 DEF Leaves
<1> QED
  BY <1>2, <1>3 DEF p

LEMMA InitLeavesFilter ==
    ASSUME NEW fine, NEW tries \in Tries, Calibrated(tries)
    PROVE  LET p == TvStandard(fine, tries) \o SysfreqTop \o SysfreqRest
           IN  /\ Leaves(p, \h0a, BitsOf[\h10], BitsOf[\h10])
               /\ Leaves(p, \h0b, BitsOf[\hef], BitsOf[\h6b])
<1> DEFINE second   == IF Len(tries) = 1 THEN <<>> ELSE Calibrate(fine, tries[2])
           before   == (TvHead \o Calibrate(fine, tries[1])) \o second
           standard == Standard(Code(tries))
           tv       == TvStandard(fine, tries)
<1>1. tv = before \o standard
  BY DEF TvStandard
<1>2. Code(tries) \in 0..15
  <2>1. Len(tries) \in 1..2 /\ \A i \in 1..Len(tries) : tries[i][2] \in 0..15
    BY TunerAssumption
  <2>2. Len(tries) \in 1..Len(tries)
    BY <2>1
  <2>3. tries[Len(tries)][2] \in 0..15
    BY <2>1, <2>2
  <2> QED
    BY <2>3 DEF Code
<1>3. /\ Leaves(standard, \h0a, BitsOf[\h10], BitsOf[\h10])
      /\ Leaves(standard, \h0b, BitsOf[\hef], BitsOf[\h6b])
  BY <1>2, StandardLeaves
<1>4. IsProgram(before) /\ IsProgram(standard) /\ IsProgram(tv) /\ IsProgram(tv \o SysfreqTop)
  <2>1. Within(TvHead, InitMasks) /\ Within(second, InitMasks)
    <3>1. Within(TvHead, HeadMasks)
      BY HeadWithin
    <3>2. Within(second, InitMasks)
      BY Listed0, CalibrateWithin
    <3> QED
      BY <3>1, <3>2, Wider DEF InitMasks
  <2>2. Within(Calibrate(fine, tries[1]), InitMasks) /\ Within(tv, InitMasks) /\ Within(SysfreqTop, InitMasks)
    BY CalibrateWithin, TvWithin, SysfreqWithin
  <2>3. Within(standard, StandardMasks)
    BY StandardWithin
  <2> HIDE DEF second, standard, tv
  <2>4. Within(TvHead \o Calibrate(fine, tries[1]), InitMasks)
    BY <2>1, <2>2, Concatenation
  <2>5. Within(before, InitMasks) /\ Within(tv \o SysfreqTop, InitMasks)
    BY <2>1, <2>2, <2>4, Concatenation
  <2> HIDE DEF before
  <2> QED
    BY <2>2, <2>3, <2>5, IsFinite
<1> HIDE DEF before, standard, tv
<1>5. \A bits : /\ Misses(TopMasks, \h0a, bits) /\ Misses(TopMasks, \h0b, bits)
                /\ Misses(RestMasks \cup SwitchMasks, \h0b, bits)
  BY DEF Misses, TopMasks, RestMasks, SwitchMasks
<1>6. Misses(RestMasks \cup SwitchMasks, \h0a, BitsOf[\h10])
  BY SingleBits DEF Misses, RestMasks, SwitchMasks
<1>7. ASSUME NEW r, NEW bits, NEW v, Leaves(standard, r, bits, v), Misses(TopMasks, r, bits),
             Misses(RestMasks \cup SwitchMasks, r, bits)
      PROVE  Leaves((tv \o SysfreqTop) \o SysfreqRest, r, bits, v)
  <2>1. Leaves(tv, r, bits, v)
    BY <1>1, <1>4, <1>7, LeavesLast
  <2>2. Leaves(tv \o SysfreqTop, r, bits, v)
    BY <1>4, <1>7, <2>1, LeavesFirst, SysfreqWithin
  <2> QED
    BY <1>4, <1>7, <2>2, LeavesFirst, SysfreqWithin
<1>8. /\ Leaves((tv \o SysfreqTop) \o SysfreqRest, \h0a, BitsOf[\h10], BitsOf[\h10])
      /\ Leaves((tv \o SysfreqTop) \o SysfreqRest, \h0b, BitsOf[\hef], BitsOf[\h6b])
  BY <1>3, <1>5, <1>6, <1>7
<1> QED
  BY <1>8 DEF tv

-----------------------------------------------------------------------------
(***************************************************************************)
(* Types.                                                                  *)
(***************************************************************************)
LEMMA RunTypes ==
    ASSUME NEW base \in [Regs -> Byte], NEW regs \in [Regs -> Byte], NEW lost, lost \subseteq Regs,
           NEW p, NEW masks, Within(p, masks), masks \subseteq AnyMask, NEW o \in Outcomes(p),
           Run(base, regs, lost, p, o)
    PROVE  shadow' \in [Regs -> Byte] /\ chip' \in [Regs -> Byte] /\ dirty' \subseteq Regs
<1>1. ASSUME NEW r \in Regs, NEW b, b \notin 0..7
      PROVE  b \notin shadow'[r] /\ b \notin chip'[r]
  <2>1. Misses(masks, r, {b})
    <3> SUFFICES ASSUME NEW x \in masks
                 PROVE  b \notin BitsOf[x[2]]
      BY DEF Misses
    <3>1. x[2] \in 0..255
      BY DEF AnyMask
    <3>2. BitsOf[x[2]] \in Byte
      BY <3>1, BitsAre
    <3> QED
      BY <1>1, <3>2 DEF Byte
  <2>2. base[r] \cap {b} = {} /\ regs[r] \cap {b} = {}
    BY <1>1 DEF Byte
  <2>3. shadow'[r] \cap {b} = base[r] \cap {b} /\ chip'[r] \cap {b} = regs[r] \cap {b}
    BY <2>1, <2>2, RunHolds
  <2> QED
    BY <2>2, <2>3
<1>2. \A r \in Regs : shadow'[r] \in Byte /\ chip'[r] \in Byte
  BY <1>1 DEF Byte
<1>3. shadow' = [r \in Regs |-> shadow'[r]] /\ chip' = [r \in Regs |-> chip'[r]]
  BY DEF Run, Remember, Store
<1>4. dirty' \subseteq Regs
  BY DEF Run
<1> QED
  BY <1>2, <1>3, <1>4

LEMMA CountFits ==
    ASSUME TypeOK, NEW p, NEW o \in Outcomes(p)
    PROVE  /\ faults + Count(o) \in 0..MaxFaults[rafael_chip]
           /\ o # Done => faults + 1 \in 0..MaxFaults[rafael_chip]
<1>1. MaxFaults[rafael_chip] \in Nat /\ faults \in 0..MaxFaults[rafael_chip]
  BY TunerAssumption DEF TypeOK
<1>2. CASE o = Done
  BY <1>1, <1>2 DEF Count
<1>3. CASE o # Done
  <2>1. faults # MaxFaults[rafael_chip]
    BY <1>3 DEF Outcomes, Failures
  <2> QED
    BY <1>1, <1>3, <2>1 DEF Count
<1> QED
  BY <1>2, <1>3

LEMMA CallFits ==
    ASSUME TypeOK, NEW op, NEW ok \in BOOLEAN, Called(op, ok)
    PROVE  calls' \in 0..MaxCalls /\ call'.ok \in BOOLEAN
<1>1. MaxCalls \in Nat
  BY TunerAssumption
<1> QED
  BY <1>1 DEF Called, TypeOK

LEMMA InitArrayFits == InitArray \in [Regs -> Byte]
<1>1. \A i \in DOMAIN InitValues : InitValues[i] \in 0..255
  BY DEF InitValues
<1>2. ASSUME NEW r \in Regs
      PROVE  BitsOf[IF r - 4 \in DOMAIN InitValues THEN InitValues[r - 4] ELSE 0] \in Byte
  <2> DEFINE v == IF r - 4 \in DOMAIN InitValues THEN InitValues[r - 4] ELSE 0
  <2>1. v \in 0..255
    BY <1>1
  <2> HIDE DEF v
  <2>2. BitsOf[v] \in Byte
    BY <2>1, BitsAre
  <2> QED
    BY <2>2 DEF v
<1> QED
  BY <1>2 DEF InitArray

\* What a setup of the tuner does with the program p.
InitRun(fine, tries, p, reached, o) ==
    /\ Called("init", o = Done)
    /\ Run(InitArray, AfterBurst(reached), NotReached(reached), p, o)
    /\ reached # Cardinality(Regs) =>
         faults < MaxFaults[rafael_chip] /\ (o # Done => faults + 1 < MaxFaults[rafael_chip])
    /\ int_freq' \in {int_freq, 3570} /\ input' \in {input, 0} /\ (init_done \in BOOLEAN => init_done' \in BOOLEAN)
    /\ o = Done => int_freq' = 3570 /\ input' = 0
    /\ awake' = TRUE /\ init_ok' = (o = Done)
    /\ faults' = faults + Count(o) + (IF reached = Cardinality(Regs) THEN 0 ELSE 1)
    /\ asked' =
         IF o # Done THEN [s \in Settings |-> NONE]
         ELSE [freq |-> NONE, input |-> [is |-> "input", at |-> 0], gain |-> [is |-> "auto"],
               filter |-> IF Calibrated(tries) THEN [is |-> "width", width |-> 6000] ELSE NONE]
    /\ UNCHANGED rafael_chip

LEMMA InitRuns ==
    ASSUME NEW fine, NEW tries, InitTuner(fine, tries)
    PROVE  LET p == TvStandard(fine, tries) \o SysfreqTop \o SysfreqRest
           IN  \E reached \in Bursts : \E o \in Outcomes(p) : InitRun(fine, tries, p, reached, o)
<1> DEFINE tv == TvStandard(fine, tries)
           p  == tv \o SysfreqTop \o SysfreqRest
<1>1. PICK reached \in Bursts :
        \E o \in {Done} \cup {x \in Failures(p) : reached = Cardinality(Regs) \/ faults + 1 < MaxFaults[rafael_chip]} :
            /\ Called("init", o = Done)
            /\ Run(InitArray, AfterBurst(reached), NotReached(reached), p, o)
            /\ int_freq' = IF FailsBy(o, Len(TvHead)) THEN int_freq ELSE 3570
            /\ input' = IF FailsBy(o, Len(tv) + Len(SysfreqTop)) THEN input ELSE 0
            /\ init_done' = (init_done \/ ~FailsBy(o, Len(tv)))
            /\ awake' = TRUE
            /\ init_ok' = (o = Done)
            /\ faults' = faults + Count(o) + (IF reached = Cardinality(Regs) THEN 0 ELSE 1)
            /\ asked' =
                 IF o # Done THEN [s \in Settings |-> NONE]
                 ELSE [freq |-> NONE, input |-> [is |-> "input", at |-> 0], gain |-> [is |-> "auto"],
                       filter |-> IF Calibrated(tries) THEN [is |-> "width", width |-> 6000] ELSE NONE]
            /\ UNCHANGED rafael_chip
  BY DEF InitTuner
<1>2. PICK o \in {Done} \cup {x \in Failures(p) : reached = Cardinality(Regs) \/ faults + 1 < MaxFaults[rafael_chip]} :
            /\ Called("init", o = Done)
            /\ Run(InitArray, AfterBurst(reached), NotReached(reached), p, o)
            /\ int_freq' = IF FailsBy(o, Len(TvHead)) THEN int_freq ELSE 3570
            /\ input' = IF FailsBy(o, Len(tv) + Len(SysfreqTop)) THEN input ELSE 0
            /\ init_done' = (init_done \/ ~FailsBy(o, Len(tv)))
            /\ awake' = TRUE
            /\ init_ok' = (o = Done)
            /\ faults' = faults + Count(o) + (IF reached = Cardinality(Regs) THEN 0 ELSE 1)
            /\ asked' =
                 IF o # Done THEN [s \in Settings |-> NONE]
                 ELSE [freq |-> NONE, input |-> [is |-> "input", at |-> 0], gain |-> [is |-> "auto"],
                       filter |-> IF Calibrated(tries) THEN [is |-> "width", width |-> 6000] ELSE NONE]
            /\ UNCHANGED rafael_chip
  BY <1>1
<1> HIDE DEF p, tv
<1>3. o \in Outcomes(p)
  BY DEF Outcomes
<1>4. reached # Cardinality(Regs) =>
        faults < MaxFaults[rafael_chip] /\ (o # Done => faults + 1 < MaxFaults[rafael_chip])
  BY DEF Bursts
<1>5. o = Done => ~FailsBy(o, Len(TvHead)) /\ ~FailsBy(o, Len(tv) + Len(SysfreqTop))
  BY DEF FailsBy
<1>6. int_freq' \in {int_freq, 3570} /\ input' \in {input, 0}
  BY <1>2
<1>7. o = Done => int_freq' = 3570 /\ input' = 0
  BY <1>2, <1>5
<1>8. InitRun(fine, tries, p, reached, o)
  BY <1>2, <1>4, <1>6, <1>7 DEF InitRun
<1> QED
  BY <1>3, <1>8 DEF p, tv

\* Every register stays a byte, the intermediate frequency stays in the range of
\* r82xx_set_bandwidth, and no more transfers fail than may.
THEOREM TunerTypes == Spec => []TypeOK
<1>0. [r \in Regs |-> {}] \in [Regs -> Byte] /\ [r \in Regs |-> 0..7] \in [Regs -> Byte]
  BY DEF Byte
<1>1. Init => TypeOK
  <2> SUFFICES ASSUME Init
               PROVE  TypeOK
    OBVIOUS
  <2>1. shadow \in [Regs -> Byte] /\ chip \in [Regs -> Byte] /\ dirty \subseteq Regs
    BY <1>0 DEF Init
  <2>2. MaxFaults[rafael_chip] \in Nat /\ MaxCalls \in Nat
    BY TunerAssumption DEF Init
  <2>3. faults \in 0..MaxFaults[rafael_chip] /\ calls \in 0..MaxCalls
    BY <2>2 DEF Init
  <2>4. DOMAIN asked = Settings /\ call.ok \in BOOLEAN
    BY DEF Init
  <2>5. rafael_chip \in Chips /\ int_freq \in 0..4570 /\ input \in {\h00, \h60}
    BY DEF Init
  <2>6. init_done \in BOOLEAN /\ awake \in BOOLEAN /\ init_ok \in BOOLEAN
    BY Zenon DEF Init
  <2> QED
    BY <2>1, <2>3, <2>4, <2>5, <2>6 DEF TypeOK
<1>2. TypeOK /\ [Next]_vars => TypeOK'
  <2> SUFFICES ASSUME TypeOK, [Next]_vars
               PROVE  TypeOK'
    OBVIOUS
  <2>1. ASSUME NEW fine, NEW tries, InitTuner(fine, tries)
        PROVE  TypeOK'
    <3> DEFINE p == TvStandard(fine, tries) \o SysfreqTop \o SysfreqRest
    <3>1. PICK reached \in Bursts, o \in Outcomes(p) : InitRun(fine, tries, p, reached, o)
      BY <2>1, InitRuns
    <3>2. Within(p, InitMasks) /\ InitMasks \subseteq AnyMask
      BY InitWithin, ByteMasks
    <3>4. AfterBurst(reached) \in [Regs -> Byte] /\ NotReached(reached) \subseteq Regs
      BY InitArrayFits DEF AfterBurst, NotReached, TypeOK
    <3> HIDE DEF p
    <3>5. shadow' \in [Regs -> Byte] /\ chip' \in [Regs -> Byte] /\ dirty' \subseteq Regs
      <4>1. Run(InitArray, AfterBurst(reached), NotReached(reached), p, o)
        BY <3>1 DEF InitRun
      <4> QED
        BY <3>2, <3>4, <4>1, InitArrayFits, RunTypes
    <3>6. DOMAIN asked' = Settings
      BY <3>1 DEF Settings, InitRun
    <3>7. faults' \in 0..MaxFaults[rafael_chip]
      <4>1. MaxFaults[rafael_chip] \in Nat /\ faults \in 0..MaxFaults[rafael_chip]
        BY TunerAssumption DEF TypeOK
      <4>2. faults + Count(o) \in 0..MaxFaults[rafael_chip]
        BY CountFits
      <4>3. CASE reached = Cardinality(Regs)
        BY <3>1, <4>2, <4>3 DEF InitRun
      <4>4. CASE reached # Cardinality(Regs)
        <5> DEFINE most == MaxFaults[rafael_chip]
                   c    == Count(o)
        <5>1. faults' = faults + c + 1 /\ c \in {0, 1} /\ (c = 1 => faults + 1 < most) /\ faults < most
          BY <3>1, <4>4 DEF InitRun, Count
        <5> HIDE DEF most, c
        <5>2. most \in Nat /\ faults \in 0..most
          BY <4>1 DEF most
        <5>3. faults' \in 0..most
          BY <5>1, <5>2
        <5> QED
          BY <5>3 DEF most
      <4> QED
        BY <4>3, <4>4
    <3>8. calls' \in 0..MaxCalls /\ call'.ok \in BOOLEAN
      <4>1. Called("init", o = Done) /\ (o = Done) \in BOOLEAN
        BY <3>1 DEF InitRun
      <4> QED
        BY <4>1, CallFits
    <3>9. int_freq' \in 0..4570 /\ input' \in {\h00, \h60}
      BY <3>1 DEF TypeOK, InitRun
    <3>10. init_done' \in BOOLEAN /\ awake' \in BOOLEAN /\ init_ok' \in BOOLEAN /\ rafael_chip' = rafael_chip
      BY <3>1 DEF TypeOK, InitRun
    <3> QED
      BY SMTT(20), <3>5, <3>6, <3>7, <3>8, <3>9, <3>10 DEF TypeOK
  <2>2. ASSUME NEW f, NEW fine, NEW lock, SetFreq(f, fine, lock)
        PROVE  TypeOK'
    <3> DEFINE lo   == LoFreq(f)
               tune == Mux(lo) \o Pll(lo, fine, lock)
               p    == tune \o (IF Valid(lo) /\ lock # 0 THEN InputSwitch(f) ELSE <<>>)
    <3>1. PICK o \in Outcomes(p) :
             /\ Called("freq", o = Done /\ Valid(lo))
             /\ Run(shadow, chip, dirty, p, o)
             /\ input' \in {input, InputOf(f)}
             /\ faults' = faults + Count(o)
             /\ DOMAIN asked' = DOMAIN asked
             /\ UNCHANGED <<rafael_chip, int_freq, init_done, awake, init_ok>>
      BY <2>2 DEF SetFreq
    <3>2. Within(p, TuneMasks \cup SwitchMasks) /\ TuneMasks \cup SwitchMasks \subseteq AnyMask
      BY FreqWithin, ByteMasks
    <3>3. shadow \in [Regs -> Byte] /\ chip \in [Regs -> Byte] /\ dirty \subseteq Regs
      BY DEF TypeOK
    <3> DEFINE ok == o = Done /\ Valid(lo)
    <3>4. ok \in BOOLEAN /\ Called("freq", ok)
      BY <3>1
    <3> HIDE DEF p, ok
    <3>5. shadow' \in [Regs -> Byte] /\ chip' \in [Regs -> Byte] /\ dirty' \subseteq Regs
      BY <3>1, <3>2, <3>3, RunTypes
    <3>6. faults' \in 0..MaxFaults[rafael_chip]
      BY <3>1, CountFits
    <3>7. calls' \in 0..MaxCalls /\ call'.ok \in BOOLEAN
      BY <3>4, CallFits
    <3>8. input' \in {\h00, \h60}
      BY <3>1 DEF TypeOK, InputOf
    <3> QED
      BY <3>1, <3>5, <3>6, <3>7, <3>8 DEF TypeOK
  <2>3. ASSUME NEW p, NEW what, Within(p, GainMasks), GainCall(p, what)
        PROVE  TypeOK'
    <3>1. PICK o \in Outcomes(p) :
             /\ Called("gain", o = Done)
             /\ Run(shadow, chip, dirty, p, o)
             /\ faults' = faults + Count(o)
             /\ DOMAIN asked' = DOMAIN asked
             /\ UNCHANGED <<rafael_chip, int_freq, input, init_done, awake, init_ok>>
      BY <2>3 DEF GainCall, Ask
    <3>2. shadow \in [Regs -> Byte] /\ chip \in [Regs -> Byte] /\ dirty \subseteq Regs
      BY DEF TypeOK
    <3>3. shadow' \in [Regs -> Byte] /\ chip' \in [Regs -> Byte] /\ dirty' \subseteq Regs
      BY <2>3, <3>1, <3>2, ByteMasks, RunTypes
    <3>4. faults' \in 0..MaxFaults[rafael_chip] /\ calls' \in 0..MaxCalls /\ call'.ok \in BOOLEAN
      BY <3>1, CountFits, CallFits
    <3> QED
      BY <3>1, <3>3, <3>4 DEF TypeOK
  <2>4. ASSUME NEW g, SetGain(g)
        PROVE  TypeOK'
    BY <2>3, <2>4, GainWithin DEF SetGain
  <2>5. ASSUME NEW manual, SetGainMode(manual)
        PROVE  TypeOK'
    BY <2>3, <2>4, <2>5, GainWithin DEF SetGainMode
  <2>6. CASE SetGainExt(15, 15, 15)
    BY <2>3, <2>6, GainWithin DEF SetGainExt
  <2>7. ASSUME NEW w \in Widths, SetFilter(w)
        PROVE  TypeOK'
    <3>1. PICK o \in Outcomes(FilterProgram(w)) :
             /\ Called("filter", o = Done)
             /\ Run(shadow, chip, dirty, FilterProgram(w), o)
             /\ int_freq' = SetBandwidth(w).int_freq
             /\ faults' = faults + Count(o)
             /\ DOMAIN asked' = DOMAIN asked
             /\ UNCHANGED <<rafael_chip, input, init_done, awake, init_ok>>
      BY <2>7 DEF SetFilter, Ask
    <3>2. shadow \in [Regs -> Byte] /\ chip \in [Regs -> Byte] /\ dirty \subseteq Regs
      BY DEF TypeOK
    <3>3. shadow' \in [Regs -> Byte] /\ chip' \in [Regs -> Byte] /\ dirty' \subseteq Regs
      BY <3>1, <3>2, FilterWithin, ByteMasks, RunTypes
    <3>4. faults' \in 0..MaxFaults[rafael_chip] /\ calls' \in 0..MaxCalls /\ call'.ok \in BOOLEAN
      BY <3>1, CountFits, CallFits
    <3>5. w \in Nat
      BY TunerAssumption
    <3>6. SetBandwidth(w).int_freq \in 1085..4570
      BY SMTT(20), <3>5, FilterFits
    <3>7. int_freq' \in 0..4570
      BY SMTT(20), <3>1, <3>6
    <3>8. rafael_chip' = rafael_chip /\ DOMAIN asked' = Settings /\ input' \in {\h00, \h60}
      BY <3>1 DEF TypeOK
    <3>9. init_done' \in BOOLEAN /\ awake' \in BOOLEAN /\ init_ok' \in BOOLEAN
      BY <3>1 DEF TypeOK
    <3> QED
      BY <3>3, <3>4, <3>7, <3>8, <3>9 DEF TypeOK
  <2>8. CASE Standby
    <3> DEFINE p == IF init_done THEN StandbyProgram ELSE <<>>
    <3>1. PICK o \in Outcomes(p) :
             /\ Called("standby", o = Done)
             /\ Run(shadow, chip, dirty, p, o)
             /\ awake' = FALSE
             /\ faults' = faults + Count(o)
             /\ asked' = [s \in Settings |-> NONE]
             /\ UNCHANGED <<rafael_chip, int_freq, input, init_done, init_ok>>
      BY <2>8 DEF Standby
    <3>2. Within(p, AnyMask)
      BY StandbyWithin, Listed0
    <3>3. shadow \in [Regs -> Byte] /\ chip \in [Regs -> Byte] /\ dirty \subseteq Regs
      BY DEF TypeOK
    <3> HIDE DEF p
    <3>4. shadow' \in [Regs -> Byte] /\ chip' \in [Regs -> Byte] /\ dirty' \subseteq Regs
      BY <3>1, <3>2, <3>3, RunTypes
    <3>5. faults' \in 0..MaxFaults[rafael_chip] /\ calls' \in 0..MaxCalls /\ call'.ok \in BOOLEAN
      BY <3>1, CountFits, CallFits
    <3>6. int_freq' \in 0..4570 /\ input' \in {\h00, \h60} /\ DOMAIN asked' = Settings
      BY <3>1 DEF TypeOK
    <3>7. init_done' \in BOOLEAN /\ awake' \in BOOLEAN /\ init_ok' \in BOOLEAN
      <4>1. init_done' = init_done /\ init_ok' = init_ok
        BY <3>1
      <4>2. awake' = FALSE
        BY <3>1, Zenon
      <4>3. init_done \in BOOLEAN /\ init_ok \in BOOLEAN
        BY DEF TypeOK
      <4>4. FALSE \in BOOLEAN
        OBVIOUS
      <4> QED
        BY <4>1, <4>2, <4>3, <4>4, Zenon
    <3>8. rafael_chip' \in Chips /\ faults' \in 0..MaxFaults[rafael_chip']
      BY <3>1, <3>5 DEF TypeOK
    <3> QED
      BY <3>4, <3>5, <3>6, <3>7, <3>8 DEF TypeOK
  <2>9. CASE Reopen
    <3>1. MaxFaults[rafael_chip] \in Nat /\ MaxCalls \in Nat
      BY TunerAssumption DEF TypeOK
    <3>2. faults' \in 0..MaxFaults[rafael_chip] /\ calls' \in 0..MaxCalls /\ call'.ok \in BOOLEAN
      BY <2>9, <3>1 DEF Reopen
    <3>3. shadow' \in [Regs -> Byte] /\ chip' \in [Regs -> Byte] /\ dirty' \subseteq Regs
      BY <1>0, <2>9 DEF Reopen
    <3>4. DOMAIN asked' = Settings /\ int_freq' \in 0..4570 /\ input' \in {\h00, \h60}
      BY <2>9 DEF Reopen
    <3>5. init_done' \in BOOLEAN /\ awake' \in BOOLEAN /\ init_ok' \in BOOLEAN
      BY <2>9 DEF Reopen
    <3>6. rafael_chip' \in Chips /\ faults' \in 0..MaxFaults[rafael_chip']
      BY <2>9, <3>2 DEF Reopen, TypeOK
    <3> QED
      BY <3>2, <3>3, <3>4, <3>5, <3>6 DEF TypeOK
  <2>10. CASE UNCHANGED vars
    BY <2>10 DEF vars, TypeOK
  <2> QED
    BY <2>1, <2>2, <2>4, <2>5, <2>6, <2>7, <2>8, <2>9, <2>10 DEF Next
<1> QED
  BY <1>1, <1>2, PTL DEF Spec
-----------------------------------------------------------------------------
(***************************************************************************)
(* The antenna input of an R828D.                                          *)
(***************************************************************************)
\* The driver's note of the input is what the shadow selects, from a setup that
\* succeeded to the next standby, and is what was last asked for.
Followed ==
    rafael_chip = "R828D" =>
        /\ asked["input"].is = "input" => awake /\ asked["input"].at = input
        /\ init_ok /\ awake => shadow[\h05] \cap BitsOf[\h60] = BitsOf[input]

LEMMA SwitchLeaves ==
    ASSUME NEW f, Switches(f)
    PROVE  /\ Len(InputSwitch(f)) = 1
           /\ Leaves(InputSwitch(f), \h05, BitsOf[\h60], BitsOf[InputOf(f)])
<1> DEFINE p == InputSwitch(f)
           v == InputOf(f)
<1>1. Len(p) = 1 /\ p[1] = <<\h05, v, \h60>>
  BY DEF InputSwitch
<1>2. BitsOf[v] \cap BitsOf[\h60] = BitsOf[v]
  BY SingleBits DEF InputOf
<1> HIDE DEF p, v
<1>3. Sets(p[1], \h05, BitsOf[\h60], BitsOf[v])
  BY <1>1, <1>2 DEF Sets
<1>4. \A i \in 1..1 : i > 1 => Spared(p[i], \h05, BitsOf[\h60])
  OBVIOUS
<1> QED
  BY <1>1, <1>3, <1>4 DEF Leaves, p, v

\* A call that tunes: the shadow changes the input with the note of it.
LEMMA TuningSwitches ==
    ASSUME NEW tune, Within(tune, TuneMasks), NEW switch, Within(switch, SwitchMasks),
           NEW o \in Outcomes(tune \o switch), Run(shadow, chip, dirty, tune \o switch, o),
           NEW to, switch = <<>> \/ (Len(switch) = 1 /\ Leaves(switch, \h05, BitsOf[\h60], BitsOf[to]))
    PROVE  IF Len(tune \o switch) > Len(tune) /\ ~FailsBy(o, Len(tune))
           THEN shadow'[\h05] \cap BitsOf[\h60] = BitsOf[to]
           ELSE shadow'[\h05] \cap BitsOf[\h60] = shadow[\h05] \cap BitsOf[\h60]
<1> DEFINE p    == tune \o switch
           n    == IF o = Done THEN Len(p) ELSE o.k
           bits == BitsOf[\h60]
<1>1. /\ IsProgram(tune) /\ IsProgram(switch) /\ IsProgram(p)
      /\ Len(tune) \in Nat /\ Len(switch) \in Nat /\ Len(p) = Len(tune) + Len(switch)
      /\ \A i \in 1..Len(tune) : p[i] = tune[i]
  BY IsFinite, Joined
<1>2. shadow' = Store(shadow, p, n)
  BY DEF Run, Remember
<1>3. \h05 \in Regs
  BY DEF Regs
<1>4. Misses(TuneMasks, \h05, bits)
  BY Elsewhere
<1>5. \A i \in 1..Len(tune) : Spared(tune[i], \h05, bits)
  BY <1>4, SparedBy
<1>6. o # Done => o.k \in 1..Len(p)
  BY DEF Outcomes, Failures
<1> HIDE DEF p, bits
<1>7. ASSUME n \in Int, n <= Len(tune)
      PROVE  shadow'[\h05] \cap bits = shadow[\h05] \cap bits
  <2>1. \A j \in 1..n : p[j][1] = \h05 => BitsOf[p[j][3]] \cap bits = {}
    BY <1>1, <1>5, <1>7 DEF Spared
  <2> HIDE DEF n
  <2> QED
    BY <1>2, <1>3, <2>1, BitsKept
<1>8. CASE Len(p) > Len(tune) /\ ~FailsBy(o, Len(tune))
  <2>1. Len(switch) = 1 /\ Leaves(switch, \h05, bits, BitsOf[to])
    BY <1>1, <1>8 DEF bits
  <2>2. n = Len(p)
    BY <1>1, <1>6, <1>8, <2>1 DEF FailsBy
  <2>3. Leaves(p, \h05, bits, BitsOf[to])
    BY <1>1, <2>1, LeavesLast DEF p
  <2>4. Store(shadow, p, Len(p))[\h05] \cap bits = BitsOf[to]
    <3> DEFINE v == BitsOf[to]
    <3>1. Leaves(p, \h05, bits, v)
      BY <2>3
    <3> HIDE DEF v
    <3>2. Store(shadow, p, Len(p))[\h05] \cap bits = v
      BY <1>1, <1>3, <3>1, StoreLeaves
    <3> QED
      BY <3>2 DEF v
  <2> QED
    BY <1>2, <1>8, <2>2, <2>4 DEF p, bits
<1>9. CASE ~(Len(p) > Len(tune) /\ ~FailsBy(o, Len(tune)))
  <2>1. n \in Int /\ n <= Len(tune)
    <3>1. CASE o = Done
      BY <1>1, <1>9, <3>1 DEF FailsBy
    <3>2. CASE o # Done
      <4>1. o.k \in Int /\ o.k <= Len(p) /\ n = o.k
        BY <1>1, <1>6, <3>2
      <4> QED
        BY <1>1, <1>9, <3>2, <4>1 DEF FailsBy
    <3> QED
      BY <3>1, <3>2
  <2> QED
    BY <1>7, <1>9, <2>1 DEF p, bits
<1> QED
  BY <1>8, <1>9

LEMMA FollowedKept ==
    ASSUME TypeOK, Followed, [Next]_vars
    PROVE  Followed'
<1> SUFFICES ASSUME rafael_chip' = "R828D"
             PROVE  /\ asked'["input"].is = "input" => awake' /\ asked'["input"].at = input'
                    /\ init_ok' /\ awake' => shadow'[\h05] \cap BitsOf[\h60] = BitsOf[input']
  BY DEF Followed
<1> DEFINE Selects(regs, in) == regs[\h05] \cap BitsOf[\h60] = BitsOf[in]
<1>0. /\ \h05 \in Regs /\ NONE.is # "input" /\ DOMAIN asked = Settings
  BY DEF Regs, NONE, TypeOK
<1>1. ASSUME rafael_chip' = rafael_chip
      PROVE  /\ asked["input"].is = "input" => awake /\ asked["input"].at = input
             /\ init_ok /\ awake => Selects(shadow, input)
  BY <1>1 DEF Followed
<1>2. ASSUME NEW fine, NEW tries, InitTuner(fine, tries)
      PROVE  Followed'
  <2> DEFINE p == TvStandard(fine, tries) \o SysfreqTop \o SysfreqRest
  <2>1. PICK reached \in Bursts, o \in Outcomes(p) : InitRun(fine, tries, p, reached, o)
    BY <1>2, InitRuns
  <2>2. IsProgram(p) /\ Leaves(p, \h05, BitsOf[\h60], {})
    BY InitWithin, InitLeavesInput, IsFinite
  <2> HIDE DEF p
  <2>3. CASE o = Done
    <3>1. Run(InitArray, AfterBurst(reached), NotReached(reached), p, o)
      BY <2>1 DEF InitRun
    <3>2. shadow'[\h05] \cap BitsOf[\h60] = {}
      BY <1>0, <2>2, <2>3, <3>1, RunLeaves
    <3>3. awake' = TRUE /\ input' = 0 /\ asked'["input"] = [is |-> "input", at |-> 0]
      BY <2>1, <2>3 DEF InitRun
    <3> QED
      BY <3>2, <3>3, SingleBits DEF Followed
  <2>4. CASE o # Done
    <3>1. ~init_ok'
      <4>1. init_ok' = (o = Done)
        BY <2>1 DEF InitRun
      <4> QED
        BY <2>4, <4>1
    <3>2. asked'["input"] = NONE
      BY <2>1, <2>4 DEF InitRun, Settings
    <3> QED
      BY <1>0, <3>1, <3>2 DEF Followed
  <2> QED
    BY <2>3, <2>4
<1>3. ASSUME NEW p, NEW masks, Within(p, masks), Misses(masks, \h05, BitsOf[\h60]),
             NEW o \in Outcomes(p), Run(shadow, chip, dirty, p, o), asked'["input"] = asked["input"],
             UNCHANGED <<rafael_chip, input, awake, init_ok>>
      PROVE  Followed'
  <2>1. shadow'[\h05] \cap BitsOf[\h60] = shadow[\h05] \cap BitsOf[\h60]
    BY SMTT(20), <1>0, <1>3, RunHolds
  <2> QED
    BY <1>1, <1>3, <2>1 DEF Followed
<1>4. ASSUME NEW f, NEW fine, NEW lock, SetFreq(f, fine, lock)
      PROVE  Followed'
  <2> DEFINE lo     == LoFreq(f)
             tune   == Mux(lo) \o Pll(lo, fine, lock)
             locked == Valid(lo) /\ lock # 0
             switch == IF locked THEN InputSwitch(f) ELSE <<>>
             to     == InputOf(f)
  <2>1. PICK o \in Outcomes(tune \o switch) :
           /\ awake
           /\ Run(shadow, chip, dirty, tune \o switch, o)
           /\ input' = IF Len(tune \o switch) > Len(tune) /\ ~FailsBy(o, Len(tune)) THEN to ELSE input
           /\ asked' = [asked EXCEPT
                !["freq"]  = IF o = Done /\ locked
                             THEN [is |-> "tuned", at |-> f + int_freq, fine |-> fine]
                             ELSE NONE,
                !["input"] = IF o = Done /\ locked THEN [is |-> "input", at |-> to] ELSE NONE]
           /\ UNCHANGED <<rafael_chip, awake, init_ok>>
    BY <1>4 DEF SetFreq
  <2>2. Within(tune, TuneMasks) /\ Within(switch, SwitchMasks)
    BY TuneWithin, SwitchWithin
  <2>3. switch = <<>> \/ (Len(switch) = 1 /\ Leaves(switch, \h05, BitsOf[\h60], BitsOf[to]))
    BY SwitchLeaves DEF InputSwitch
  <2>4. IF Len(tune \o switch) > Len(tune) /\ ~FailsBy(o, Len(tune))
        THEN shadow'[\h05] \cap BitsOf[\h60] = BitsOf[to]
        ELSE shadow'[\h05] \cap BitsOf[\h60] = shadow[\h05] \cap BitsOf[\h60]
    <3> HIDE DEF tune, switch, to
    <3> QED
      BY <2>1, <2>2, <2>3, TuningSwitches
  <2>5. rafael_chip = "R828D" /\ rafael_chip' = rafael_chip
    BY <2>1
  <2>6. init_ok' /\ awake' => Selects(shadow', input')
    BY <1>1, <2>1, <2>4, <2>5
  <2>7. asked'["input"] = IF o = Done /\ locked THEN [is |-> "input", at |-> to] ELSE NONE
    BY <1>0, <2>1 DEF Settings
  <2>8. o = Done /\ locked => input' = to
    <3>1. SUFFICES ASSUME o = Done, locked
                   PROVE  input' = to
      OBVIOUS
    <3>2. CASE Switches(f)
      <4>1. Len(switch) = 1
        BY <3>1, <3>2, SwitchLeaves
      <4>2. Len(tune) \in Nat /\ Len(tune \o switch) = Len(tune) + Len(switch)
        BY <2>2, IsFinite, Joined
      <4> HIDE DEF tune, switch
      <4>3. Len(tune \o switch) > Len(tune)
        BY <4>1, <4>2
      <4> QED
        BY <2>1, <3>1, <4>3 DEF FailsBy
    <3>3. CASE ~Switches(f)
      <4>1. input = to
        BY <2>5, <3>3 DEF Switches
      <4> QED
        BY <2>1, <4>1
    <3> QED
      BY <3>2, <3>3
  <2>9. asked'["input"].is = "input" => awake' /\ asked'["input"].at = input'
    <3> DEFINE done == o = Done /\ locked
    <3>1. awake'
      BY <2>1
    <3>2. CASE done
      <4>1. asked'["input"] = [is |-> "input", at |-> to]
        BY <2>7, <3>2
      <4> QED
        BY <2>8, <3>1, <3>2, <4>1
    <3>3. CASE ~done
      <4>1. asked'["input"] = NONE
        BY <2>7, <3>3
      <4> QED
        BY <1>0, <4>1
    <3> QED
      BY <3>2, <3>3
  <2> QED
    BY <2>6, <2>9 DEF Followed
<1>5. ASSUME NEW p, NEW what, Within(p, GainMasks), GainCall(p, what)
      PROVE  Followed'
  <2>1. PICK o \in Outcomes(p) :
           /\ Run(shadow, chip, dirty, p, o)
           /\ asked' = [asked EXCEPT !["gain"] = IF o = Done THEN what ELSE NONE]
           /\ UNCHANGED <<rafael_chip, input, awake, init_ok>>
    BY <1>5 DEF GainCall, Ask
  <2>2. asked'["input"] = asked["input"]
    BY <2>1
  <2> QED
    BY <1>3, <1>5, <2>1, <2>2, Shared
<1>6. ASSUME NEW g, SetGain(g)
      PROVE  Followed'
  BY <1>5, <1>6, GainWithin DEF SetGain
<1>7. ASSUME NEW manual, SetGainMode(manual)
      PROVE  Followed'
  BY <1>5, <1>6, <1>7, GainWithin DEF SetGainMode
<1>8. CASE SetGainExt(15, 15, 15)
  BY <1>5, <1>8, GainWithin DEF SetGainExt, Followed
<1>9. ASSUME NEW w, SetFilter(w)
      PROVE  Followed'
  <2>1. PICK o \in Outcomes(FilterProgram(w)) :
           /\ Run(shadow, chip, dirty, FilterProgram(w), o)
           /\ asked' = [asked EXCEPT !["filter"] = IF o = Done THEN [is |-> "width", width |-> w] ELSE NONE]
           /\ UNCHANGED <<rafael_chip, input, awake, init_ok>>
    BY <1>9 DEF SetFilter, Ask
  <2>2. asked'["input"] = asked["input"]
    BY <2>1
  <2>3. Misses(FilterMasks, \h05, BitsOf[\h60])
    BY <1>0, Elsewhere
  <2> QED
    BY <1>3, <2>1, <2>2, <2>3, FilterWithin
<1>10. CASE Standby
  <2>1. awake' = FALSE /\ asked' = [s \in Settings |-> NONE]
    BY <1>10 DEF Standby
  <2>2. asked'["input"] = NONE
    BY <2>1 DEF Settings
  <2> QED
    BY <1>0, <2>1, <2>2 DEF Followed
<1>11. CASE Reopen
  <2>1. awake' = FALSE /\ asked' = [s \in Settings |-> NONE]
    BY <1>11 DEF Reopen
  <2>2. asked'["input"] = NONE
    BY <2>1 DEF Settings
  <2> QED
    BY <1>0, <2>1, <2>2 DEF Followed
<1>12. CASE UNCHANGED vars
  BY <1>12 DEF vars, Followed
<1> QED
  BY <1>2, <1>4, <1>6, <1>7, <1>8, <1>9, <1>10, <1>11, <1>12 DEF Next, Followed

\* An R828D receives from the input of the frequency it was tuned to, unless the
\* last write of register 0x05 or the last setup failed (the antenna switch of
\* r82xx_set_freq, against r82xx_sysfreq_sel and the writes of the gain).
THEOREM InputIsFollowed == Spec => []InputFollows
<1>1. Init => Followed
  <2>1. NONE.is # "input"
    BY DEF NONE
  <2> QED
    BY <2>1 DEF Init, Followed, Settings
<1>2. TypeOK /\ Followed /\ [Next]_vars => Followed'
  BY FollowedKept
<1>3. TypeOK /\ Coherent /\ Followed => InputFollows
  <2> SUFFICES ASSUME TypeOK, Coherent, Followed, rafael_chip = "R828D", asked["input"].is = "input",
                      init_ok, \h05 \notin dirty
               PROVE  Value(chip[\h05] \cap BitsOf[\h60]) = asked["input"].at
    BY DEF InputFollows
  <2>1. shadow[\h05] \cap BitsOf[\h60] = BitsOf[input] /\ asked["input"].at = input
    BY DEF Followed
  <2>2. chip[\h05] = shadow[\h05]
    BY DEF Coherent, Regs
  <2>3. Value(BitsOf[input]) = input
    BY ValueOfByte DEF TypeOK
  <2> QED
    BY <2>1, <2>2, <2>3
<1> QED
  BY <1>1, <1>2, <1>3, TunerTypes, ShadowIsRight, PTL DEF Spec

-----------------------------------------------------------------------------
(***************************************************************************)
(* The filter.                                                             *)
(***************************************************************************)
\* The filter of the width w.
Narrowed(regs, w) ==
    /\ regs[\h0a] \cap BitsOf[\h10] = BitsOf[SetBandwidth(w).reg_0a]
    /\ regs[\h0b] \cap BitsOf[\hef] = BitsOf[SetBandwidth(w).reg_0b]

\* After a bandwidth or a setup that succeeded, shadow and chip have the filter,
\* and the driver its intermediate frequency.
Filtered ==
    asked["filter"].is = "width" =>
        /\ asked["filter"].width \in Nat
        /\ int_freq = SetBandwidth(asked["filter"].width).int_freq
        /\ Narrowed(shadow, asked["filter"].width) /\ Narrowed(chip, asked["filter"].width)

\* Bits that shadow and chip agree about and the program misses.
LEMMA StaysTheSame ==
    ASSUME NEW p, NEW masks, Within(p, masks), NEW o \in Outcomes(p), Run(shadow, chip, dirty, p, o),
           NEW r \in Regs, NEW bits, Misses(masks, r, bits)
    PROVE  \A v : shadow[r] \cap bits = v /\ chip[r] \cap bits = v
                 => shadow'[r] \cap bits = v /\ chip'[r] \cap bits = v
<1>1. /\ shadow'[r] \cap bits = shadow[r] \cap bits
      /\ shadow[r] \cap bits = chip[r] \cap bits => chip'[r] \cap bits = chip[r] \cap bits
  BY RunHolds
<1> QED
  BY <1>1

\* ... and those of the shadow.
LEMMA ShadowStays ==
    ASSUME NEW base, NEW regs, NEW lost, NEW p, NEW masks, Within(p, masks), NEW o \in Outcomes(p),
           Run(base, regs, lost, p, o), NEW r \in Regs, NEW bits, Misses(masks, r, bits)
    PROVE  \A v : base[r] \cap bits = v => shadow'[r] \cap bits = v
<1>1. shadow'[r] \cap bits = base[r] \cap bits
  BY SMTT(20), RunHolds
<1> QED
  BY <1>1

LEMMA FilterOf6MHz ==
    SetBandwidth(6000).int_freq = 3570 /\ SetBandwidth(6000).reg_0a = \h10 /\ SetBandwidth(6000).reg_0b = \h6b
BY DEF SetBandwidth, LowPass, HP1, HP2

LEMMA FilteredKept ==
    ASSUME TypeOK, Filtered, [Next]_vars
    PROVE  Filtered'
<1>0. /\ \h0a \in Regs /\ \h0b \in Regs /\ NONE.is # "width" /\ DOMAIN asked = Settings /\ "filter" \in Settings
  BY DEF Regs, NONE, TypeOK, Settings
<1>1. ASSUME asked'["filter"] = NONE
      PROVE  Filtered'
  BY <1>0, <1>1 DEF Filtered
<1>2. ASSUME NEW fine, NEW tries \in Tries, InitTuner(fine, tries)
      PROVE  Filtered'
  <2> DEFINE p == TvStandard(fine, tries) \o SysfreqTop \o SysfreqRest
  <2>1. PICK reached \in Bursts, o \in Outcomes(p) : InitRun(fine, tries, p, reached, o)
    BY <1>2, InitRuns
  <2>2. IsProgram(p)
    BY InitWithin, IsFinite
  <2>3. Calibrated(tries) => /\ Leaves(p, \h0a, BitsOf[\h10], BitsOf[\h10])
                             /\ Leaves(p, \h0b, BitsOf[\hef], BitsOf[\h6b])
    BY InitLeavesFilter
  <2> HIDE DEF p
  <2>4. CASE o = Done /\ Calibrated(tries)
    <3>1. Run(InitArray, AfterBurst(reached), NotReached(reached), p, o)
      BY <2>1 DEF InitRun
    <3>2. shadow'[\h0a] \cap BitsOf[\h10] = BitsOf[\h10] /\ chip'[\h0a] \cap BitsOf[\h10] = BitsOf[\h10]
      BY <1>0, <2>2, <2>3, <2>4, <3>1, RunLeaves
    <3>3. shadow'[\h0b] \cap BitsOf[\hef] = BitsOf[\h6b] /\ chip'[\h0b] \cap BitsOf[\hef] = BitsOf[\h6b]
      BY <1>0, <2>2, <2>3, <2>4, <3>1, RunLeaves
    <3>4. int_freq' = 3570 /\ asked'["filter"] = [is |-> "width", width |-> 6000]
      BY <2>1, <2>4 DEF InitRun
    <3> QED
      BY <3>2, <3>3, <3>4, FilterOf6MHz DEF Filtered, Narrowed
  <2>5. CASE ~(o = Done /\ Calibrated(tries))
    <3>1. asked'["filter"] = NONE
      BY <1>0, <2>1, <2>5 DEF InitRun
    <3> QED
      BY <1>1, <3>1
  <2> QED
    BY <2>4, <2>5
<1>3. ASSUME NEW p, NEW masks, Within(p, masks), NEW o \in Outcomes(p), Run(shadow, chip, dirty, p, o),
             Misses(masks, \h0a, BitsOf[\h10]), Misses(masks, \h0b, BitsOf[\hef]),
             asked'["filter"] = asked["filter"], UNCHANGED int_freq
      PROVE  Filtered'
  <2> SUFFICES ASSUME asked["filter"].is = "width"
               PROVE  Filtered'
    BY <1>3 DEF Filtered
  <2> DEFINE w == asked["filter"].width
             a == BitsOf[SetBandwidth(w).reg_0a]
             b == BitsOf[SetBandwidth(w).reg_0b]
  <2>1. w \in Nat /\ int_freq = SetBandwidth(w).int_freq
    BY DEF Filtered
  <2>2. /\ shadow[\h0a] \cap BitsOf[\h10] = a /\ chip[\h0a] \cap BitsOf[\h10] = a
        /\ shadow[\h0b] \cap BitsOf[\hef] = b /\ chip[\h0b] \cap BitsOf[\hef] = b
    BY DEF Filtered, Narrowed
  <2> HIDE DEF a, b
  <2>3. shadow'[\h0a] \cap BitsOf[\h10] = a /\ chip'[\h0a] \cap BitsOf[\h10] = a
    BY <1>0, <1>3, <2>2, StaysTheSame
  <2>4. shadow'[\h0b] \cap BitsOf[\hef] = b /\ chip'[\h0b] \cap BitsOf[\hef] = b
    BY <1>0, <1>3, <2>2, StaysTheSame
  <2> QED
    BY <1>3, <2>1, <2>3, <2>4 DEF Filtered, Narrowed, a, b
<1>4. ASSUME NEW f, NEW fine, NEW lock, SetFreq(f, fine, lock)
      PROVE  Filtered'
  <2> DEFINE lo   == LoFreq(f)
             tune == Mux(lo) \o Pll(lo, fine, lock)
             p    == tune \o (IF Valid(lo) /\ lock # 0 THEN InputSwitch(f) ELSE <<>>)
             masks == TuneMasks \cup SwitchMasks
  <2>1. PICK o \in Outcomes(p) :
           /\ Run(shadow, chip, dirty, p, o)
           /\ \E a, b : asked' = [asked EXCEPT !["freq"] = a, !["input"] = b]
           /\ UNCHANGED int_freq
    BY <1>4 DEF SetFreq
  <2>4. asked'["filter"] = asked["filter"]
    BY <1>0, <2>1
  <2>2. Within(p, masks)
    BY FreqWithin
  <2>3. Misses(masks, \h0a, BitsOf[\h10]) /\ Misses(masks, \h0b, BitsOf[\hef])
    BY Elsewhere, MissesBoth
  <2> HIDE DEF p, masks
  <2> QED
    BY <1>3, <2>1, <2>2, <2>3, <2>4
<1>5. ASSUME NEW p, NEW what, Within(p, GainMasks), GainCall(p, what)
      PROVE  Filtered'
  <2>1. PICK o \in Outcomes(p) :
           /\ Run(shadow, chip, dirty, p, o)
           /\ asked'["filter"] = asked["filter"]
           /\ UNCHANGED int_freq
    BY <1>5 DEF GainCall, Ask
  <2>2. Misses(GainMasks, \h0a, BitsOf[\h10]) /\ Misses(GainMasks, \h0b, BitsOf[\hef])
    BY <1>0, Elsewhere
  <2> QED
    BY <1>3, <1>5, <2>1, <2>2
<1>6. ASSUME NEW g, SetGain(g)
      PROVE  Filtered'
  BY <1>5, <1>6, GainWithin DEF SetGain
<1>7. ASSUME NEW manual, SetGainMode(manual)
      PROVE  Filtered'
  BY <1>5, <1>6, <1>7, GainWithin DEF SetGainMode
<1>8. CASE SetGainExt(15, 15, 15)
  BY <1>5, <1>8, GainWithin DEF SetGainExt
<1>9. ASSUME NEW w \in Widths, SetFilter(w)
      PROVE  Filtered'
  <2> DEFINE p == FilterProgram(w)
             a == BitsOf[SetBandwidth(w).reg_0a]
             b == BitsOf[SetBandwidth(w).reg_0b]
  <2>1. PICK o \in Outcomes(p) :
           /\ Run(shadow, chip, dirty, p, o)
           /\ asked' = [asked EXCEPT !["filter"] = IF o = Done THEN [is |-> "width", width |-> w] ELSE NONE]
           /\ int_freq' = SetBandwidth(w).int_freq
    BY <1>9 DEF SetFilter, Ask
  <2>2. w \in Nat
    BY TunerAssumption
  <2>3. Leaves(p, \h0a, BitsOf[\h10], a) /\ Leaves(p, \h0b, BitsOf[\hef], b) /\ IsProgram(p)
    BY <2>2, FilterLeaves, FilterWithin, IsFinite
  <2> HIDE DEF p, a, b
  <2>4. CASE o = Done
    <3>1. shadow'[\h0a] \cap BitsOf[\h10] = a /\ chip'[\h0a] \cap BitsOf[\h10] = a
      BY <1>0, <2>1, <2>3, <2>4, RunLeaves
    <3>2. shadow'[\h0b] \cap BitsOf[\hef] = b /\ chip'[\h0b] \cap BitsOf[\hef] = b
      BY <1>0, <2>1, <2>3, <2>4, RunLeaves
    <3>3. asked'["filter"] = [is |-> "width", width |-> w]
      BY <1>0, <2>1, <2>4
    <3>4. asked'["filter"].width = w
      BY <3>3
    <3> QED
      BY <2>1, <2>2, <3>1, <3>2, <3>4 DEF Filtered, Narrowed, a, b
  <2>5. CASE o # Done
    <3>1. asked'["filter"] = NONE
      BY <1>0, <2>1, <2>5
    <3> QED
      BY <1>1, <3>1
  <2> QED
    BY <2>4, <2>5
<1>10. CASE Standby
  <2>1. asked' = [s \in Settings |-> NONE]
    BY <1>10 DEF Standby
  <2> QED
    BY <1>0, <1>1, <2>1
<1>11. CASE Reopen
  <2>1. asked' = [s \in Settings |-> NONE]
    BY <1>11 DEF Reopen
  <2> QED
    BY <1>0, <1>1, <2>1
<1>12. CASE UNCHANGED vars
  BY <1>12 DEF vars, Filtered, Narrowed
<1> QED
  BY <1>2, <1>4, <1>6, <1>7, <1>8, <1>9, <1>10, <1>11, <1>12 DEF Next

\* The filter of the chip and the intermediate frequency that the driver tunes
\* with are those of the last bandwidth to succeed (r82xx_set_bandwidth) or of a
\* calibrated setup, whatever the calls in between, and their failures, write.
THEOREM FilterIsAsAsked == Spec => []FilterAsAsked
<1>1. Init => Filtered
  <2>1. NONE.is # "width"
    BY DEF NONE
  <2> QED
    BY <2>1 DEF Init, Filtered, Settings
<1>2. TypeOK /\ Filtered /\ [Next]_vars => Filtered'
  BY FilteredKept
<1>3. Filtered => FilterAsAsked
  BY DEF Filtered, Narrowed, FilterAsAsked
<1> QED
  BY <1>1, <1>2, <1>3, TunerTypes, PTL DEF Spec

-----------------------------------------------------------------------------
(***************************************************************************)
(* The amplifiers.                                                         *)
(***************************************************************************)
\* The amplifiers as a gain of g by hand sets them.
ByHand(regs, g) ==
    /\ regs[\h05] \cap BitsOf[\h10] = BitsOf[\h10] /\ regs[\h07] \cap BitsOf[\h10] = BitsOf[0]
    /\ regs[\h05] \cap BitsOf[\h0f] = BitsOf[LnaIndex(Steps(g))]
    /\ regs[\h07] \cap BitsOf[\h0f] = BitsOf[MixIndex(Steps(g))]

\* After a gain that succeeded shadow and chip have it, after a setup the shadow.
Amplified ==
    /\ asked["gain"].is = "auto" => shadow[\h05] \cap BitsOf[\h10] = BitsOf[0] /\ shadow[\h07] \cap BitsOf[\h10] = BitsOf[\h10]
    /\ asked["gain"].is = "manual" =>
         /\ asked["gain"].gain \in Int
         /\ ByHand(shadow, asked["gain"].gain) /\ ByHand(chip, asked["gain"].gain)

\* The setup writes both of these bits with the registers of r82xx_init_array.
LEMMA InitAmplifiers == InitArray[\h05] \cap BitsOf[\h10] = BitsOf[0] /\ InitArray[\h07] \cap BitsOf[\h10] = BitsOf[\h10]
<1>1. InitArray[\h05] = BitsOf[131] /\ InitArray[\h07] = BitsOf[117]
  BY DEF InitArray, InitValues, Regs
<1>2. 4 \notin BitsOf[131] /\ 4 \in BitsOf[117]
  BY BitsAre
<1>3. BitsOf[131] \cap {4} = {} /\ BitsOf[117] \cap {4} = {4}
  BY <1>2
<1> QED
  BY <1>1, <1>3, SingleBits

LEMMA AmplifiersSpared ==
    /\ Misses(TuneMasks \cup SwitchMasks, \h05, BitsOf[\h10]) /\ Misses(TuneMasks \cup SwitchMasks, \h07, BitsOf[\h10])
    /\ Misses(TuneMasks \cup SwitchMasks, \h05, BitsOf[\h0f])
    /\ Misses(TuneMasks \cup SwitchMasks, \h07, BitsOf[\h0f])
<1>1. \A bits : Misses(TuneMasks, \h05, bits) /\ Misses(TuneMasks, \h07, bits) /\ Misses(SwitchMasks, \h07, bits)
  BY Elsewhere
<1>2. Misses(SwitchMasks, \h05, BitsOf[\h10])
  BY SingleBits DEF Misses, SwitchMasks
<1>3. Misses(SwitchMasks, \h05, BitsOf[\h0f])
  BY MasksDiffer DEF Misses, SwitchMasks
<1> QED
  BY <1>1, <1>2, <1>3, MissesBoth

LEMMA AmplifiedKept ==
    ASSUME TypeOK, Amplified, [Next]_vars
    PROVE  Amplified'
<1>0. /\ \h05 \in Regs /\ \h07 \in Regs /\ DOMAIN asked = Settings /\ "gain" \in Settings
      /\ NONE.is # "auto" /\ NONE.is # "manual"
  BY DEF Regs, NONE, TypeOK, Settings
<1>1. ASSUME asked'["gain"] = NONE
      PROVE  Amplified'
  BY <1>0, <1>1 DEF Amplified
<1>2. ASSUME asked'["gain"] = [is |-> "auto"], shadow'[\h05] \cap BitsOf[\h10] = BitsOf[0], shadow'[\h07] \cap BitsOf[\h10] = BitsOf[\h10]
      PROVE  Amplified'
  BY <1>2 DEF Amplified
<1>3. ASSUME NEW fine, NEW tries, InitTuner(fine, tries)
      PROVE  Amplified'
  <2> DEFINE p == TvStandard(fine, tries) \o SysfreqTop \o SysfreqRest
  <2>1. PICK reached \in Bursts, o \in Outcomes(p) : InitRun(fine, tries, p, reached, o)
    BY <1>3, InitRuns
  <2>2. Within(p, InitMasks)
    BY InitWithin
  <2> HIDE DEF p
  <2>3. CASE o = Done
    <3>1. Run(InitArray, AfterBurst(reached), NotReached(reached), p, o)
      BY <2>1 DEF InitRun
    <3>2. shadow'[\h05] \cap BitsOf[\h10] = BitsOf[0]
      BY <1>0, <2>2, <3>1, InitSpares, InitAmplifiers, ShadowStays
    <3>4. shadow'[\h07] \cap BitsOf[\h10] = BitsOf[\h10]
      BY <1>0, <2>2, <3>1, InitSpares, InitAmplifiers, ShadowStays
    <3>3. asked'["gain"] = [is |-> "auto"]
      BY <2>1, <2>3 DEF InitRun
    <3> QED
      BY <1>2, <3>2, <3>3, <3>4
  <2>4. CASE o # Done
    <3>1. asked'["gain"] = NONE
      BY <1>0, <2>1, <2>4 DEF InitRun
    <3> QED
      BY <1>1, <3>1
  <2> QED
    BY <2>3, <2>4
<1>4. ASSUME NEW p, NEW masks, Within(p, masks), NEW o \in Outcomes(p), Run(shadow, chip, dirty, p, o),
             Misses(masks, \h05, BitsOf[\h10]), Misses(masks, \h07, BitsOf[\h10]),
             Misses(masks, \h05, BitsOf[\h0f]), Misses(masks, \h07, BitsOf[\h0f]),
             asked'["gain"] = asked["gain"]
      PROVE  Amplified'
  <2>2. CASE asked["gain"].is = "manual"
    <3> DEFINE g == asked["gain"].gain
               l == BitsOf[LnaIndex(Steps(g))]
               m == BitsOf[MixIndex(Steps(g))]
    <3>1. g \in Int /\ ByHand(shadow, g) /\ ByHand(chip, g)
      BY <2>2 DEF Amplified
    <3>2. /\ shadow[\h05] \cap BitsOf[\h10] = BitsOf[\h10] /\ chip[\h05] \cap BitsOf[\h10] = BitsOf[\h10]
          /\ shadow[\h07] \cap BitsOf[\h10] = BitsOf[0] /\ chip[\h07] \cap BitsOf[\h10] = BitsOf[0]
          /\ shadow[\h05] \cap BitsOf[\h0f] = l /\ chip[\h05] \cap BitsOf[\h0f] = l
          /\ shadow[\h07] \cap BitsOf[\h0f] = m /\ chip[\h07] \cap BitsOf[\h0f] = m
      BY <3>1 DEF ByHand
    <3> HIDE DEF l, m
    <3>3. /\ shadow'[\h05] \cap BitsOf[\h10] = BitsOf[\h10] /\ chip'[\h05] \cap BitsOf[\h10] = BitsOf[\h10]
          /\ shadow'[\h07] \cap BitsOf[\h10] = BitsOf[0] /\ chip'[\h07] \cap BitsOf[\h10] = BitsOf[0]
      BY SMTT(20), <1>0, <1>4, <3>2, StaysTheSame
    <3>4. /\ shadow'[\h05] \cap BitsOf[\h0f] = l /\ chip'[\h05] \cap BitsOf[\h0f] = l
          /\ shadow'[\h07] \cap BitsOf[\h0f] = m /\ chip'[\h07] \cap BitsOf[\h0f] = m
      BY SMTT(20), <1>0, <1>4, <3>2, StaysTheSame
    <3>5. ByHand(shadow', g) /\ ByHand(chip', g)
      BY <3>3, <3>4 DEF ByHand, l, m
    <3> QED
      BY <1>4, <2>2, <3>1, <3>5 DEF Amplified
  <2>3. CASE asked["gain"].is = "auto"
    <3>1. shadow[\h05] \cap BitsOf[\h10] = BitsOf[0] /\ shadow[\h07] \cap BitsOf[\h10] = BitsOf[\h10]
      BY <2>3 DEF Amplified
    <3>2. shadow'[\h05] \cap BitsOf[\h10] = BitsOf[0]
      BY <1>0, <1>4, <3>1, ShadowStays
    <3>3. shadow'[\h07] \cap BitsOf[\h10] = BitsOf[\h10]
      BY <1>0, <1>4, <3>1, ShadowStays
    <3> QED
      BY <1>4, <2>3, <3>2, <3>3 DEF Amplified
  <2>4. CASE asked["gain"].is \notin {"auto", "manual"}
    BY <1>4, <2>4 DEF Amplified
  <2> QED
    BY <2>2, <2>3, <2>4
<1>5. ASSUME NEW f, NEW fine, NEW lock, SetFreq(f, fine, lock)
      PROVE  Amplified'
  <2> DEFINE lo    == LoFreq(f)
             tune  == Mux(lo) \o Pll(lo, fine, lock)
             p     == tune \o (IF Valid(lo) /\ lock # 0 THEN InputSwitch(f) ELSE <<>>)
             masks == TuneMasks \cup SwitchMasks
  <2>1. PICK o \in Outcomes(p) :
           /\ Run(shadow, chip, dirty, p, o)
           /\ \E a, b : asked' = [asked EXCEPT !["freq"] = a, !["input"] = b]
    BY <1>5 DEF SetFreq
  <2>2. asked'["gain"] = asked["gain"]
    BY <1>0, <2>1
  <2>3. Within(p, masks)
    BY FreqWithin
  <2>4. /\ Misses(masks, \h05, BitsOf[\h10]) /\ Misses(masks, \h07, BitsOf[\h10])
        /\ Misses(masks, \h05, BitsOf[\h0f]) /\ Misses(masks, \h07, BitsOf[\h0f])
    BY AmplifiersSpared
  <2> HIDE DEF p, masks
  <2> QED
    BY <1>4, <2>1, <2>2, <2>3, <2>4
<1>6. ASSUME NEW g \in Int, SetGain(g)
      PROVE  Amplified'
  <2> DEFINE p == ManualGain(g)
             l == BitsOf[LnaIndex(Steps(g))]
             m == BitsOf[MixIndex(Steps(g))]
  <2>1. PICK o \in Outcomes(p) :
           /\ Run(shadow, chip, dirty, p, o)
           /\ asked' = [asked EXCEPT !["gain"] = IF o = Done THEN [is |-> "manual", gain |-> g] ELSE NONE]
    BY <1>6 DEF SetGain, GainCall, Ask
  <2>2. /\ Leaves(p, \h05, BitsOf[\h10], BitsOf[\h10]) /\ Leaves(p, \h07, BitsOf[\h10], BitsOf[0])
        /\ Leaves(p, \h05, BitsOf[\h0f], l) /\ Leaves(p, \h07, BitsOf[\h0f], m)
        /\ IsProgram(p)
    <3>1. BitsOf[0] = {}
      BY SingleBits
    <3>2. Within(p, GainMasks)
      BY GainWithin
    <3>3. IsProgram(p)
      BY <3>2, IsFinite
    <3>4. /\ Leaves(p, \h05, BitsOf[\h10], BitsOf[\h10]) /\ Leaves(p, \h07, BitsOf[\h10], {})
          /\ Leaves(p, \h05, BitsOf[\h0f], l) /\ Leaves(p, \h07, BitsOf[\h0f], m)
      BY ManualLeaves
    <3> QED
      BY <3>1, <3>3, <3>4
  <2> HIDE DEF p, l, m
  <2>3. CASE o = Done
    <3>1. /\ shadow'[\h05] \cap BitsOf[\h10] = BitsOf[\h10] /\ chip'[\h05] \cap BitsOf[\h10] = BitsOf[\h10]
          /\ shadow'[\h07] \cap BitsOf[\h10] = BitsOf[0] /\ chip'[\h07] \cap BitsOf[\h10] = BitsOf[0]
      BY <1>0, <2>1, <2>2, <2>3, RunLeaves
    <3>2. /\ shadow'[\h05] \cap BitsOf[\h0f] = l /\ chip'[\h05] \cap BitsOf[\h0f] = l
          /\ shadow'[\h07] \cap BitsOf[\h0f] = m /\ chip'[\h07] \cap BitsOf[\h0f] = m
      BY <1>0, <2>1, <2>2, <2>3, RunLeaves
    <3>3. ByHand(shadow', g) /\ ByHand(chip', g)
      BY <3>1, <3>2 DEF ByHand, l, m
    <3>4. asked'["gain"] = [is |-> "manual", gain |-> g]
      BY <1>0, <2>1, <2>3
    <3>5. asked'["gain"].is = "manual" /\ asked'["gain"].gain = g
      BY <3>4
    <3> QED
      BY <3>3, <3>5 DEF Amplified
  <2>4. CASE o # Done
    <3>1. asked'["gain"] = NONE
      BY <1>0, <2>1, <2>4
    <3> QED
      BY <1>1, <3>1
  <2> QED
    BY <2>3, <2>4
<1>7. ASSUME GainCall(AutoGain, [is |-> "auto"])
      PROVE  Amplified'
  <2> DEFINE p == AutoGain
  <2>1. PICK o \in Outcomes(p) :
           /\ Run(shadow, chip, dirty, p, o)
           /\ asked' = [asked EXCEPT !["gain"] = IF o = Done THEN [is |-> "auto"] ELSE NONE]
    BY <1>7 DEF GainCall, Ask
  <2>2. Leaves(p, \h05, BitsOf[\h10], BitsOf[0]) /\ Leaves(p, \h07, BitsOf[\h10], BitsOf[\h10]) /\ IsProgram(p)
    <3>1. BitsOf[0] = {}
      BY SingleBits
    <3>2. Within(p, GainMasks)
      BY GainWithin
    <3>3. IsProgram(p)
      BY <3>2, IsFinite
    <3> QED
      BY <3>1, <3>3, AutoLeaves
  <2> HIDE DEF p
  <2>3. CASE o = Done
    <3>1. shadow'[\h05] \cap BitsOf[\h10] = BitsOf[0] /\ shadow'[\h07] \cap BitsOf[\h10] = BitsOf[\h10]
      BY <1>0, <2>1, <2>2, <2>3, RunLeaves
    <3>2. asked'["gain"] = [is |-> "auto"]
      BY <1>0, <2>1, <2>3
    <3> QED
      BY <1>2, <3>1, <3>2
  <2>4. CASE o # Done
    <3>1. asked'["gain"] = NONE
      BY <1>0, <2>1, <2>4
    <3> QED
      BY <1>1, <3>1
  <2> QED
    BY <2>3, <2>4
<1>8. ASSUME NEW manual, SetGainMode(manual)
      PROVE  Amplified'
  BY <1>6, <1>7, <1>8 DEF SetGainMode
<1>9. ASSUME SetGainExt(15, 15, 15)
      PROVE  Amplified'
  <2>1. asked' = [asked EXCEPT !["gain"] = NONE]
    BY <1>9 DEF SetGainExt, GainCall, Ask
  <2> QED
    BY <1>0, <1>1, <2>1
<1>10. ASSUME NEW w, SetFilter(w)
      PROVE  Amplified'
  <2>1. PICK o \in Outcomes(FilterProgram(w)) :
           /\ Run(shadow, chip, dirty, FilterProgram(w), o)
           /\ \E a : asked' = [asked EXCEPT !["filter"] = a]
    BY <1>10 DEF SetFilter, Ask
  <2>2. asked'["gain"] = asked["gain"]
    BY <1>0, <2>1
  <2>3. /\ Misses(FilterMasks, \h05, BitsOf[\h10]) /\ Misses(FilterMasks, \h07, BitsOf[\h10])
        /\ Misses(FilterMasks, \h05, BitsOf[\h0f]) /\ Misses(FilterMasks, \h07, BitsOf[\h0f])
    BY <1>0, Elsewhere
  <2> QED
    BY <1>4, <2>1, <2>2, <2>3, FilterWithin
<1>11. ASSUME Standby
       PROVE  Amplified'
  <2>1. asked' = [s \in Settings |-> NONE]
    BY <1>11 DEF Standby
  <2> QED
    BY <1>0, <1>1, <2>1
<1>12. ASSUME Reopen
       PROVE  Amplified'
  <2>1. asked' = [s \in Settings |-> NONE]
    BY <1>12 DEF Reopen
  <2> QED
    BY <1>0, <1>1, <2>1
<1>13. CASE UNCHANGED vars
  BY <1>13 DEF vars, Amplified, ByHand
<1>14. \A g \in Gains : g \in Int
  BY TunerAssumption
<1> QED
  BY <1>3, <1>5, <1>6, <1>8, <1>9, <1>10, <1>11, <1>12, <1>13, <1>14 DEF Next

\* The amplifiers are those of the last gain that succeeded, or automatic: by
\* hand, no setting of the walk of r82xx_set_gain before theirs reaches the gain.
THEOREM GainIsAsAsked == Spec => []GainAsAsked
<1>1. Init => Amplified
  <2>1. NONE.is # "auto" /\ NONE.is # "manual"
    BY DEF NONE
  <2> QED
    BY <2>1 DEF Init, Amplified, Settings
<1>2. TypeOK /\ Amplified /\ [Next]_vars => Amplified'
  BY AmplifiedKept
<1>3. Coherent /\ Amplified => GainAsAsked
  <2> SUFFICES ASSUME Coherent, Amplified
               PROVE  GainAsAsked
    OBVIOUS
  <2> DEFINE l == Value(chip[\h05] \cap BitsOf[\h0f])
             m == Value(chip[\h07] \cap BitsOf[\h0f])
             g == asked["gain"].gain
  <2>1. ASSUME asked["gain"].is = "auto", {\h05, \h07} \cap dirty = {}
        PROVE  4 \notin chip[\h05] /\ 4 \in chip[\h07]
    <3>1. chip[\h05] = shadow[\h05] /\ chip[\h07] = shadow[\h07]
      BY <2>1 DEF Coherent, Regs
    <3> QED
      BY <2>1, <3>1, SingleBits DEF Amplified
  <2>2. ASSUME asked["gain"].is = "manual"
        PROVE  /\ 4 \in chip[\h05] /\ 4 \notin chip[\h07]
               /\ l - m \in 0..1
               /\ TotalGain(l, m) >= g \/ l + m = 30
               /\ l > m => TotalGain(m, m) < g
               /\ l = m /\ l > 0 => TotalGain(l, m - 1) < g
    <3>1. g \in Int /\ ByHand(chip, g)
      BY <2>2 DEF Amplified
    <3> DEFINE i == LnaIndex(Steps(g))
               j == MixIndex(Steps(g))
    <3>2. /\ i \in 0..15 /\ j \in 0..15 /\ i - j \in 0..1
          /\ TotalGain(i, j) >= g \/ i + j = 30
          /\ i > j => TotalGain(j, j) < g
          /\ i = j /\ i > 0 => TotalGain(i, j - 1) < g
      BY <3>1, WalkStopsAtGain
    <3>3. l = Value(BitsOf[i]) /\ m = Value(BitsOf[j])
      BY <3>1 DEF ByHand
    <3>4. 4 \in chip[\h05] /\ 4 \notin chip[\h07]
      BY <3>1, SingleBits DEF ByHand
    <3> HIDE DEF i, j, l, m, g
    <3>5. l = i /\ m = j
      BY <3>2, <3>3, ValueOfByte
    <3> QED
      BY <3>2, <3>4, <3>5
  <2> QED
    BY <2>1, <2>2 DEF GainAsAsked
<1> QED
  BY <1>1, <1>2, <1>3, TunerTypes, ShadowIsRight, PTL DEF Spec

-----------------------------------------------------------------------------
(***************************************************************************)
(* The frequency.                                                          *)
(***************************************************************************)
\* The range of a frequency.
LEMMA RangeIs ==
    ASSUME NEW lo \in Nat
    PROVE  RangeOf(lo)[2] \in {0, 8} /\ RangeOf(lo)[3] \in {\h02, \h40, \h41} /\ RangeOf(lo)[4] \in 0..255
<1> DEFINE S == {i \in DOMAIN freq_ranges : freq_ranges[i][1] <= lo \div 1000}
<1>1. DOMAIN freq_ranges = 1..21
  BY SMTT(20) DEF freq_ranges
<1>2. freq_ranges[1][1] = 0 /\ lo \div 1000 >= 0
  BY SMTT(20) DEF freq_ranges
<1>3. S \subseteq 1..21 /\ 1 \in S
  BY <1>1, <1>2, SMTT(20)
<1>4. RangeOf(lo) = freq_ranges[Max(S)]
  BY DEF RangeOf
<1> HIDE DEF S
<1>5. Max(S) \in 1..21
  <2> DEFINE T == {21 - i : i \in S}
  <2>1. T \subseteq Nat /\ T # {}
    BY <1>3
  <2> HIDE DEF T
  <2>2. \E m \in T : \A k \in T : m <= k
    BY <2>1, Least
  <2>3. PICK m \in T : \A k \in T : m <= k
    BY <2>2
  <2>4. PICK i \in S : m = 21 - i
    BY DEF T
  <2>5. \A j \in S : i >= j
    <3> TAKE j \in S
    <3>1. 21 - j \in T
      BY DEF T
    <3> QED
      BY <1>3, <2>3, <2>4, <3>1
  <2>6. Max(S) \in S
    BY <2>5 DEF Max
  <2> QED
    BY <1>3, <2>6
<1>6. \A i \in 1..21 : /\ freq_ranges[i][2] \in {0, 8} /\ freq_ranges[i][3] \in {\h02, \h40, \h41}
                       /\ freq_ranges[i][4] \in 0..255
  BY SMTT(60) DEF freq_ranges
<1> QED
  BY <1>4, <1>5, <1>6

\* What the parts of a tuning program leave: the divider, the numbers of the
\* synthesiser, the filters of the range.
LEMMA DividerLeaves ==
    ASSUME NEW lo, NEW fine
    PROVE  Leaves(PllDivider(lo, fine), \h10, BitsOf[\he0], BitsOf[32 * DivField(lo, fine)] \cap BitsOf[\he0])
<1> DEFINE p == PllDivider(lo, fine)
           v == 32 * DivField(lo, fine)
<1>1. Len(p) = 5 /\ p[5] = <<\h10, v, \he0>>
  BY DEF PllDivider
<1> HIDE DEF p, v
<1>2. Sets(p[5], \h10, BitsOf[\he0], BitsOf[v] \cap BitsOf[\he0])
  BY <1>1 DEF Sets
<1>3. \A i \in 1..5 : i > 5 => Spared(p[i], \h10, BitsOf[\he0])
  OBVIOUS
<1>4. Leaves(p, \h10, BitsOf[\he0], BitsOf[v] \cap BitsOf[\he0])
  BY <1>1, <1>2, <1>3 DEF Leaves
<1> QED
  BY <1>4 DEF p, v

LEMMA FractionLeaves ==
    ASSUME NEW lo
    PROVE  LET p   == PllFraction(lo)
               sdm == Sdm(VcoFra(lo, Xtal), Xtal)
               all == BitsOf[\hff]
           IN  /\ Leaves(p, \h14, all, BitsOf[NiSi(Nint(lo, Xtal))] \cap all)
               /\ Leaves(p, \h15, all, BitsOf[sdm % 256] \cap all)
               /\ Leaves(p, \h16, all, BitsOf[sdm \div 256] \cap all)
<1> DEFINE p   == PllFraction(lo)
           sdm == Sdm(VcoFra(lo, Xtal), Xtal)
           all == BitsOf[\hff]
           a   == NiSi(Nint(lo, Xtal))
           b   == sdm % 256
           c   == sdm \div 256
<1>1. /\ Len(p) = 4 /\ p[1] = <<\h14, a, \hff>> /\ p[3] = <<\h16, c, \hff>> /\ p[4] = <<\h15, b, \hff>>
      /\ p[2][1] = \h12
  BY DEF PllFraction, Write
<1> HIDE DEF p, a, b, c
<1>2. Leaves(p, \h14, all, BitsOf[a] \cap all)
  <2>1. Sets(p[1], \h14, all, BitsOf[a] \cap all)
    BY <1>1 DEF Sets
  <2>2. \A i \in 1..4 : i > 1 => Spared(p[i], \h14, all)
    BY <1>1 DEF Spared
  <2> QED
    BY <1>1, <2>1, <2>2 DEF Leaves
<1>3. Leaves(p, \h15, all, BitsOf[b] \cap all)
  <2>1. Sets(p[4], \h15, all, BitsOf[b] \cap all)
    BY <1>1 DEF Sets
  <2>2. \A i \in 1..4 : i > 4 => Spared(p[i], \h15, all)
    OBVIOUS
  <2> QED
    BY <1>1, <2>1, <2>2 DEF Leaves
<1>4. Leaves(p, \h16, all, BitsOf[c] \cap all)
  <2>1. Sets(p[3], \h16, all, BitsOf[c] \cap all)
    BY <1>1 DEF Sets
  <2>2. \A i \in 1..4 : i > 3 => Spared(p[i], \h16, all)
    BY <1>1 DEF Spared
  <2> QED
    BY <1>1, <2>1, <2>2 DEF Leaves
<1> QED
  BY <1>2, <1>3, <1>4 DEF p, a, b, c

LEMMA MuxLeaves ==
    ASSUME NEW lo
    PROVE  LET p     == Mux(lo)
               range == RangeOf(lo)
           IN  /\ Leaves(p, \h17, BitsOf[\h08], BitsOf[range[2]] \cap BitsOf[\h08])
               /\ Leaves(p, \h1a, BitsOf[\hc3], BitsOf[range[3]] \cap BitsOf[\hc3])
               /\ Leaves(p, \h1b, BitsOf[\hff], BitsOf[range[4]] \cap BitsOf[\hff])
<1> DEFINE p == Mux(lo)
           a == RangeOf(lo)[2]
           b == RangeOf(lo)[3]
           c == RangeOf(lo)[4]
<1>1. /\ Len(p) = 6 /\ p[1] = <<\h17, a, \h08>> /\ p[2] = <<\h1a, b, \hc3>> /\ p[3] = <<\h1b, c, \hff>>
      /\ p[4][1] = \h10 /\ p[5][1] = \h08 /\ p[6][1] = \h09
  BY DEF Mux, Write
<1> HIDE DEF p, a, b, c
<1>2. Leaves(p, \h17, BitsOf[\h08], BitsOf[a] \cap BitsOf[\h08])
  <2>1. Sets(p[1], \h17, BitsOf[\h08], BitsOf[a] \cap BitsOf[\h08])
    BY <1>1 DEF Sets
  <2>2. \A i \in 1..6 : i > 1 => Spared(p[i], \h17, BitsOf[\h08])
    BY <1>1 DEF Spared
  <2> QED
    BY <1>1, <2>1, <2>2 DEF Leaves
<1>3. Leaves(p, \h1a, BitsOf[\hc3], BitsOf[b] \cap BitsOf[\hc3])
  <2>1. Sets(p[2], \h1a, BitsOf[\hc3], BitsOf[b] \cap BitsOf[\hc3])
    BY <1>1 DEF Sets
  <2>2. \A i \in 1..6 : i > 2 => Spared(p[i], \h1a, BitsOf[\hc3])
    BY <1>1 DEF Spared
  <2> QED
    BY <1>1, <2>1, <2>2 DEF Leaves
<1>4. Leaves(p, \h1b, BitsOf[\hff], BitsOf[c] \cap BitsOf[\hff])
  <2>1. Sets(p[3], \h1b, BitsOf[\hff], BitsOf[c] \cap BitsOf[\hff])
    BY <1>1 DEF Sets
  <2>2. \A i \in 1..6 : i > 3 => Spared(p[i], \h1b, BitsOf[\hff])
    BY <1>1 DEF Spared
  <2> QED
    BY <1>1, <2>1, <2>2 DEF Leaves
<1> QED
  BY <1>2, <1>3, <1>4 DEF p, a, b, c

\* What tuning to lo leaves in the registers of the frequency.
TunedTo(lo, fine, xtal) ==
    { <<\h10, \he0, 32 * DivField(lo, fine)>>, <<\h14, \hff, NiSi(Nint(lo, xtal))>>,
      <<\h15, \hff, Sdm(VcoFra(lo, xtal), xtal) % 256>>, <<\h16, \hff, Sdm(VcoFra(lo, xtal), xtal) \div 256>>,
      <<\h17, \h08, RangeOf(lo)[2]>>, <<\h1a, \hc3, RangeOf(lo)[3]>>, <<\h1b, \hff, RangeOf(lo)[4]>> }

LEMMA PllMisses ==
    /\ \A bits : \A r \in {\h17, \h1b} : Misses(DividerMasks, r, bits) /\ Misses(FractionMasks, r, bits)
                                           /\ Misses(LockMasks, r, bits)
    /\ Misses(DividerMasks, \h1a, BitsOf[\hc3]) /\ Misses(FractionMasks, \h1a, BitsOf[\hc3])
    /\ Misses(LockMasks, \h1a, BitsOf[\hc3])
    /\ \A bits : \A r \in {\h10, \h14, \h15, \h16} : Misses(LockMasks, r, bits)
    /\ \A bits : Misses(FractionMasks, \h10, bits)
    /\ \A bits : \A r \in {\h10, \h14, \h15, \h16, \h17, \h1a, \h1b} : Misses(SwitchMasks, r, bits)
<1>1. BitsOf[\h0c] \cap BitsOf[\hc3] = {} /\ BitsOf[\h08] \cap BitsOf[\hc3] = {}
  <2>1. 2 \notin BitsOf[195] /\ 3 \notin BitsOf[195]
    BY BitsAre
  <2>2. 0 \notin BitsOf[12] /\ 1 \notin BitsOf[12] /\ 4 \notin BitsOf[12] /\ 5 \notin BitsOf[12]
    BY BitsAre
  <2>3. 6 \notin BitsOf[12] /\ 7 \notin BitsOf[12]
    BY BitsAre
  <2>4. 0 \notin BitsOf[8] /\ 1 \notin BitsOf[8] /\ 4 \notin BitsOf[8] /\ 5 \notin BitsOf[8]
    BY BitsAre
  <2>5. 6 \notin BitsOf[8] /\ 7 \notin BitsOf[8]
    BY BitsAre
  <2>6. BitsOf[12] \in Byte /\ BitsOf[8] \in Byte
    BY BitsAre
  <2> QED
    BY <2>1, <2>2, <2>3, <2>4, <2>5, <2>6 DEF Byte
<1>2. Misses(DividerMasks, \h1a, BitsOf[\hc3])
  BY <1>1 DEF Misses, DividerMasks
<1>3. Misses(LockMasks, \h1a, BitsOf[\hc3])
  BY <1>1 DEF Misses, LockMasks
<1>4. \A bits : \A r \in {\h17, \h1b} : Misses(DividerMasks, r, bits)
  BY DEF Misses, DividerMasks
<1>5. \A bits : \A r \in {\h10, \h17, \h1a, \h1b} : Misses(FractionMasks, r, bits)
  BY DEF Misses, FractionMasks
<1>6. \A bits : \A r \in {\h10, \h14, \h15, \h16, \h17, \h1b} : Misses(LockMasks, r, bits)
  BY DEF Misses, LockMasks
<1>7. \A bits : \A r \in {\h10, \h14, \h15, \h16, \h17, \h1a, \h1b} : Misses(SwitchMasks, r, bits)
  BY DEF Misses, SwitchMasks
<1> QED
  BY <1>2, <1>3, <1>4, <1>5, <1>6, <1>7

LEMMA TuningLeaves ==
    ASSUME NEW lo, NEW fine, NEW lock, Valid(lo), NEW q, Within(q, SwitchMasks), NEW x \in TunedTo(lo, fine, Xtal)
    PROVE  Leaves((Mux(lo) \o Pll(lo, fine, lock)) \o q, x[1], BitsOf[x[2]], BitsOf[x[3]] \cap BitsOf[x[2]])
<1> DEFINE mux  == Mux(lo)
           div  == PllDivider(lo, fine)
           frac == PllFraction(lo)
           lk   == PllLock(lock)
           pll  == Pll(lo, fine, lock)
           LeftBy(p, y) == Leaves(p, y[1], BitsOf[y[2]], BitsOf[y[3]] \cap BitsOf[y[2]])
<1>1. pll = div \o (frac \o lk)
  BY DEF Pll
<1>2. Within(div, DividerMasks) /\ Within(frac, FractionMasks) /\ Within(lk, LockMasks)
  BY DividerWithin, FractionWithin, LockWithin
<1>3. Within(frac \o lk, FractionMasks \cup LockMasks)
  <2>1. Within(frac, FractionMasks \cup LockMasks) /\ Within(lk, FractionMasks \cup LockMasks)
    BY <1>2, Wider
  <2> HIDE DEF frac, lk
  <2> QED
    BY <2>1, Concatenation
<1>4. Within(pll, DividerMasks \cup FractionMasks \cup LockMasks)
  <2>1. Within(div, (DividerMasks \cup FractionMasks \cup LockMasks))
    BY <1>2, Wider
  <2>2. Within(frac \o lk, DividerMasks \cup FractionMasks \cup LockMasks)
    <3> HIDE DEF frac, lk
    <3> QED
      BY <1>3, Wider
  <2> HIDE DEF div, frac, lk, pll
  <2> QED
    BY <1>1, <2>1, <2>2, Concatenation
<1>5. Within(mux \o pll, TuneMasks)
  BY TuneWithin
<1>6. IsProgram(mux)
  <2>1. \E S : mux \in Seq(S)
    <3> DEFINE T == {mux[1], mux[2], mux[3], mux[4], mux[5], mux[6]}
    <3>1. mux \in Seq(T)
      BY DEF Mux
    <3> HIDE DEF T
    <3> QED
      BY <3>1
  <2> QED
    BY <2>1 DEF IsProgram
<1>7. IsProgram(div) /\ IsProgram(frac) /\ IsProgram(lk) /\ IsProgram(pll) /\ IsProgram(frac \o lk) /\ IsProgram(mux \o pll)
  <2> HIDE DEF mux, div, frac, lk, pll
  <2> QED
    BY <1>2, <1>3, <1>4, <1>5, IsFinite
<1>8. \A y \in TunedTo(lo, fine, Xtal) : Misses(SwitchMasks, y[1], BitsOf[y[2]])
  BY PllMisses DEF TunedTo
<1>9. ASSUME NEW y \in TunedTo(lo, fine, Xtal), LeftBy(mux \o pll, y)
      PROVE  LeftBy((mux \o pll) \o q, y)
  <2> HIDE DEF mux, pll
  <2> QED
    BY <1>7, <1>8, <1>9, LeavesFirst
<1>10. ASSUME NEW y, LeftBy(pll, y)
       PROVE  LeftBy(mux \o pll, y)
  <2> HIDE DEF mux, pll
  <2> QED
    BY <1>6, <1>7, <1>10, LeavesLast
<1>11. ASSUME NEW y, LeftBy(mux, y), Misses(DividerMasks, y[1], BitsOf[y[2]]),
              Misses(FractionMasks, y[1], BitsOf[y[2]]), Misses(LockMasks, y[1], BitsOf[y[2]])
       PROVE  LeftBy(mux \o pll, y)
  <2>1. Misses(DividerMasks \cup FractionMasks \cup LockMasks, y[1], BitsOf[y[2]])
    BY <1>11, MissesBoth
  <2> HIDE DEF mux, pll
  <2> QED
    BY <1>4, <1>6, <1>11, <2>1, LeavesFirst
<1>12. ASSUME NEW y, LeftBy(div, y), Misses(FractionMasks, y[1], BitsOf[y[2]]), Misses(LockMasks, y[1], BitsOf[y[2]])
       PROVE  LeftBy(pll, y)
  <2>1. Misses(FractionMasks \cup LockMasks, y[1], BitsOf[y[2]])
    BY <1>12, MissesBoth
  <2> HIDE DEF div, frac, lk, pll
  <2> QED
    BY <1>1, <1>3, <1>7, <1>12, <2>1, LeavesFirst
<1>13. ASSUME NEW y, LeftBy(frac, y), Misses(LockMasks, y[1], BitsOf[y[2]])
       PROVE  LeftBy(pll, y)
  <2>1. LeftBy(frac \o lk, y)
    <3> HIDE DEF frac, lk
    <3> QED
      BY <1>2, <1>7, <1>13, LeavesFirst
  <2> HIDE DEF div, frac, lk, pll
  <2> QED
    BY <1>1, <1>7, <2>1, LeavesLast
<1>14. CASE x = <<\h10, \he0, 32 * DivField(lo, fine)>>
  <2>1. LeftBy(div, x)
    BY <1>14, DividerLeaves
  <2>2. Misses(FractionMasks, x[1], BitsOf[x[2]]) /\ Misses(LockMasks, x[1], BitsOf[x[2]])
    BY <1>14, PllMisses
  <2> HIDE DEF mux, div, pll, LeftBy
  <2> QED
    BY <1>9, <1>10, <1>12, <2>1, <2>2 DEF LeftBy, mux, pll
<1>15. CASE x \in {<<\h14, \hff, NiSi(Nint(lo, Xtal))>>, <<\h15, \hff, Sdm(VcoFra(lo, Xtal), Xtal) % 256>>,
                   <<\h16, \hff, Sdm(VcoFra(lo, Xtal), Xtal) \div 256>>}
  <2>1. LeftBy(frac, x)
    <3>1. LeftBy(frac, <<\h14, \hff, NiSi(Nint(lo, Xtal))>>)
      BY FractionLeaves
    <3>2. LeftBy(frac, <<\h15, \hff, Sdm(VcoFra(lo, Xtal), Xtal) % 256>>)
      BY FractionLeaves
    <3>3. LeftBy(frac, <<\h16, \hff, Sdm(VcoFra(lo, Xtal), Xtal) \div 256>>)
      BY FractionLeaves
    <3> HIDE DEF LeftBy, frac
    <3> QED
      BY <1>15, <3>1, <3>2, <3>3, Zenon
  <2>2. Misses(LockMasks, x[1], BitsOf[x[2]])
    BY <1>15, PllMisses
  <2> HIDE DEF mux, frac, pll, LeftBy
  <2> QED
    BY <1>9, <1>10, <1>13, <2>1, <2>2 DEF LeftBy, mux, pll
<1>16. CASE x \in {<<\h17, \h08, RangeOf(lo)[2]>>, <<\h1a, \hc3, RangeOf(lo)[3]>>, <<\h1b, \hff, RangeOf(lo)[4]>>}
  <2>1. LeftBy(mux, x)
    <3> DEFINE a == RangeOf(lo)[2]
               b == RangeOf(lo)[3]
               c == RangeOf(lo)[4]
    <3>0. /\ Leaves(mux, \h17, BitsOf[\h08], BitsOf[a] \cap BitsOf[\h08])
          /\ Leaves(mux, \h1a, BitsOf[\hc3], BitsOf[b] \cap BitsOf[\hc3])
          /\ Leaves(mux, \h1b, BitsOf[\hff], BitsOf[c] \cap BitsOf[\hff])
      BY MuxLeaves
    <3> HIDE DEF mux, a, b, c
    <3>1. LeftBy(mux, <<\h17, \h08, a>>)
      BY <3>0
    <3>2. LeftBy(mux, <<\h1a, \hc3, b>>)
      BY <3>0
    <3>3. LeftBy(mux, <<\h1b, \hff, c>>)
      BY <3>0
    <3> HIDE DEF LeftBy
    <3> QED
      BY <1>16, <3>1, <3>2, <3>3, Zenon DEF a, b, c
  <2>2. /\ Misses(DividerMasks, x[1], BitsOf[x[2]]) /\ Misses(FractionMasks, x[1], BitsOf[x[2]])
        /\ Misses(LockMasks, x[1], BitsOf[x[2]])
    BY <1>16, PllMisses
  <2> HIDE DEF mux, pll, LeftBy
  <2> QED
    BY <1>9, <1>11, <2>1, <2>2 DEF LeftBy, mux, pll
<1> QED
  BY <1>14, <1>15, <1>16 DEF TunedTo

\* What the registers have of x.
Has(regs, x) == regs[x[1]] \cap BitsOf[x[2]] = BitsOf[x[3]] \cap BitsOf[x[2]]

\* After a tuning that succeeded, shadow and chip have what it leaves.
Tuned ==
    asked["freq"].is = "tuned" =>
        /\ asked["freq"].at \in Nat
        /\ \A x \in TunedTo(asked["freq"].at, asked["freq"].fine, Xtal) : Has(shadow, x) /\ Has(chip, x)

LEMMA TunedRegisters ==
    \A lo, fine, xtal : \A x \in TunedTo(lo, fine, xtal) : x[1] \in {\h10, \h14, \h15, \h16, \h17, \h1a, \h1b} /\ x[1] \in Regs
BY DEF TunedTo, Regs

LEMMA TunedKept ==
    ASSUME TypeOK, Tuned, [Next]_vars
    PROVE  Tuned'
<1>0. NONE.is # "tuned" /\ DOMAIN asked = Settings /\ "freq" \in Settings
  BY DEF NONE, TypeOK, Settings
<1>1. ASSUME asked'["freq"] = NONE
      PROVE  Tuned'
  BY <1>0, <1>1 DEF Tuned
<1>2. ASSUME NEW fine, NEW tries \in Tries, InitTuner(fine, tries)
      PROVE  Tuned'
  <2> DEFINE p == TvStandard(fine, tries) \o SysfreqTop \o SysfreqRest
  <2>1. PICK reached \in Bursts, o \in Outcomes(p) : InitRun(fine, tries, p, reached, o)
    BY <1>2, InitRuns
  <2> HIDE DEF p
  <2>2. asked'["freq"] = NONE
    BY <1>0, <2>1 DEF InitRun
  <2> QED
    BY <1>1, <2>2
<1>3. ASSUME NEW p, NEW masks, Within(p, masks), NEW o \in Outcomes(p), Run(shadow, chip, dirty, p, o),
             \A bits : \A r \in {\h10, \h14, \h15, \h16, \h17, \h1a, \h1b} : Misses(masks, r, bits),
             asked'["freq"] = asked["freq"], UNCHANGED rafael_chip
      PROVE  Tuned'
  <2> SUFFICES ASSUME asked["freq"].is = "tuned"
               PROVE  Tuned'
    BY <1>3 DEF Tuned
  <2> DEFINE now == TunedTo(asked["freq"].at, asked["freq"].fine, Xtal)
  <2>1. asked["freq"].at \in Nat /\ \A x \in now : Has(shadow, x) /\ Has(chip, x)
    BY DEF Tuned
  <2>2. \A x \in now : x[1] \in {\h10, \h14, \h15, \h16, \h17, \h1a, \h1b} /\ x[1] \in Regs
    BY TunedRegisters
  <2>3. now' = now
    BY <1>3 DEF Xtal
  <2> HIDE DEF now
  <2>4. ASSUME NEW x \in now
        PROVE  Has(shadow', x) /\ Has(chip', x)
    <3> DEFINE r == x[1]
               bits == BitsOf[x[2]]
               v == BitsOf[x[3]] \cap BitsOf[x[2]]
    <3>1. r \in Regs /\ Misses(masks, r, bits)
      BY <1>3, <2>2
    <3>2. shadow[r] \cap bits = v /\ chip[r] \cap bits = v
      BY <2>1 DEF Has
    <3> HIDE DEF r, bits, v
    <3>3. shadow'[r] \cap bits = v /\ chip'[r] \cap bits = v
      BY <1>3, <3>1, <3>2, StaysTheSame
    <3> QED
      BY <3>3 DEF Has, r, bits, v
  <2> QED
    BY <1>3, <2>1, <2>3, <2>4 DEF Tuned, now, Has
<1>4. ASSUME NEW f \in Freqs[rafael_chip], NEW fine, NEW lock, SetFreq(f, fine, lock)
      PROVE  Tuned'
  <2> DEFINE lo   == LoFreq(f)
             q    == IF Valid(lo) /\ lock # 0 THEN InputSwitch(f) ELSE <<>>
             p    == (Mux(lo) \o Pll(lo, fine, lock)) \o q
  <2>1. PICK o \in Outcomes(p) :
           /\ Run(shadow, chip, dirty, p, o)
           /\ \E b : asked' = [asked EXCEPT !["freq"] = IF o = Done /\ Valid(lo) /\ lock # 0
                                                        THEN [is |-> "tuned", at |-> f + int_freq, fine |-> fine]
                                                        ELSE NONE, !["input"] = b]
           /\ UNCHANGED rafael_chip
    BY <1>4 DEF SetFreq
  <2>2. CASE o = Done /\ Valid(lo) /\ lock # 0
    <3>1. asked'["freq"] = [is |-> "tuned", at |-> lo, fine |-> fine]
      BY <1>0, <2>1, <2>2 DEF LoFreq
    <3>2. lo \in Nat
      <4>1. f \in Nat /\ int_freq \in Nat
        BY TunerAssumption DEF TypeOK
      <4> QED
        BY <4>1 DEF LoFreq
    <3>3. Within(q, SwitchMasks) /\ Within(p, TuneMasks \cup SwitchMasks)
      BY FreqWithin, SwitchWithin
    <3>4. IsProgram(p)
      <4> HIDE DEF p, q, lo
      <4> QED
        BY <3>3, IsFinite
    <3>5. ASSUME NEW x \in TunedTo(lo, fine, Xtal)
          PROVE  Has(shadow', x) /\ Has(chip', x)
      <4> DEFINE r == x[1]
                 bits == BitsOf[x[2]]
                 v == BitsOf[x[3]] \cap BitsOf[x[2]]
      <4>1. Leaves(p, r, bits, v)
        <5> HIDE DEF lo, q
        <5> QED
          BY <2>2, <3>3, <3>5, TuningLeaves
      <4>2. r \in Regs
        BY <3>5, TunedRegisters
      <4> HIDE DEF p, r, bits, v
      <4>3. shadow'[r] \cap bits = v /\ chip'[r] \cap bits = v
        BY <2>1, <2>2, <3>4, <4>1, <4>2, RunLeaves
      <4> QED
        BY <4>3 DEF Has, r, bits, v
    <3>6. TunedTo(asked'["freq"].at, asked'["freq"].fine, Xtal') = TunedTo(lo, fine, Xtal)
      <4>1. Xtal' = Xtal
        BY <2>1 DEF Xtal
      <4>2. asked'["freq"].at = lo /\ asked'["freq"].fine = fine
        BY <3>1
      <4> HIDE DEF lo
      <4> QED
        BY <4>1, <4>2
    <3> HIDE DEF lo, q, p
    <3>7. asked'["freq"].at \in Nat
      BY <3>1, <3>2
    <3> QED
      BY <3>5, <3>6, <3>7 DEF Tuned, Has
  <2>3. CASE ~(o = Done /\ Valid(lo) /\ lock # 0)
    <3>1. asked'["freq"] = NONE
      BY <1>0, <2>1, <2>3
    <3> QED
      BY <1>1, <3>1
  <2> QED
    BY <2>2, <2>3
<1>5. ASSUME NEW p, NEW what, Within(p, GainMasks), GainCall(p, what)
      PROVE  Tuned'
  <2>1. PICK o \in Outcomes(p) :
           /\ Run(shadow, chip, dirty, p, o)
           /\ asked'["freq"] = asked["freq"]
           /\ UNCHANGED rafael_chip
    BY <1>5 DEF GainCall, Ask
  <2>2. \A bits : \A r \in {\h10, \h14, \h15, \h16, \h17, \h1a, \h1b} : Misses(GainMasks, r, bits)
    BY DEF Misses, GainMasks
  <2> QED
    BY <1>3, <1>5, <2>1, <2>2
<1>6. ASSUME NEW g, SetGain(g)
      PROVE  Tuned'
  BY <1>5, <1>6, GainWithin DEF SetGain
<1>7. ASSUME NEW manual, SetGainMode(manual)
      PROVE  Tuned'
  BY <1>5, <1>6, <1>7, GainWithin DEF SetGainMode
<1>8. CASE SetGainExt(15, 15, 15)
  BY <1>5, <1>8, GainWithin DEF SetGainExt
<1>9. ASSUME NEW w \in Widths, SetFilter(w)
      PROVE  Tuned'
  <2>1. PICK o \in Outcomes(FilterProgram(w)) :
           /\ Run(shadow, chip, dirty, FilterProgram(w), o)
           /\ asked'["freq"] = asked["freq"]
           /\ UNCHANGED rafael_chip
    BY <1>9 DEF SetFilter, Ask
  <2>2. \A bits : \A r \in {\h10, \h14, \h15, \h16, \h17, \h1a, \h1b} : Misses(FilterMasks, r, bits)
    BY DEF Misses, FilterMasks
  <2> QED
    BY <1>3, <2>1, <2>2, FilterWithin
<1>10. CASE Standby
  <2>1. asked' = [s \in Settings |-> NONE]
    BY <1>10 DEF Standby
  <2> QED
    BY <1>0, <1>1, <2>1
<1>11. CASE Reopen
  <2>1. asked' = [s \in Settings |-> NONE]
    BY <1>11 DEF Reopen
  <2> QED
    BY <1>0, <1>1, <2>1
<1>12. CASE UNCHANGED vars
  <2>1. Xtal' = Xtal /\ asked' = asked /\ shadow' = shadow /\ chip' = chip
    BY <1>12 DEF vars, Xtal
  <2> QED
    BY <2>1 DEF Tuned, Has
<1> QED
  BY <1>2, <1>4, <1>6, <1>7, <1>8, <1>9, <1>10, <1>11, <1>12 DEF Next

LEMMA SynthesiserNumbers ==
    ASSUME NEW lo \in Nat, PllRange(lo), NEW xtal \in Crystals
    PROVE  /\ DivField(lo, 0) \in 0..5 /\ NiSi(Nint(lo, xtal)) \in 0..255
           /\ Sdm(VcoFra(lo, xtal), xtal) \in Nat /\ Sdm(VcoFra(lo, xtal), xtal) <= 65534
<1>1. PICK n, d : Divides(lo, n, d)
  BY DividerFits
<1>2. DivField(lo, 0) = n
  BY <1>1, SMTT(20) DEF DivField, Divides
<1>3. Nint(lo, xtal) \in 13..110 /\ VcoFra(lo, xtal) \in Nat /\ VcoFra(lo, xtal) < 2 * xtal
  BY <1>1, NintFits
<1>4. PICK nint, fra : nint = Nint(lo, xtal) /\ fra = VcoFra(lo, xtal)
  OBVIOUS
<1>5. NiSi(nint) \in 0..255
  BY <1>3, <1>4, NiSiHolds
<1>6. Sdm(fra, xtal) \in Nat /\ Sdm(fra, xtal) <= 65534
  BY <1>3, <1>4, Modulated
<1>7. n \in 0..5
  BY <1>1 DEF Divides
<1> QED
  BY <1>2, <1>4, <1>5, <1>6, <1>7

LEMMA RangeBits ==
    ASSUME NEW lo \in Nat
    PROVE  /\ Value(BitsOf[RangeOf(lo)[2]] \cap BitsOf[\h08]) = RangeOf(lo)[2]
           /\ Value(BitsOf[RangeOf(lo)[3]] \cap BitsOf[\hc3]) = RangeOf(lo)[3]
<1>1. PICK a, b : a = RangeOf(lo)[2] /\ b = RangeOf(lo)[3]
  OBVIOUS
<1>2. a \in {0, 8} /\ b \in {2, 64, 65}
  BY <1>1, RangeIs
<1>3. BitsOf[a] \cap BitsOf[8] = BitsOf[a]
  BY <1>2, SingleBits
<1>4. BitsOf[b] \cap BitsOf[195] = BitsOf[b]
  <2>1. 0 \in BitsOf[195] /\ 1 \in BitsOf[195] /\ 6 \in BitsOf[195] /\ 7 \in BitsOf[195]
    BY BitsAre
  <2>2. \A n \in {2, 64, 65} : n \in 0..255 /\ (n \div 4) % 2 = 0 /\ (n \div 8) % 2 = 0 /\ (n \div 16) % 2 = 0
                               /\ (n \div 32) % 2 = 0
    OBVIOUS
  <2>3. BitsOf[b] \in Byte /\ 2 \notin BitsOf[b] /\ 3 \notin BitsOf[b] /\ 4 \notin BitsOf[b] /\ 5 \notin BitsOf[b]
    BY <1>2, <2>2, BitsAre
  <2> QED
    BY <2>1, <2>3 DEF Byte
<1>5. Value(BitsOf[a]) = a /\ Value(BitsOf[b]) = b
  BY <1>2, ValueOfByte
<1> QED
  BY <1>1, <1>3, <1>4, <1>5

\* The synthesiser of the chip makes the frequency that the last r82xx_set_freq to
\* succeed asked for, to 1 kHz, with the filters of its range, whatever the calls in
\* between, and their failures, write; for every frequency that some divider fits.
THEOREM FrequencyIsAsAsked == Spec => []TunedAsAsked
<1>1. Init => Tuned
  <2>1. NONE.is # "tuned"
    BY DEF NONE
  <2> QED
    BY <2>1 DEF Init, Tuned, Settings
<1>2. TypeOK /\ Tuned /\ [Next]_vars => Tuned'
  BY TunedKept
<1>3. TypeOK /\ Tuned => TunedAsAsked
  <2> SUFFICES ASSUME TypeOK, Tuned, asked["freq"].is = "tuned", PllRange(asked["freq"].at), asked["freq"].fine = 0
               PROVE  TunedAsAsked
    BY DEF TunedAsAsked
  <2>1. PICK lo : lo = asked["freq"].at
    OBVIOUS
  <2>2. lo \in Nat /\ PllRange(lo) /\ \A x \in TunedTo(lo, 0, Xtal) : Has(chip, x)
    BY <2>1 DEF Tuned
  <2>3. Xtal \in Crystals
    BY TunerAssumption DEF TypeOK, Xtal, Crystals
  <2>4. PICK xtal \in Crystals : xtal = Xtal
    BY <2>3
  <2>5. PICK m, ns : m = Sdm(VcoFra(lo, xtal), xtal) /\ ns = NiSi(Nint(lo, xtal))
    OBVIOUS
  <2>6. DivField(lo, 0) \in 0..5 /\ ns \in 0..255 /\ m \in Nat /\ m <= 65534
    BY <2>2, <2>5, SynthesiserNumbers
  <2>7. /\ Has(chip, <<\h10, \he0, 32 * DivField(lo, 0)>>) /\ Has(chip, <<\h14, \hff, ns>>)
        /\ Has(chip, <<\h15, \hff, m % 256>>) /\ Has(chip, <<\h16, \hff, m \div 256>>)
    BY <2>2, <2>4, <2>5 DEF TunedTo
  <2>8. /\ Has(chip, <<\h17, \h08, RangeOf(lo)[2]>>) /\ Has(chip, <<\h1a, \hc3, RangeOf(lo)[3]>>)
        /\ Has(chip, <<\h1b, \hff, RangeOf(lo)[4]>>)
    BY <2>2 DEF TunedTo
  <2>9. \A r \in {\h10, \h14, \h15, \h16, \h17, \h1a, \h1b} : chip[r] \in SUBSET (0..7)
    BY DEF TypeOK, Regs, Byte
  <2>10. PICK h, l, v : h = m \div 256 /\ l = m % 256 /\ v = RangeOf(lo)[4]
    OBVIOUS
  <2>11. h \in 0..255 /\ l \in 0..255 /\ 256 * h + l = m
    BY <2>6, <2>10, SMTT(20)
  <2>12. v \in 0..255
    BY <2>2, <2>10, RangeIs
  <2>13. /\ Has(chip, <<\h14, \hff, ns>>) /\ Has(chip, <<\h15, \hff, l>>) /\ Has(chip, <<\h16, \hff, h>>)
         /\ Has(chip, <<\h1b, \hff, v>>)
    BY <2>7, <2>8, <2>10
  <2>14. /\ IsByte(chip[\h14], ns) /\ IsByte(chip[\h15], l) /\ IsByte(chip[\h16], h)
         /\ IsByte(chip[\h1b], v)
    BY <2>6, <2>9, <2>11, <2>12, <2>13 DEF IsByte, Has, Byte
  <2>15. Value(chip[\h14]) = ns /\ Value(chip[\h15]) = l /\ Value(chip[\h16]) = h /\ Value(chip[\h1b]) = RangeOf(lo)[4]
    BY <2>10, <2>14, ValueOfWhole
  <2>16. Value(chip[\h10]) \div 32 = DivField(lo, 0)
    <3>1. PICK n : n = DivField(lo, 0)
      OBVIOUS
    <3>2. n \in 0..7 /\ chip[\h10] \in SUBSET (0..7)
      BY <2>6, <2>9, <3>1
    <3>3. chip[\h10] \cap BitsOf[\he0] = BitsOf[32 * n] \cap BitsOf[\he0]
      BY <2>7, <3>1 DEF Has
    <3> QED
      BY <3>1, <3>2, <3>3, UpperThree
  <2>17. /\ Value(chip[\h17] \cap BitsOf[\h08]) = RangeOf(lo)[2]
         /\ Value(chip[\h1a] \cap BitsOf[\hc3]) = RangeOf(lo)[3]
    BY <2>2, <2>8, RangeBits DEF Has
  <2>18. Near(Synthesised(DivField(lo, 0), ns, m, xtal), lo)
    BY <2>2, <2>5, PllIsAccurate DEF Near
  <2>19. Near(Synthesised(Value(chip[\h10]) \div 32, Value(chip[\h14]), 256 * Value(chip[\h16]) + Value(chip[\h15]), Xtal), lo)
    BY <2>4, <2>11, <2>15, <2>16, <2>18
  <2> QED
    BY <2>1, <2>15, <2>17, <2>19 DEF TunedAsAsked
<1> QED
  BY <1>1, <1>2, <1>3, TunerTypes, PTL DEF Spec

\* r82xx_set_pll over the whole range of the synthesiser, for the chip at hand.
THEOREM PllAlwaysAccurate == Spec => []PllAccurate
<1>1. TypeOK => PllAccurate
  <2> SUFFICES ASSUME TypeOK, NEW lo \in {27657 + 1009 * n : n \in 0..1726}
               PROVE  /\ Valid(lo)
                      /\ ~DividesByZero(VcoFra(lo, Xtal), Xtal)
                      /\ Near(Synthesised(DivField(lo, 0), NiSi(Nint(lo, Xtal)), Sdm(VcoFra(lo, Xtal), Xtal), Xtal), lo)
    BY DEF PllAccurate
  <2>1. lo \in Nat /\ PllRange(lo)
    <3>1. PICK n \in 0..1726 : lo = 27657 + 1009 * n
      OBVIOUS
    <3> QED
      BY <3>1, SMTT(20) DEF PllRange, VcoMin, VcoMax
  <2>2. PICK xtal, ref : xtal = Xtal /\ ref = PowerRef(rafael_chip)
    OBVIOUS
  <2>3. xtal \in Crystals /\ ref = IF xtal = 28800 THEN 2 ELSE 1
    BY <2>2, TunerAssumption DEF TypeOK, Xtal, Crystals, PowerRef
  <2>4. /\ ValidNint(lo, xtal, ref) /\ ~DividesByZero(VcoFra(lo, xtal), xtal)
        /\ Near(Synthesised(DivField(lo, 0), NiSi(Nint(lo, xtal)), Sdm(VcoFra(lo, xtal), xtal), xtal), lo)
    BY <2>1, <2>3, PllIsAccurate DEF Near
  <2> QED
    BY <2>2, <2>4 DEF Valid
<1> QED
  BY <1>1, TunerTypes, PTL
==============================================================================
