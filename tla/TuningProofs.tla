----------------------------- MODULE TuningProofs ----------------------------
(***************************************************************************)
(* Theorems about Tuning, for any tuners, arguments and refusals: however  *)
(* the calls nest, the tuner is spoken to through the repeater only, the   *)
(* device receives the frequency it reports, the automatic modes settle,   *)
(* and the nesting is bounded.                                             *)
(***************************************************************************)
EXTENDS Tuning, R82xxTableProofs

-----------------------------------------------------------------------------
(***************************************************************************)
(* Steps whose brackets are whole: a tuner operation follows the step that *)
(* switches the repeater on, and every such step is followed by one that   *)
(* switches it off.                                                        *)
(***************************************************************************)
On  == <<"repeater", TRUE>>
Off == <<"repeater", FALSE>>
IsOp(step) == step[1] \in TunerOps

IsSteps(s)   == \E S : s \in Seq(S)
Guarded(s)   == \A i \in 2..Len(s) : IsOp(s[i]) => s[i - 1] = On
Closed(s)    == \A i \in 1..Len(s) : s[i] = On => \E j \in 1..Len(s) : j > i /\ s[j] = Off
EndsOff(s)   == \E j \in 1..Len(s) : s[j] = Off
Free(s)      == s # <<>> => ~IsOp(s[1])
Bracketed(s) == IsSteps(s) /\ Guarded(s) /\ Closed(s) /\ Free(s)

\* Between the operations of a call: what is left closes what is open.
Brackets ==
    /\ IsSteps(todo)
    /\ Guarded(todo)
    /\ Closed(todo)
    /\ repeater => EndsOff(todo)
    /\ ~Idle /\ IsOp(Head(todo)) => repeater

LEMMA OnIsNotOff == On # Off /\ ~IsOp(On) /\ ~IsOp(Off)
<1>1. TRUE # FALSE
  OBVIOUS
<1>2. On[2] = TRUE /\ Off[2] = FALSE
  BY Zenon DEF On, Off
<1>3. On # Off
  BY <1>1, <1>2, Zenon
<1>4. On[1] = "repeater" /\ Off[1] = "repeater"
  BY Zenon DEF On, Off
<1>5. "repeater" \notin TunerOps
  BY DEF TunerOps
<1> QED
  BY <1>3, <1>4, <1>5, Zenon DEF IsOp

\* Two bracketed sequences are one.
LEMMA Join ==
    ASSUME NEW s, Bracketed(s), NEW t, Bracketed(t)
    PROVE  Bracketed(s \o t)
<1>1. PICK S : s \in Seq(S)
  BY DEF Bracketed, IsSteps
<1>2. PICK T : t \in Seq(T)
  BY DEF Bracketed, IsSteps
<1> DEFINE U == S \cup T
           c == s \o t
<1>3. s \in Seq(U) /\ t \in Seq(U)
  BY <1>1, <1>2
<1>4. /\ c \in Seq(U)
      /\ Len(s) \in Nat /\ Len(t) \in Nat /\ Len(c) = Len(s) + Len(t)
      /\ \A i \in 1..Len(s) : c[i] = s[i]
      /\ \A i \in 1..Len(t) : c[Len(s) + i] = t[i]
  BY <1>3
<1> HIDE DEF c
<1>5. IsSteps(c)
  BY <1>4 DEF IsSteps
<1>6. Guarded(c)
  <2> SUFFICES ASSUME NEW i \in 2..Len(c), IsOp(c[i])
               PROVE  c[i - 1] = On
    BY DEF Guarded
  <2>1. CASE i <= Len(s)
    <3>1. i \in 2..Len(s) /\ i - 1 \in 1..Len(s)
      BY <1>4, <2>1
    <3>2. c[i] = s[i] /\ c[i - 1] = s[i - 1]
      BY <1>4, <3>1
    <3> QED
      BY <3>1, <3>2 DEF Bracketed, Guarded
  <2>2. CASE i = Len(s) + 1
    <3>1. t # <<>> /\ c[i] = t[1]
      BY <1>3, <1>4, <2>2
    <3> QED
      BY <3>1 DEF Bracketed, Free
  <2>3. CASE i > Len(s) + 1
    <3> DEFINE k == i - Len(s)
    <3>1. k \in 2..Len(t) /\ k - 1 \in 1..Len(t) /\ i = Len(s) + k /\ i - 1 = Len(s) + (k - 1)
      BY <1>4, <2>3
    <3>2. c[i] = t[k] /\ c[i - 1] = t[k - 1]
      BY SMTT(20), <1>4, <3>1
    <3> QED
      BY <3>1, <3>2 DEF Bracketed, Guarded
  <2> QED
    BY <1>4, <2>1, <2>2, <2>3
<1>7. Closed(c)
  <2> SUFFICES ASSUME NEW i \in 1..Len(c), c[i] = On
               PROVE  \E j \in 1..Len(c) : j > i /\ c[j] = Off
    BY DEF Closed
  <2>1. CASE i <= Len(s)
    <3>1. i \in 1..Len(s) /\ s[i] = On
      BY <1>4, <2>1
    <3>2. PICK j \in 1..Len(s) : j > i /\ s[j] = Off
      BY <3>1 DEF Bracketed, Closed
    <3>3. j \in 1..Len(c) /\ c[j] = Off
      BY <1>4, <3>2
    <3> QED
      BY <3>2, <3>3
  <2>2. CASE i > Len(s)
    <3> DEFINE k == i - Len(s)
    <3>1. k \in 1..Len(t) /\ i = Len(s) + k
      BY <1>4, <2>2
    <3>2. t[k] = On
      BY <1>4, <3>1
    <3>3. PICK j \in 1..Len(t) : j > k /\ t[j] = Off
      BY <3>1, <3>2 DEF Bracketed, Closed
    <3>4. Len(s) + j \in 1..Len(c) /\ Len(s) + j > i /\ c[Len(s) + j] = Off
      BY <1>4, <3>1, <3>3
    <3> QED
      BY <3>4
  <2> QED
    BY <1>4, <2>1, <2>2
<1>8. Free(c)
  <2>1. CASE s = <<>>
    <3>1. c = t
      BY <1>3, <2>1 DEF c
    <3> QED
      BY <3>1 DEF Bracketed
  <2>2. CASE s # <<>>
    <3>1. c[1] = s[1]
      BY <1>3, <1>4, <2>2
    <3> QED
      BY <2>2, <3>1 DEF Bracketed, Free
  <2> QED
    BY <2>1, <2>2
<1> QED
  BY <1>5, <1>6, <1>7, <1>8 DEF Bracketed, c

\* What is put in front does not take away the step that switches it off.
LEMMA StillEndsOff ==
    ASSUME NEW s, IsSteps(s), NEW t, IsSteps(t), EndsOff(t)
    PROVE  EndsOff(s \o t)
<1>1. PICK S : s \in Seq(S)
  BY DEF IsSteps
<1>2. PICK T : t \in Seq(T)
  BY DEF IsSteps
<1>3. s \in Seq(S \cup T) /\ t \in Seq(S \cup T)
  BY <1>1, <1>2
<1>4. PICK j \in 1..Len(t) : t[j] = Off
  BY DEF EndsOff
<1>5. Len(s) + j \in 1..Len(s \o t) /\ (s \o t)[Len(s) + j] = Off
  BY <1>3, <1>4
<1> QED
  BY <1>5 DEF EndsOff

\* The steps after the first.
LEMMA Rest ==
    ASSUME NEW s, IsSteps(s), Guarded(s), Closed(s), s # <<>>
    PROVE  /\ IsSteps(Tail(s)) /\ Guarded(Tail(s)) /\ Closed(Tail(s))
           /\ Head(s) # On => Bracketed(Tail(s))
           /\ Head(s) = On => EndsOff(Tail(s))
           /\ EndsOff(s) /\ Head(s) # Off => EndsOff(Tail(s))
<1>1. PICK S : s \in Seq(S)
  BY DEF IsSteps
<1> DEFINE t == Tail(s)
<1>2. /\ t \in Seq(S) /\ Len(s) \in Nat /\ Len(s) >= 1 /\ Len(t) = Len(s) - 1
      /\ Head(s) = s[1]
      /\ \A i \in 1..Len(t) : t[i] = s[i + 1]
  BY <1>1
<1> HIDE DEF t
<1>3. IsSteps(t)
  BY <1>2 DEF IsSteps
<1>4. Guarded(t)
  <2> SUFFICES ASSUME NEW i \in 2..Len(t), IsOp(t[i])
               PROVE  t[i - 1] = On
    BY DEF Guarded
  <2>1. i + 1 \in 2..Len(s) /\ i \in 1..Len(t) /\ i - 1 \in 1..Len(t) /\ (i + 1) - 1 = i /\ (i - 1) + 1 = i
    BY <1>2
  <2>2. t[i] = s[i + 1] /\ t[i - 1] = s[i]
    BY <1>2, <2>1
  <2>3. s[(i + 1) - 1] = On
    BY <2>1, <2>2 DEF Guarded
  <2> QED
    BY <2>1, <2>2, <2>3
\* A step that switches the repeater on has its counterpart behind it.
<1>5. ASSUME NEW i \in 1..Len(s), s[i] = On
      PROVE  \E j \in 1..Len(t) : j + 1 > i /\ t[j] = Off
  <2>1. PICK j \in 1..Len(s) : j > i /\ s[j] = Off
    BY <1>5 DEF Closed
  <2>2. j - 1 \in 1..Len(t) /\ (j - 1) + 1 = j
    BY <1>2, <2>1
  <2>3. t[j - 1] = Off
    BY <1>2, <2>1, <2>2
  <2> QED
    BY <2>1, <2>2, <2>3
<1>6. Closed(t)
  <2> SUFFICES ASSUME NEW i \in 1..Len(t), t[i] = On
               PROVE  \E j \in 1..Len(t) : j > i /\ t[j] = Off
    BY DEF Closed
  <2>1. i + 1 \in 1..Len(s) /\ s[i + 1] = On
    BY <1>2
  <2>2. PICK j \in 1..Len(t) : j + 1 > i + 1 /\ t[j] = Off
    BY <1>5, <2>1
  <2> QED
    BY <2>2
<1>7. Head(s) # On => Free(t)
  <2> SUFFICES ASSUME Head(s) # On, t # <<>>, IsOp(t[1])
               PROVE  FALSE
    BY DEF Free
  <2>1. Len(t) >= 1
    BY <1>2
  <2>2. 2 \in 2..Len(s) /\ t[1] = s[2] /\ 2 - 1 = 1
    BY <1>2, <2>1
  <2>3. s[2 - 1] = On
    BY <2>2 DEF Guarded
  <2> QED
    BY <1>2, <2>2, <2>3
<1>8. Head(s) = On => EndsOff(t)
  BY <1>2, <1>5 DEF EndsOff
<1>9. EndsOff(s) /\ Head(s) # Off => EndsOff(t)
  <2> SUFFICES ASSUME NEW j \in 1..Len(s), s[j] = Off, s[1] # Off
               PROVE  \E i \in 1..Len(t) : t[i] = Off
    BY <1>2 DEF EndsOff
  <2>1. j - 1 \in 1..Len(t) /\ (j - 1) + 1 = j
    BY <1>2
  <2> QED
    BY <1>2, <2>1
<1> QED
  BY <1>3, <1>4, <1>6, <1>7, <1>8, <1>9 DEF Bracketed, t

-----------------------------------------------------------------------------
(***************************************************************************)
(* The sequences that steps and calls put in front.                        *)
(***************************************************************************)
LEMMA None == Bracketed(<<>>)
BY DEF Bracketed, IsSteps, Guarded, Closed, Free

LEMMA Plain ==
    ASSUME NEW x, ~IsOp(x), x # On
    PROVE  Bracketed(<<x>>)
<1> DEFINE s == <<x>>
<1>1. s \in Seq({x}) /\ Len(s) = 1 /\ s[1] = x
  OBVIOUS
<1> HIDE DEF s
<1>2. IsSteps(s)
  BY <1>1 DEF IsSteps
<1>3. Guarded(s) /\ Closed(s) /\ Free(s)
  BY <1>1 DEF Guarded, Closed, Free
<1> QED
  BY <1>2, <1>3 DEF Bracketed, s

LEMMA Bracket ==
    ASSUME NEW op, NEW arg
    PROVE  Bracketed(Repeated(op, arg))
<1> DEFINE x == <<op, arg>>
           s == <<On, x, Off>>
<1>1. Repeated(op, arg) = s
  BY DEF Repeated, On, Off
<1> HIDE DEF x
<1>2. s \in Seq({On, x, Off}) /\ Len(s) = 3 /\ s[1] = On /\ s[2] = x /\ s[3] = Off
  OBVIOUS
<1> HIDE DEF s
<1>3. IsSteps(s)
  BY <1>2 DEF IsSteps
<1>4. Guarded(s)
  <2> SUFFICES ASSUME NEW i \in 2..3, IsOp(s[i])
               PROVE  s[i - 1] = On
    BY <1>2 DEF Guarded
  <2>1. i # 3
    BY <1>2, OnIsNotOff
  <2>2. i = 2 /\ i - 1 = 1
    BY <2>1
  <2> QED
    BY <1>2, <2>2
<1>5. Closed(s)
  <2> SUFFICES ASSUME NEW i \in 1..3, s[i] = On
               PROVE  \E j \in 1..3 : j > i /\ s[j] = Off
    BY <1>2 DEF Closed
  <2>1. i # 3
    BY <1>2, OnIsNotOff
  <2> QED
    BY <1>2, <2>1
<1>6. Free(s)
  BY <1>2, OnIsNotOff DEF Free
<1> QED
  BY <1>1, <1>3, <1>4, <1>5, <1>6 DEF Bracketed

\* A step of another name switches nothing on and does not speak to the tuner.
LEMMA Other ==
    ASSUME NEW op, NEW arg, op \notin TunerOps, op # "repeater"
    PROVE  ~IsOp(<<op, arg>>) /\ <<op, arg>> # On /\ <<op, arg>> # Off
<1>1. <<op, arg>>[1] = op /\ On[1] = "repeater" /\ Off[1] = "repeater"
  BY Zenon DEF On, Off
<1> QED
  BY <1>1, Zenon DEF IsOp

-----------------------------------------------------------------------------
(***************************************************************************)
(* A step that puts a bracketed sequence in place of the first keeps the   *)
(* brackets whole, unless it switches the repeater on or off by itself.    *)
(***************************************************************************)
LEMMA Replaced ==
    ASSUME Brackets, ~Idle, NEW steps, Bracketed(steps), Run(steps),
           Head(todo) # On,
           repeater' => repeater /\ Head(todo) # Off
    PROVE  Brackets'
<1>1. IsSteps(todo) /\ Guarded(todo) /\ Closed(todo) /\ todo # <<>>
  BY DEF Brackets, Idle
<1>2. Bracketed(Tail(todo))
  BY <1>1, Rest
<1>3. todo' = steps \o Tail(todo)
  BY DEF Run
<1>4. Bracketed(todo')
  BY <1>2, <1>3, Join
<1>5. repeater' => EndsOff(todo')
  <2> SUFFICES ASSUME repeater'
               PROVE  EndsOff(todo')
    OBVIOUS
  <2>1. EndsOff(Tail(todo))
    BY <1>1, Rest DEF Brackets
  <2> QED
    BY <1>2, <1>3, <2>1, StillEndsOff DEF Bracketed
<1>6. todo' # <<>> => Head(todo') = todo'[1]
  <2>1. PICK S : todo' \in Seq(S)
    BY <1>4 DEF Bracketed, IsSteps
  <2> QED
    BY <2>1
<1> QED
  BY <1>4, <1>5, <1>6 DEF Brackets, Bracketed, Free, Idle

\* A call puts its steps where there were none.
LEMMA Begun ==
    ASSUME Brackets, NEW op, NEW steps, Bracketed(steps), Called(op, steps), UNCHANGED repeater
    PROVE  Brackets'
<1>1. todo' = steps /\ todo = <<>>
  BY DEF Called, Idle
<1>2. ~repeater
  BY <1>1 DEF Brackets, EndsOff
<1>3. todo' # <<>> => Head(todo') = todo'[1]
  <2>1. PICK S : todo' \in Seq(S)
    BY <1>1 DEF Bracketed, IsSteps
  <2> QED
    BY <2>1
<1> QED
  BY <1>1, <1>2, <1>3 DEF Brackets, Bracketed, Free, Idle

\* The steps that do not touch the repeater.
LEMMA Others ==
    ASSUME Brackets, NEW op, NEW arg, At(op, arg), op # "repeater",
           NEW steps, Bracketed(steps), Run(steps), repeater' => repeater
    PROVE  Brackets'
<1>1. Head(todo) = <<op, arg>> /\ ~Idle
  BY DEF At
<1>2. On[1] = "repeater" /\ Off[1] = "repeater"
  BY Zenon DEF On, Off
<1>3. Head(todo) # On /\ Head(todo) # Off
  <2>1. <<op, arg>>[1] = op
    OBVIOUS
  <2> QED
    BY <1>1, <1>2, <2>1
<1> QED
  BY <1>1, <1>3, Replaced

LEMMA RepeaterStep ==
    ASSUME Brackets, NEW on \in BOOLEAN, SetRepeater(on)
    PROVE  Brackets'
<1>1. IsSteps(todo) /\ Guarded(todo) /\ Closed(todo) /\ todo # <<>>
  BY DEF Brackets, SetRepeater, At, Idle
<1>2. PICK S : todo \in Seq(S)
  BY <1>1 DEF IsSteps
<1>3. todo' = Tail(todo) /\ Tail(todo) \in Seq(S)
  BY <1>1, <1>2 DEF SetRepeater, Run
<1>4. /\ IsSteps(todo') /\ Guarded(todo') /\ Closed(todo')
      /\ Head(todo) # On => Bracketed(todo')
      /\ Head(todo) = On => EndsOff(todo')
  BY <1>1, <1>3, Rest
<1>5. CASE on = TRUE
  <2>1. repeater' = TRUE /\ Head(todo) = On
    BY <1>5 DEF SetRepeater, At, On
  <2> QED
    BY <1>4, <2>1 DEF Brackets
<1>6. CASE on = FALSE
  <2>1. repeater' = FALSE /\ Head(todo) = Off
    BY <1>6 DEF SetRepeater, At, Off
  <2>2. Bracketed(todo')
    BY <1>4, <2>1, OnIsNotOff
  <2>3. todo' # <<>> => Head(todo') = todo'[1]
    BY <1>3
  <2> QED
    BY <2>1, <2>2, <2>3 DEF Brackets, Bracketed, Free, Idle
<1> QED
  BY <1>5, <1>6

\* One step of another kind, put in front.
LEMMA Single ==
    ASSUME NEW op, NEW arg, op \notin TunerOps, op # "repeater"
    PROVE  Bracketed(<< <<op, arg>> >>)
<1> DEFINE x == <<op, arg>>
<1>1. ~IsOp(x) /\ x # On
  BY Other
<1> HIDE DEF x
<1>2. Bracketed(<<x>>)
  BY <1>1, Plain
<1> QED
  BY <1>2 DEF x

\* A bracket with a step of another kind behind it.
LEMMA BracketAnd ==
    ASSUME NEW op, NEW arg, NEW then, NEW value, then \notin TunerOps, then # "repeater"
    PROVE  Bracketed(Repeated(op, arg) \o << <<then, value>> >>)
BY Bracket, Single, Join

LEMMA StepKeeps ==
    ASSUME Brackets, Step
    PROVE  Brackets'
<1>1. ASSUME NEW f, SetCenterFreq(f)
      PROVE  Brackets'
  <2>1. Bracketed(<< <<"tune", f>> >>)
    BY Single DEF TunerOps
  <2>2. Bracketed(<< <<"direct", NewDs(f)>>, <<"tune", f>> >>)
    <3>1. Bracketed(<< <<"direct", NewDs(f)>> >>)
      BY Single DEF TunerOps
    <3>2. << <<"direct", NewDs(f)>>, <<"tune", f>> >> = << <<"direct", NewDs(f)>> >> \o << <<"tune", f>> >>
      OBVIOUS
    <3> QED
      BY <2>1, <3>1, <3>2, Join
  <2>3. At("center", f) /\ repeater' = repeater
    BY <1>1 DEF SetCenterFreq, chipVars
  <2> QED
    BY <1>1, <2>1, <2>2, <2>3, Others DEF SetCenterFreq
<1>2. ASSUME NEW f, TuneDdc(f)
      PROVE  Brackets'
  BY <1>2, None, Others DEF TuneDdc
<1>3. ASSUME NEW f, TuneTuner(f)
      PROVE  Brackets'
  BY <1>3, Bracket, Others DEF TuneTuner, chipVars
<1>4. ASSUME NEW f, SetOscillator(f)
      PROVE  Brackets'
  BY <1>4, None, Others DEF SetOscillator, GiveUp
<1>5. ASSUME NEW on, SetDirectSampling(on)
      PROVE  Brackets'
  <2>1. Bracketed(Repeated("standby", 0) \o << <<"enter", on>> >>)
    BY BracketAnd DEF TunerOps
  <2>2. Bracketed(Repeated("init", 0) \o << <<"leave", 0>> >>)
    BY BracketAnd DEF TunerOps
  <2> QED
    BY <1>5, <2>1, <2>2, Others DEF SetDirectSampling, chipVars
<1>6. CASE Standby
  BY <1>6, None, Others DEF Standby
<1>7. ASSUME NEW on, EnterDirect(on)
      PROVE  Brackets'
  <2>1. Bracketed(<< <<"center", freq>> >>)
    BY Single DEF TunerOps
  <2> QED
    BY <1>7, <2>1, Others DEF EnterDirect
<1>8. CASE InitTuner
  BY <1>8, None, Others DEF InitTuner
<1>9. CASE LeaveDirect
  <2>1. Bracketed(<< <<"center", freq>> >>)
    BY Single DEF TunerOps
  <2> QED
    BY <1>9, <2>1, Others DEF LeaveDirect
<1>10. ASSUME NEW width, SetBwLowIF(width)
       PROVE  Brackets'
  <2>1. Bracketed(<< <<"center", freq>> >>)
    BY Single DEF TunerOps
  <2> QED
    BY <1>10, <2>1, Others DEF SetBwLowIF
<1>11. ASSUME NEW width, SetBwZeroIF(width)
       PROVE  Brackets'
  BY <1>11, None, Others DEF SetBwZeroIF, chipVars
<1>12. ASSUME NEW width, KeepBw(width)
       PROVE  Brackets'
  BY <1>12, None, Others DEF KeepBw, chipVars
<1>13. CASE AfterRate
  <2>1. Bracketed(<< <<"offset", TRUE>> >>)
    BY Single DEF TunerOps
  <2>2. repeater' = FALSE
    BY <1>13 DEF AfterRate
  <2>3. ~repeater'
    BY <2>2
  <2> QED
    BY <1>13, <2>1, <2>3, None, Others DEF AfterRate
<1>14. ASSUME NEW on, SetOffsetTuning(on)
       PROVE  Brackets'
  <2>1. ASSUME NEW width
        PROVE  Bracketed(Repeated("set_bw", width) \o << <<"retune", 0>> >>)
    BY BracketAnd DEF TunerOps
  <2> QED
    BY <1>14, <2>1, None, Others DEF SetOffsetTuning
<1>15. CASE Retune
  <2>1. Bracketed(<< <<"center", freq>> >>)
    BY Single DEF TunerOps
  <2> QED
    BY <1>15, <2>1, None, Others DEF Retune, chipVars
<1>16. ASSUME NEW tun, SetTunerXtal(tun)
       PROVE  Brackets'
  <2>1. Bracketed(<< <<"center", freq>> >>)
    BY Single DEF TunerOps
  <2> QED
    BY <1>16, <2>1, None, Others DEF SetTunerXtal, RetuneNow, chipVars
<1> QED
  BY <1>1, <1>2, <1>3, <1>4, <1>5, <1>6, <1>7, <1>8, <1>9, <1>10, <1>11, <1>12, <1>13, <1>14,
     <1>15, <1>16, RepeaterStep DEF Step

LEMMA CallKeeps ==
    ASSUME Brackets, Call
    PROVE  Brackets'
<1>1. ASSUME NEW width
      PROVE  Bracketed(RateSteps(width))
  BY BracketAnd DEF TunerOps, RateSteps
<1>2. ASSUME NEW f, CallCenterFreq(f)
      PROVE  Brackets'
  <2>1. Bracketed(<< <<"center", f>> >>)
    BY Single DEF TunerOps
  <2> QED
    BY <1>2, <2>1, Begun DEF CallCenterFreq, chipVars
<1>3. ASSUME NEW on, CallDirectSampling(on)
      PROVE  Brackets'
  <2>1. Bracketed(<< <<"direct", on>> >>)
    BY Single DEF TunerOps
  <2> QED
    BY <1>3, <2>1, Begun DEF CallDirectSampling, chipVars
<1>4. ASSUME NEW mode, NEW threshold, CallDsMode(mode, threshold)
      PROVE  Brackets'
  <2> DEFINE first == IF mode <= 2 THEN << <<"direct", mode>> >> ELSE <<>>
  <2>1. Bracketed(first) /\ Bracketed(<< <<"center", freq>> >>)
    BY Single, None DEF TunerOps
  <2>2. Bracketed(first \o << <<"center", freq>> >>)
    BY <2>1, Join
  <2> QED
    BY <1>4, <2>2, Begun DEF CallDsMode, chipVars
<1>5. ASSUME NEW samp_rate, CallSampleRate(samp_rate)
      PROVE  Brackets'
  BY <1>1, <1>5, Begun DEF CallSampleRate, chipVars
<1>6. ASSUME NEW width, CallBandwidth(width)
      PROVE  Brackets'
  <2>1. Bracketed(Repeated("set_bw", WidthOr(width, rate)) \o << <<"keep_bw", width>> >>)
    BY BracketAnd DEF TunerOps
  <2> QED
    BY <1>6, <2>1, Begun DEF CallBandwidth, chipVars
<1>7. ASSUME NEW on, CallOffsetTuning(on)
      PROVE  Brackets'
  <2>1. Bracketed(<< <<"offset", on>> >>)
    BY Single DEF TunerOps
  <2> QED
    BY <1>7, <2>1, Begun DEF CallOffsetTuning, chipVars
<1>8. ASSUME NEW ppm, CallFreqCorrection(ppm)
      PROVE  Brackets'
  <2>1. Bracketed(RetuneNow)
    BY Single, None DEF TunerOps, RetuneNow
  <2> QED
    BY <1>8, <2>1, Begun DEF CallFreqCorrection, chipVars
<1>9. ASSUME NEW rtl, NEW tun, CallXtalFreq(rtl, tun)
      PROVE  Brackets'
  <2> DEFINE first == IF (rtl # 0 /\ rtl # rtl_xtal) /\ rate # 0 THEN RateSteps(rate) ELSE <<>>
  <2>1. Bracketed(first) /\ Bracketed(<< <<"tuner_xtal", tun>> >>)
    BY <1>1, Single, None DEF TunerOps
  <2>2. Bracketed(first \o << <<"tuner_xtal", tun>> >>)
    BY <2>1, Join
  <2> QED
    BY <1>9, <2>2, Begun DEF CallXtalFreq, chipVars
<1> QED
  BY <1>2, <1>3, <1>4, <1>5, <1>6, <1>7, <1>8, <1>9 DEF Call

\* However the calls nest, the tuner is spoken to while the repeater is on only,
\* and it is off when they return (rtlsdr_set_i2c_repeater around each call
\* through dev->tuner).
THEOREM TunerAlwaysReachable == Spec => []TunerReachable
<1>1. Init => Brackets
  BY None DEF Init, Brackets, Bracketed, Idle
<1>2. Brackets /\ [Next]_vars => Brackets'
  <2>1. Brackets /\ UNCHANGED vars => Brackets'
    BY DEF Brackets, vars, chipVars, Idle
  <2> QED
    BY <2>1, StepKeeps, CallKeeps DEF Next
<1>3. Brackets => TunerReachable
  BY DEF Brackets, TunerReachable, EndsOff, Idle, IsOp
<1> QED
  BY <1>1, <1>2, <1>3, PTL DEF Spec

-----------------------------------------------------------------------------
(***************************************************************************)
(* What stands behind a step in a sequence: leaving direct sampling comes  *)
(* in one piece with the setup of the tuner, and who puts the tuner to     *)
(* sleep tunes later.                                                      *)
(***************************************************************************)
Retunes    == {"center", "tune", "oscillator", "enter", "leave", "retune"}
Pending(s) == \E i \in 1..Len(s) : s[i][1] \in Retunes

Well(s) ==
    \A i \in 1..Len(s) :
        /\ s[i][1] = "set_bw" => s[i][2] \in Nat
        /\ s[i][1] = "keep_bw" => s[i][2] \in Widths
        /\ s[i][1] = "enter" => s[i][2] # 0
        /\ s[i][1] = "init" => i + 2 <= Len(s) /\ s[i + 1] = Off /\ s[i + 2][1] = "leave"
        /\ s[i][1] = "leave" /\ i > 1 => s[i - 1] = Off
        /\ s[i][1] = "leave" /\ i > 2 => s[i - 2][1] = "init"
        /\ s[i][1] = "standby" => \E j \in 1..Len(s) : j > i /\ s[j][1] \in Retunes

\* The tuner has been set up and direct sampling is about to be left.
Leaving(s) == \E i \in 1..Len(s) : i <= 2 /\ s[i][1] = "leave"

\* A sequence that may be put anywhere.
Whole(s) == IsSteps(s) /\ Well(s) /\ ~Leaving(s) /\ \A i \in 1..Len(s) : s[i][1] # "oscillator"

Reported ==
    freq # 0 =>
        /\ Received = [at |-> freq, corr |-> corr]
        /\ input = 0 => lo.xtal = tun_xtal

\* At any moment of a call.
OscillatorFirst ==
    \A i \in 1..Len(todo) : todo[i][1] = "oscillator" => i <= 2 /\ direct_sampling = 0
LeavingAfresh == Leaving(todo) => int_freq = DefaultIF
DdcFits ==
    direct_sampling = 0 /\ offs_freq = 0 =>
        ddc.at = (IF LowIF THEN int_freq ELSE 0) \/ Leaving(todo)
Retuning ==
    /\ Well(todo)
    /\ OscillatorFirst
    /\ LeavingAfresh
    /\ input = direct_sampling
    /\ DdcFits
    /\ offs_freq = 0 => Pending(todo) \/ Reported

\* The steps of two sequences, one after the other.
LEMMA Parts ==
    ASSUME NEW s, IsSteps(s), NEW t, IsSteps(t)
    PROVE  /\ IsSteps(s \o t) /\ Len(s) \in Nat /\ Len(t) \in Nat
           /\ Len(s \o t) = Len(s) + Len(t)
           /\ \A i \in 1..Len(s) : (s \o t)[i] = s[i]
           /\ \A i \in 1..Len(t) : (s \o t)[Len(s) + i] = t[i]
<1>1. PICK S : s \in Seq(S)
  BY DEF IsSteps
<1>2. PICK T : t \in Seq(T)
  BY DEF IsSteps
<1>3. s \in Seq(S \cup T) /\ t \in Seq(S \cup T)
  BY <1>1, <1>2
<1>4. s \o t \in Seq(S \cup T)
  BY <1>3
<1> QED
  BY <1>3, <1>4 DEF IsSteps

LEMMA Behind ==
    ASSUME NEW s, IsSteps(s), s # <<>>
    PROVE  /\ IsSteps(Tail(s)) /\ Len(s) \in Nat \ {0} /\ Len(Tail(s)) = Len(s) - 1
           /\ Head(s) = s[1]
           /\ \A i \in 1..Len(Tail(s)) : Tail(s)[i] = s[i + 1]
<1>1. PICK S : s \in Seq(S)
  BY DEF IsSteps
<1>2. Tail(s) \in Seq(S)
  BY <1>1
<1> QED
  BY <1>1, <1>2 DEF IsSteps

LEMMA WellJoin ==
    ASSUME NEW s, IsSteps(s), Well(s), NEW t, IsSteps(t), Well(t), ~Leaving(t)
    PROVE  Well(s \o t)
<1> DEFINE c == s \o t
           n == Len(s)
           m == Len(t)
<1>1. /\ IsSteps(c) /\ n \in Nat /\ m \in Nat /\ Len(c) = n + m
      /\ \A i \in 1..n : c[i] = s[i]
      /\ \A i \in 1..m : c[n + i] = t[i]
  BY Parts DEF Well
<1> HIDE DEF c, n, m
<1>2. \A i \in 1..Len(c) : (i \in 1..n /\ c[i] = s[i]) \/ (i - n \in 1..m /\ c[i] = t[i - n])
  <2> TAKE i \in 1..Len(c)
  <2>1. CASE i <= n
    BY <1>1, <2>1
  <2>2. CASE i > n
    <3>1. i - n \in 1..m /\ n + (i - n) = i
      BY <1>1, <2>2
    <3> QED
      BY <1>1, <3>1
  <2> QED
    BY <1>1, <2>1, <2>2
<1> SUFFICES ASSUME NEW i \in 1..Len(c)
             PROVE  /\ c[i][1] = "set_bw" => c[i][2] \in Nat
                    /\ c[i][1] = "keep_bw" => c[i][2] \in Widths
                    /\ c[i][1] = "enter" => c[i][2] # 0
                    /\ c[i][1] = "init" => i + 2 <= Len(c) /\ c[i + 1] = Off /\ c[i + 2][1] = "leave"
                    /\ c[i][1] = "leave" /\ i > 1 => c[i - 1] = Off
                    /\ c[i][1] = "leave" /\ i > 2 => c[i - 2][1] = "init"
                    /\ c[i][1] = "standby" => \E j \in 1..Len(c) : j > i /\ c[j][1] \in Retunes
  BY DEF Well, c
<1>3. CASE i \in 1..n /\ c[i] = s[i]
  <2>1. c[i][1] = "set_bw" => c[i][2] \in Nat
    BY <1>3 DEF Well, n
  <2>2. (c[i][1] = "keep_bw" => c[i][2] \in Widths) /\ (c[i][1] = "enter" => c[i][2] # 0)
    BY <1>3 DEF Well, n
  <2>3. ASSUME c[i][1] = "init"
        PROVE  i + 2 <= Len(c) /\ c[i + 1] = Off /\ c[i + 2][1] = "leave"
    <3>1. i + 2 <= n /\ s[i + 1] = Off /\ s[i + 2][1] = "leave"
      BY <1>3, <2>3 DEF Well, n
    <3>2. i + 1 \in 1..n /\ i + 2 \in 1..n
      BY <1>1, <3>1
    <3> QED
      BY <1>1, <3>1, <3>2
  <2>4. ASSUME c[i][1] = "leave"
        PROVE  (i > 1 => c[i - 1] = Off) /\ (i > 2 => c[i - 2][1] = "init")
    <3>1. (i > 1 => s[i - 1] = Off) /\ (i > 2 => s[i - 2][1] = "init")
      BY <1>3, <2>4 DEF Well, n
    <3>2. (i > 1 => i - 1 \in 1..n) /\ (i > 2 => i - 2 \in 1..n)
      BY <1>1, <1>3
    <3> QED
      BY <1>1, <3>1, <3>2
  <2>5. ASSUME c[i][1] = "standby"
        PROVE  \E j \in 1..Len(c) : j > i /\ c[j][1] \in Retunes
    <3>1. PICK j \in 1..n : j > i /\ s[j][1] \in Retunes
      BY <1>3, <2>5 DEF Well, n
    <3>2. j \in 1..Len(c) /\ c[j] = s[j]
      BY <1>1
    <3> QED
      BY <3>1, <3>2
  <2> QED
    BY <2>1, <2>2, <2>3, <2>4, <2>5
<1>4. CASE i - n \in 1..m /\ c[i] = t[i - n]
  <2> DEFINE k == i - n
  <2>0. k \in 1..m /\ c[i] = t[k] /\ i = n + k
    BY <1>1, <1>4
  <2> HIDE DEF k
  <2>1. c[i][1] = "set_bw" => c[i][2] \in Nat
    BY <2>0 DEF Well, m
  <2>2. (c[i][1] = "keep_bw" => c[i][2] \in Widths) /\ (c[i][1] = "enter" => c[i][2] # 0)
    BY <2>0 DEF Well, m
  <2>3. ASSUME c[i][1] = "init"
        PROVE  i + 2 <= Len(c) /\ c[i + 1] = Off /\ c[i + 2][1] = "leave"
    <3>1. k + 2 <= m /\ t[k + 1] = Off /\ t[k + 2][1] = "leave"
      BY <2>0, <2>3 DEF Well, m
    <3>2. k + 1 \in 1..m /\ k + 2 \in 1..m /\ i + 1 = n + (k + 1) /\ i + 2 = n + (k + 2)
      BY <1>1, <2>0, <3>1
    <3> QED
      BY <1>1, <3>1, <3>2
  <2>4. ASSUME c[i][1] = "leave"
        PROVE  c[i - 2][1] = "init" /\ c[i - 1] = Off
    <3>1. k > 2
      BY <2>0, <2>4 DEF Leaving, m
    <3>2. t[k - 2][1] = "init" /\ t[k - 1] = Off
      BY <2>0, <2>4, <3>1 DEF Well, m
    <3>3. k - 2 \in 1..m /\ k - 1 \in 1..m /\ i - 2 = n + (k - 2) /\ i - 1 = n + (k - 1)
      BY <1>1, <2>0, <3>1
    <3> QED
      BY <1>1, <3>2, <3>3
  <2>5. ASSUME c[i][1] = "standby"
        PROVE  \E j \in 1..Len(c) : j > i /\ c[j][1] \in Retunes
    <3>1. PICK j \in 1..m : j > k /\ t[j][1] \in Retunes
      BY <2>0, <2>5 DEF Well, m
    <3>2. n + j \in 1..Len(c) /\ n + j > i /\ c[n + j] = t[j]
      BY <1>1, <2>0, <3>1
    <3> QED
      BY <3>1, <3>2
  <2> QED
    BY <2>1, <2>2, <2>3, <2>4, <2>5
<1> QED
  BY <1>2, <1>3, <1>4

LEMMA WholeJoin ==
    ASSUME NEW s, Whole(s), NEW t, Whole(t)
    PROVE  Whole(s \o t)
<1> DEFINE c == s \o t
           n == Len(s)
           m == Len(t)
<1>1. /\ IsSteps(c) /\ n \in Nat /\ m \in Nat /\ Len(c) = n + m
      /\ \A i \in 1..n : c[i] = s[i]
      /\ \A i \in 1..m : c[n + i] = t[i]
  BY Parts DEF Whole
<1> HIDE DEF c, n, m
<1>2. \A i \in 1..Len(c) : (i \in 1..n /\ c[i] = s[i]) \/ (i - n \in 1..m /\ c[i] = t[i - n])
  <2> TAKE i \in 1..Len(c)
  <2>1. CASE i <= n
    BY <1>1, <2>1
  <2>2. CASE i > n
    <3>1. i - n \in 1..m /\ n + (i - n) = i
      BY <1>1, <2>2
    <3> QED
      BY <1>1, <3>1
  <2> QED
    BY <1>1, <2>1, <2>2
<1>3. \A i \in 1..Len(c) : c[i][1] # "oscillator"
  BY <1>2 DEF Whole, n, m
<1>4. ~Leaving(c)
  <2> SUFFICES ASSUME NEW i \in 1..Len(c), i <= 2, c[i][1] = "leave"
               PROVE  FALSE
    BY DEF Leaving
  <2>1. CASE i \in 1..n /\ c[i] = s[i]
    BY <2>1 DEF Whole, Leaving, n
  <2>2. CASE i - n \in 1..m /\ c[i] = t[i - n]
    <3>1. i - n <= 2
      BY <1>1
    <3> QED
      BY <2>2, <3>1 DEF Whole, Leaving, m
  <2> QED
    BY <1>2, <2>1, <2>2
<1>5. Well(c)
  BY WellJoin DEF Whole, c
<1> QED
  BY <1>1, <1>3, <1>4, <1>5 DEF Whole, c

\* Behind the first step of a call, all is whole, or the tuner is in the middle of
\* what the first step begins.
LEMMA WellBehind ==
    ASSUME IsSteps(todo), todo # <<>>, Well(todo)
    PROVE  Well(Tail(todo))
<1> DEFINE t == Tail(todo)
           n == Len(todo)
<1>1. n \in Nat /\ Len(t) = n - 1 /\ \A i \in 1..Len(t) : t[i] = todo[i + 1]
  BY Behind
<1> HIDE DEF t
<1>2. SUFFICES ASSUME NEW k \in 1..Len(t)
               PROVE  /\ t[k][1] = "set_bw" => t[k][2] \in Nat
                      /\ t[k][1] = "keep_bw" => t[k][2] \in Widths
                      /\ t[k][1] = "enter" => t[k][2] # 0
                      /\ t[k][1] = "init" => k + 2 <= Len(t) /\ t[k + 1] = Off /\ t[k + 2][1] = "leave"
                      /\ t[k][1] = "leave" /\ k > 1 => t[k - 1] = Off
                      /\ t[k][1] = "leave" /\ k > 2 => t[k - 2][1] = "init"
                      /\ t[k][1] = "standby" => \E j \in 1..Len(t) : j > k /\ t[j][1] \in Retunes
  BY DEF Well, t
<1>3. k + 1 \in 1..n /\ t[k] = todo[k + 1]
  BY <1>1
<1>4. /\ t[k][1] = "set_bw" => t[k][2] \in Nat
      /\ t[k][1] = "keep_bw" => t[k][2] \in Widths
      /\ t[k][1] = "enter" => t[k][2] # 0
  BY <1>3 DEF Well
<1>5. ASSUME t[k][1] = "init"
      PROVE  k + 2 <= Len(t) /\ t[k + 1] = Off /\ t[k + 2][1] = "leave"
  <2>1. (k + 1) + 2 <= n /\ todo[(k + 1) + 1] = Off /\ todo[(k + 1) + 2][1] = "leave"
    BY <1>3, <1>5 DEF Well
  <2>2. k + 1 \in 1..Len(t) /\ k + 2 \in 1..Len(t) /\ (k + 2) + 1 = (k + 1) + 2
    BY <1>1, <2>1
  <2>3. t[k + 1] = todo[(k + 1) + 1] /\ t[k + 2] = todo[(k + 2) + 1]
    BY <1>1, <2>2
  <2> QED
    BY <2>1, <2>2, <2>3
<1>6. ASSUME t[k][1] = "leave", k > 1
      PROVE  t[k - 1] = Off
  <2>1. todo[(k + 1) - 1] = Off
    BY <1>3, <1>6 DEF Well
  <2>2. k - 1 \in 1..Len(t) /\ (k - 1) + 1 = (k + 1) - 1
    BY <1>1, <1>6
  <2> QED
    BY <1>1, <2>1, <2>2
<1>8. ASSUME t[k][1] = "leave", k > 2
      PROVE  t[k - 2][1] = "init"
  <2>1. todo[(k + 1) - 2][1] = "init"
    BY <1>3, <1>8 DEF Well
  <2>2. k - 2 \in 1..Len(t) /\ (k - 2) + 1 = (k + 1) - 2
    BY <1>1, <1>8
  <2> QED
    BY <1>1, <2>1, <2>2
<1>7. ASSUME t[k][1] = "standby"
      PROVE  \E j \in 1..Len(t) : j > k /\ t[j][1] \in Retunes
  <2>1. PICK j \in 1..n : j > k + 1 /\ todo[j][1] \in Retunes
    BY <1>3, <1>7 DEF Well
  <2>2. j - 1 \in 1..Len(t) /\ j - 1 > k /\ (j - 1) + 1 = j
    BY <1>1, <2>1
  <2> QED
    BY <1>1, <2>1, <2>2
<1> QED
  BY <1>4, <1>5, <1>6, <1>7, <1>8

LEMMA WholeBehind ==
    ASSUME Brackets, Well(todo), OscillatorFirst,
           NEW op, NEW arg, At(op, arg), op \notin {"repeater", "init"}
    PROVE  Whole(Tail(todo))
<1> DEFINE t == Tail(todo)
<1>1. IsSteps(todo) /\ Guarded(todo) /\ todo # <<>> /\ Head(todo) = <<op, arg>>
  BY DEF Brackets, At, Idle
<1>2. /\ Len(todo) \in Nat /\ Len(t) = Len(todo) - 1 /\ \A i \in 1..Len(t) : t[i] = todo[i + 1]
      /\ IsSteps(t) /\ todo[1] = <<op, arg>>
  BY <1>1, Behind
<1> HIDE DEF t
<1>3. todo[1][1] = op /\ On[1] = "repeater" /\ Off[1] = "repeater"
  <2>1. On[1] = "repeater" /\ Off[1] = "repeater"
    BY Zenon DEF On, Off
  <2> QED
    BY <1>2, <2>1
<1>4. todo[1] # On /\ todo[1] # Off /\ todo[1][1] # "init"
  BY <1>3
<1>5. \A k \in 1..Len(t) : t[k][1] # "oscillator"
  <2> SUFFICES ASSUME NEW k \in 1..Len(t), t[k][1] = "oscillator"
               PROVE  FALSE
    OBVIOUS
  <2>1. k + 1 \in 1..Len(todo) /\ todo[k + 1][1] = "oscillator"
    BY <1>2
  <2>2. k = 1
    BY <2>1 DEF OscillatorFirst
  <2>3. IsOp(todo[2]) /\ 2 \in 2..Len(todo) /\ 2 - 1 = 1
    BY <2>1, <2>2 DEF IsOp, TunerOps
  <2>4. todo[2 - 1] = On
    BY <1>1, <2>3 DEF Guarded
  <2> QED
    BY <1>4, <2>3, <2>4
<1>6. ~Leaving(t)
  <2> SUFFICES ASSUME NEW k \in 1..Len(t), k <= 2, t[k][1] = "leave"
               PROVE  FALSE
    BY DEF Leaving
  <2>1. k + 1 \in 1..Len(todo) /\ todo[k + 1][1] = "leave"
    BY <1>2
  <2>2. CASE k = 1
    <3>1. 2 \in 1..Len(todo) /\ 2 > 1 /\ todo[2][1] = "leave"
      BY <2>1, <2>2
    <3>2. todo[2 - 1] = Off
      BY <3>1 DEF Well
    <3> QED
      BY <1>4, <3>2
  <2>3. CASE k = 2
    <3>1. 3 \in 1..Len(todo) /\ 3 > 2 /\ todo[3][1] = "leave"
      BY <2>1, <2>3
    <3>2. todo[3 - 2][1] = "init"
      BY <3>1 DEF Well
    <3> QED
      BY <1>4, <3>2
  <2> QED
    BY <2>2, <2>3
<1>7. Well(t)
  BY <1>1, WellBehind DEF t
<1> QED
  BY <1>2, <1>5, <1>6, <1>7 DEF Whole, t

-----------------------------------------------------------------------------
(***************************************************************************)
(* The sequences that steps and calls put in front.                        *)
(***************************************************************************)
LEMMA WholeNone == Whole(<<>>)
BY DEF Whole, IsSteps, Well, Leaving

LEMMA WholeOne ==
    ASSUME NEW op, NEW arg,
           op \notin {"init", "leave", "standby", "oscillator", "set_bw", "enter"},
           op = "keep_bw" => arg \in Widths
    PROVE  Whole(<< <<op, arg>> >>)
<1> DEFINE x == <<op, arg>>
           s == <<x>>
<1>1. s \in Seq({x}) /\ Len(s) = 1 /\ s[1] = x
  OBVIOUS
<1>2. x[1] = op /\ x[2] = arg
  OBVIOUS
<1> HIDE DEF s, x
<1>3. \A i \in 1..Len(s) : s[i][1] = op /\ s[i][2] = arg
  BY <1>1, <1>2
<1>4. Well(s)
  BY <1>3 DEF Well
<1> QED
  BY <1>1, <1>3, <1>4 DEF Whole, IsSteps, Leaving, s, x

\* A tuner operation, and what follows its bracket.
BracketThen(op, arg, then, value) == Repeated(op, arg) \o << <<then, value>> >>

LEMMA Four ==
    ASSUME NEW op, NEW arg, NEW then, NEW value, NEW s, s = BracketThen(op, arg, then, value)
    PROVE  /\ IsSteps(s) /\ Len(s) = 4
           /\ s[1] = On /\ s[2] = <<op, arg>> /\ s[3] = Off /\ s[4] = <<then, value>>
<1> DEFINE x == <<op, arg>>
           y == <<then, value>>
           c == <<On, x, Off>> \o <<y>>
<1>1. s = c
  BY DEF BracketThen, Repeated, On, Off
<1> HIDE DEF x, y
<1>2. c \in Seq({On, x, Off, y})
  OBVIOUS
<1>3. Len(c) = 4 /\ c[1] = On /\ c[2] = x /\ c[3] = Off /\ c[4] = y
  OBVIOUS
<1> HIDE DEF c
<1>4. IsSteps(c)
  BY <1>2 DEF IsSteps
<1> QED
  BY <1>1, <1>3, <1>4 DEF x, y

LEMMA OnAndOff == On[1] = "repeater" /\ Off[1] = "repeater"
BY Zenon DEF On, Off

LEMMA WholeFour ==
    ASSUME NEW op, NEW arg, NEW then, NEW value,
           op \in {"set_bw", "standby", "init"},
           then \notin {"set_bw", "standby", "init", "oscillator"},
           op = "set_bw" => arg \in Nat,
           then = "keep_bw" => value \in Widths,
           then = "enter" => value # 0,
           op = "init" <=> then = "leave",
           op = "standby" => then \in Retunes
    PROVE  Whole(BracketThen(op, arg, then, value))
<1> SUFFICES ASSUME NEW s, s = BracketThen(op, arg, then, value)
             PROVE  Whole(s)
  OBVIOUS
<1>1. /\ IsSteps(s) /\ Len(s) = 4
      /\ s[1] = On /\ s[2] = <<op, arg>> /\ s[3] = Off /\ s[4] = <<then, value>>
  BY Four
<1>2. /\ s[1][1] = "repeater" /\ s[2][1] = op /\ s[2][2] = arg /\ s[3][1] = "repeater"
      /\ s[4][1] = then /\ s[4][2] = value
  BY <1>1, OnAndOff
<1>3. \A i \in 1..Len(s) : i = 1 \/ i = 2 \/ i = 3 \/ i = 4
  BY <1>1
<1>11. \A i \in 1..Len(s) : s[i][1] # "oscillator" /\ (s[i][1] = "enter" => s[i][2] # 0)
  <2> TAKE i \in 1..Len(s)
  <2>1. op # "enter" /\ op # "oscillator" /\ then # "oscillator"
    OBVIOUS
  <2>2. s[1][1] # "enter" /\ s[2][1] # "enter" /\ s[3][1] # "enter"
    BY <1>2, <2>1
  <2>3. s[4][1] = "enter" => s[4][2] # 0
    BY <1>2
  <2> QED
    BY <1>2, <1>3, <2>1, <2>2, <2>3
<1>12. \A i \in 1..Len(s) : /\ s[i][1] = "set_bw" => s[i][2] \in Nat
                            /\ s[i][1] = "keep_bw" => s[i][2] \in Widths
  BY <1>2, <1>3
<1>4. \A i \in 1..Len(s) : /\ s[i][1] # "oscillator"
                           /\ s[i][1] = "set_bw" => s[i][2] \in Nat
                           /\ s[i][1] = "keep_bw" => s[i][2] \in Widths
                           /\ s[i][1] = "enter" => s[i][2] # 0
  BY <1>11, <1>12
<1>5. \A i \in 1..Len(s) : (s[i][1] \in {"init", "standby"} => i = 2) /\ (s[i][1] = "leave" => i = 4)
  BY <1>2, <1>3
<1>6. op = "init" => s[3] = Off /\ s[4][1] = "leave"
  BY <1>1, <1>2
<1>7. op = "standby" => 4 \in 1..Len(s) /\ s[4][1] \in Retunes
  BY <1>1, <1>2
<1>8. \A i \in 1..Len(s) : s[i][1] = "standby" => \E j \in 1..Len(s) : j > i /\ s[j][1] \in Retunes
  BY <1>2, <1>5, <1>7
<1>9. Well(s)
  BY <1>1, <1>2, <1>4, <1>5, <1>6, <1>8 DEF Well
<1>10. ~Leaving(s)
  BY <1>5 DEF Leaving
<1> QED
  BY <1>1, <1>4, <1>9, <1>10 DEF Whole

\* A step that is replaced by a whole sequence.
LEMMA Swapped ==
    ASSUME Brackets, Well(todo), OscillatorFirst,
           NEW op, NEW arg, At(op, arg), op \notin {"repeater", "init"},
           NEW steps, Whole(steps), Run(steps)
    PROVE  /\ Whole(todo')
           /\ Pending(steps) => Pending(todo')
           /\ op \notin Retunes /\ Pending(todo) => Pending(todo')
<1> DEFINE t == Tail(todo)
<1>1. Whole(t) /\ todo' = steps \o t
  BY WholeBehind DEF Run
<1>2. IsSteps(todo) /\ todo # <<>> /\ Head(todo) = <<op, arg>>
  BY DEF Brackets, At, Idle
<1>3. /\ Len(todo) \in Nat /\ Len(t) = Len(todo) - 1 /\ \A i \in 1..Len(t) : t[i] = todo[i + 1]
      /\ todo[1] = <<op, arg>>
  BY <1>2, Behind
<1>4. /\ Len(steps) \in Nat /\ Len(todo') = Len(steps) + Len(t)
      /\ \A i \in 1..Len(steps) : todo'[i] = steps[i]
      /\ \A i \in 1..Len(t) : todo'[Len(steps) + i] = t[i]
  <2>1. IsSteps(steps) /\ IsSteps(t)
    BY <1>1 DEF Whole
  <2>2. /\ Len(steps) \in Nat /\ Len(steps \o t) = Len(steps) + Len(t)
        /\ \A i \in 1..Len(steps) : (steps \o t)[i] = steps[i]
        /\ \A i \in 1..Len(t) : (steps \o t)[Len(steps) + i] = t[i]
    BY <2>1, Parts
  <2> QED
    BY <1>1, <2>2
<1> HIDE DEF t
<1>5. ASSUME Pending(steps)
      PROVE  Pending(todo')
  <2>1. PICK i \in 1..Len(steps) : steps[i][1] \in Retunes
    BY <1>5 DEF Pending
  <2>2. i \in 1..Len(todo') /\ todo'[i] = steps[i]
    BY <1>3, <1>4
  <2> QED
    BY <2>1, <2>2 DEF Pending
<1>6. ASSUME op \notin Retunes, Pending(todo)
      PROVE  Pending(todo')
  <2>1. PICK i \in 1..Len(todo) : todo[i][1] \in Retunes
    BY <1>6 DEF Pending
  <2>2. i # 1
    BY <1>3, <1>6, <2>1
  <2>3. i - 1 \in 1..Len(t) /\ (i - 1) + 1 = i
    BY <1>3, <2>2
  <2>4. Len(steps) + (i - 1) \in 1..Len(todo')
    BY <1>3, <1>4, <2>3
  <2>5. todo'[Len(steps) + (i - 1)] = todo[i]
    BY <1>3, <1>4, <2>3
  <2> QED
    BY <2>1, <2>4, <2>5 DEF Pending
<1> QED
  BY <1>1, <1>5, <1>6, WholeJoin

-----------------------------------------------------------------------------
(***************************************************************************)
(* Each step and each call keeps the types and what is to be tuned.        *)
(***************************************************************************)
Inv == FieldTypes /\ Brackets /\ Retuning

LEMMA NotLeaving ==
    ASSUME Brackets, Well(todo), NEW op, NEW arg, At(op, arg), op \notin {"repeater", "leave"}
    PROVE  ~Leaving(todo)
<1>1. IsSteps(todo) /\ todo # <<>> /\ Head(todo) = <<op, arg>>
  BY DEF Brackets, At, Idle
<1>2. todo[1] = <<op, arg>> /\ Len(todo) \in Nat
  BY <1>1, Behind
<1>3. todo[1][1] = op /\ todo[1] # Off
  BY <1>2, OnAndOff
<1> SUFFICES ASSUME NEW i \in 1..Len(todo), i <= 2, todo[i][1] = "leave"
             PROVE  FALSE
  BY DEF Leaving
<1>4. i = 2 /\ 2 \in 1..Len(todo) /\ 2 > 1
  BY <1>2, <1>3
<1>5. todo[2 - 1] = Off
  BY <1>4 DEF Well
<1> QED
  BY <1>3, <1>5

LEMMA FromWhole ==
    ASSUME Whole(todo'), input' = direct_sampling',
           direct_sampling' = 0 /\ offs_freq' = 0 => ddc'.at = (IF LowIF' THEN int_freq' ELSE 0),
           offs_freq' = 0 => Pending(todo') \/ Reported'
    PROVE  Retuning'
BY DEF Whole, Retuning, OscillatorFirst, LeavingAfresh, DdcFits

\* A step that changes nothing of what the device receives.
LEMMA Passes ==
    ASSUME Inv, NEW op, NEW arg, At(op, arg), op \notin {"repeater", "init", "leave"},
           NEW steps, Whole(steps), Run(steps),
           op \notin Retunes \/ Pending(steps),
           UNCHANGED <<tuner_type, freq, direct_sampling, offs_freq, corr, tun_xtal, int_freq, lo, ddc, input>>
    PROVE  Retuning'
<1>1. Brackets /\ Well(todo) /\ OscillatorFirst
  BY DEF Inv, Retuning
<1>2. /\ Whole(todo')
      /\ Pending(steps) => Pending(todo')
      /\ op \notin Retunes /\ Pending(todo) => Pending(todo')
  BY <1>1, Swapped
<1>3. ~Leaving(todo)
  BY <1>1, NotLeaving
<1>4. direct_sampling' = 0 /\ offs_freq' = 0 => ddc'.at = (IF LowIF' THEN int_freq' ELSE 0)
  BY <1>3 DEF Inv, Retuning, DdcFits, LowIF
<1>5. Reported' <=> Reported
  BY DEF Reported, Received, LowIF
<1>6. offs_freq' = 0 => Pending(todo') \/ Reported'
  BY <1>2, <1>5 DEF Inv, Retuning
<1>7. input' = direct_sampling'
  BY DEF Inv, Retuning
<1> QED
  BY <1>2, <1>4, <1>6, <1>7, FromWhole

\* The steps of a call that is made.
LEMMA Begins ==
    ASSUME Inv, NEW op, NEW steps, Called(op, steps), Whole(steps),
           UNCHANGED <<tuner_type, freq, direct_sampling, offs_freq, tun_xtal, int_freq, lo, ddc, input>>,
           corr' = corr \/ freq = 0 \/ Pending(steps)
    PROVE  Retuning'
<1>1. todo = <<>> /\ todo' = steps
  BY DEF Called, Idle
<1>2. ~Pending(todo) /\ ~Leaving(todo)
  BY <1>1 DEF Pending, Leaving
<1>3. direct_sampling' = 0 /\ offs_freq' = 0 => ddc'.at = (IF LowIF' THEN int_freq' ELSE 0)
  BY <1>2 DEF Inv, Retuning, DdcFits, LowIF
<1>4. Pending(steps) => Pending(todo')
  BY <1>1
<1>5. Reported /\ (corr' = corr \/ freq = 0) => Reported'
  BY DEF Reported, Received, LowIF
<1>6. offs_freq' = 0 => Pending(todo') \/ Reported'
  BY <1>2, <1>4, <1>5 DEF Inv, Retuning
<1>7. input' = direct_sampling' /\ Whole(todo')
  BY <1>1 DEF Inv, Retuning
<1> QED
  BY <1>3, <1>6, <1>7, FromWhole

\* Two steps of a kind that may stand anywhere.
LEMMA WholeTwo ==
    ASSUME NEW op, NEW arg, NEW then, NEW value,
           op \notin {"init", "leave", "standby", "oscillator", "set_bw", "enter", "keep_bw"},
           then \notin {"init", "leave", "standby", "oscillator", "set_bw", "enter", "keep_bw"}
    PROVE  Whole(<< <<op, arg>>, <<then, value>> >>)
<1>1. Whole(<< <<op, arg>> >>) /\ Whole(<< <<then, value>> >>)
  BY WholeOne
<1>2. << <<op, arg>>, <<then, value>> >> = << <<op, arg>> >> \o << <<then, value>> >>
  OBVIOUS
<1> QED
  BY <1>1, <1>2, WholeJoin

\* What is to be tuned is seen in the last step.
LEMMA PendingOne ==
    ASSUME NEW op, NEW arg, op \in Retunes
    PROVE  Pending(<< <<op, arg>> >>)
<1> DEFINE x == <<op, arg>>
           s == <<x>>
<1>1. Len(s) = 1 /\ s[1] = x /\ x[1] = op
  OBVIOUS
<1> HIDE DEF s, x
<1>2. 1 \in 1..Len(s) /\ s[1][1] = op
  BY <1>1
<1> QED
  BY <1>2 DEF Pending, s, x

LEMMA PendingJoin ==
    ASSUME NEW s, IsSteps(s), NEW t, IsSteps(t), Pending(t)
    PROVE  Pending(s \o t)
<1>1. PICK i \in 1..Len(t) : t[i][1] \in Retunes
  BY DEF Pending
<1>2. /\ Len(s) \in Nat /\ Len(t) \in Nat /\ Len(s \o t) = Len(s) + Len(t)
      /\ (s \o t)[Len(s) + i] = t[i]
  BY Parts DEF Well
<1>3. Len(s) + i \in 1..Len(s \o t)
  BY <1>2
<1> QED
  BY <1>1, <1>2, <1>3 DEF Pending

LEMMA PendingFour ==
    ASSUME NEW op, NEW arg, NEW then, NEW value, then \in Retunes
    PROVE  Pending(BracketThen(op, arg, then, value))
<1> SUFFICES ASSUME NEW s, s = BracketThen(op, arg, then, value)
             PROVE  Pending(s)
  OBVIOUS
<1>1. Len(s) = 4 /\ s[4] = <<then, value>>
  BY Four
<1>2. 4 \in 1..Len(s) /\ s[4][1] = then
  BY <1>1
<1> QED
  BY <1>2 DEF Pending

-----------------------------------------------------------------------------
(***************************************************************************)
(* The steps that change what the device receives.                         *)
(***************************************************************************)

\* The first step, by name.
LEMMA First ==
    ASSUME Inv, NEW op, NEW arg, At(op, arg)
    PROVE  /\ IsSteps(todo) /\ todo # <<>> /\ Len(todo) \in Nat \ {0} /\ 1 \in 1..Len(todo)
           /\ todo[1][1] = op /\ todo[1][2] = arg
           /\ Len(Tail(todo)) = Len(todo) - 1 /\ IsSteps(Tail(todo))
           /\ \A i \in 1..Len(Tail(todo)) : Tail(todo)[i] = todo[i + 1]
<1>1. IsSteps(todo) /\ todo # <<>> /\ Head(todo) = <<op, arg>>
  BY DEF Inv, Brackets, At, Idle
<1>2. /\ IsSteps(Tail(todo)) /\ Len(todo) \in Nat \ {0} /\ Len(Tail(todo)) = Len(todo) - 1
      /\ Head(todo) = todo[1]
      /\ \A i \in 1..Len(Tail(todo)) : Tail(todo)[i] = todo[i + 1]
  BY <1>1, Behind
<1>3. todo[1][1] = op /\ todo[1][2] = arg /\ 1 \in 1..Len(todo)
  BY <1>1, <1>2
<1> QED
  BY <1>1, <1>2, <1>3

\* A step with nothing in its place.
LEMMA Done ==
    ASSUME Inv, ~Idle, Run(<<>>)
    PROVE  todo' = Tail(todo)
<1>1. IsSteps(todo) /\ todo # <<>>
  BY DEF Inv, Brackets, Idle
<1>2. PICK S : Tail(todo) \in Seq(S)
  BY <1>1, Behind DEF IsSteps
<1> QED
  BY <1>2 DEF Run

LEMMA RepeaterTunes ==
    ASSUME Inv, NEW on \in BOOLEAN, SetRepeater(on)
    PROVE  Retuning'
<1>1. At("repeater", on) /\ ~Idle /\ Run(<<>>)
  BY DEF SetRepeater, At
<1>2. /\ Len(todo) \in Nat /\ todo[1][1] = "repeater" /\ Len(todo') = Len(todo) - 1
      /\ \A i \in 1..Len(todo') : todo'[i] = todo[i + 1]
  BY <1>1, First, Done
<1>3. Well(todo')
  BY <1>1, First, Done, WellBehind DEF Inv, Retuning
<1>4. Leaving(todo') <=> Leaving(todo)
  <2>1. ASSUME Leaving(todo)
        PROVE  Leaving(todo')
    <3>1. PICK i \in 1..Len(todo) : i <= 2 /\ todo[i][1] = "leave"
      BY <2>1 DEF Leaving
    <3>2. i - 1 \in 1..Len(todo') /\ i - 1 <= 2 /\ (i - 1) + 1 = i
      BY <1>2, <3>1
    <3> QED
      BY <1>2, <3>1, <3>2 DEF Leaving
  <2>2. ASSUME Leaving(todo')
        PROVE  Leaving(todo)
    <3>1. PICK i \in 1..Len(todo') : i <= 2 /\ todo'[i][1] = "leave"
      BY <2>2 DEF Leaving
    <3>2. i + 1 \in 1..Len(todo) /\ todo[i + 1][1] = "leave"
      BY <1>2, <3>1
    <3>3. CASE i = 1
      BY <3>2, <3>3 DEF Leaving
    <3>4. CASE i = 2
      <4>1. 3 \in 1..Len(todo) /\ 3 > 2 /\ todo[3][1] = "leave"
        BY <3>2, <3>4
      <4>2. todo[3 - 2][1] = "init"
        BY <4>1 DEF Inv, Retuning, Well
      <4> QED
        BY <1>2, <4>2
    <3> QED
      BY <3>1, <3>3, <3>4
  <2> QED
    BY <2>1, <2>2
<1>5. Pending(todo) => Pending(todo')
  <2> SUFFICES ASSUME NEW i \in 1..Len(todo), todo[i][1] \in Retunes
               PROVE  Pending(todo')
    BY DEF Pending
  <2>1. i # 1
    BY <1>2 DEF Retunes
  <2>2. i - 1 \in 1..Len(todo') /\ (i - 1) + 1 = i
    BY <1>2, <2>1
  <2> QED
    BY <1>2, <2>2 DEF Pending
<1>6. OscillatorFirst'
  <2> SUFFICES ASSUME NEW i \in 1..Len(todo'), todo'[i][1] = "oscillator"
               PROVE  i <= 2 /\ direct_sampling' = 0
    BY DEF OscillatorFirst
  <2>1. i + 1 \in 1..Len(todo) /\ todo[i + 1][1] = "oscillator"
    BY <1>2
  <2> QED
    BY <2>1 DEF Inv, Retuning, OscillatorFirst, SetRepeater, dsVars
<1>7. UNCHANGED <<tuner_type, freq, direct_sampling, offs_freq, corr, tun_xtal, int_freq, lo, ddc, input>>
  BY DEF SetRepeater, dsVars, cfgVars, xtalVars
<1>8. LeavingAfresh' /\ DdcFits' /\ input' = direct_sampling' /\ (Reported' <=> Reported)
  BY <1>4, <1>7 DEF Inv, Retuning, LeavingAfresh, DdcFits, DefaultIF, LowIF, Reported, Received
<1> QED
  BY <1>3, <1>5, <1>6, <1>7, <1>8 DEF Inv, Retuning

LEMMA TuneDdcTunes ==
    ASSUME Inv, NEW f, TuneDdc(f)
    PROVE  Retuning'
<1>1. Whole(todo')
  BY Swapped, WholeNone DEF Inv, Retuning, TuneDdc
<1>2. input' = direct_sampling' /\ direct_sampling' # 0
  BY DEF Inv, Retuning, TuneDdc, dsVars
<1>3. Received' = ddc' /\ ddc' = [at |-> freq', corr |-> corr']
  BY <1>2 DEF TuneDdc, Ddc, cfgVars, Received
<1>4. Reported'
  BY <1>2, <1>3 DEF Reported
<1> QED
  BY <1>1, <1>2, <1>4, FromWhole

LEMMA TuneTunerTunes ==
    ASSUME Inv, NEW f, TuneTuner(f)
    PROVE  Retuning'
<1> DEFINE x == <<"oscillator", f>>
           s == <<On, x, Off>>
           t == Tail(todo)
<1>1. todo' = s \o t
  BY DEF TuneTuner, Run, Repeated, On, Off
<1>2. Whole(t)
  BY WholeBehind DEF Inv, Retuning, TuneTuner
<1>3. ~Leaving(todo)
  BY NotLeaving DEF Inv, Retuning, TuneTuner
<1>4. x[1] = "oscillator"
  OBVIOUS
<1> HIDE DEF x
<1>5. s \in Seq({On, x, Off}) /\ Len(s) = 3 /\ s[1] = On /\ s[2] = x /\ s[3] = Off
  OBVIOUS
<1> HIDE DEF s, t
<1>6. IsSteps(s) /\ \A i \in 1..Len(s) : s[i][1] \in {"repeater", "oscillator"}
  <2>1. \A i \in 1..Len(s) : s[i] = On \/ s[i] = x \/ s[i] = Off
    BY <1>5
  <2> QED
    BY <1>4, <1>5, <2>1, OnAndOff DEF IsSteps
<1>7. Well(s)
  BY <1>6 DEF Well
<1>8. /\ Well(s \o t) /\ Len(t) \in Nat /\ Len(s \o t) = 3 + Len(t)
      /\ \A i \in 1..3 : (s \o t)[i] = s[i]
      /\ \A i \in 1..Len(t) : (s \o t)[3 + i] = t[i]
  <2>1. IsSteps(t) /\ Well(t) /\ ~Leaving(t)
    BY <1>2 DEF Whole
  <2>2. Well(s \o t)
    BY <1>6, <1>7, <2>1, WellJoin
  <2>3. /\ Len(t) \in Nat /\ Len(s \o t) = Len(s) + Len(t)
        /\ \A i \in 1..Len(s) : (s \o t)[i] = s[i]
        /\ \A i \in 1..Len(t) : (s \o t)[Len(s) + i] = t[i]
    BY <1>6, <2>1, Parts
  <2> QED
    BY <1>5, <2>2, <2>3
<1>9. 2 \in 1..Len(todo') /\ todo'[2][1] = "oscillator"
  BY <1>1, <1>4, <1>5, <1>8
<1>10. Pending(todo')
  BY <1>9 DEF Pending, Retunes
<1>11. ~Leaving(todo')
  <2> SUFFICES ASSUME NEW i \in 1..Len(todo'), i <= 2, todo'[i][1] = "leave"
               PROVE  FALSE
    BY DEF Leaving
  <2>1. i \in 1..Len(s) /\ todo'[i] = s[i]
    BY <1>1, <1>5, <1>8
  <2> QED
    BY <1>6, <2>1
<1>12. OscillatorFirst'
  <2> SUFFICES ASSUME NEW i \in 1..Len(todo'), todo'[i][1] = "oscillator"
               PROVE  i <= 2 /\ direct_sampling' = 0
    BY DEF OscillatorFirst
  <2>1. CASE i > 3
    <3>1. i - 3 \in 1..Len(t) /\ 3 + (i - 3) = i
      BY <1>1, <1>8, <2>1
    <3>2. t[i - 3][1] = "oscillator"
      BY <1>1, <1>8, <3>1
    <3> QED
      BY <1>2, <3>1, <3>2 DEF Whole
  <2>2. CASE i = 3
    BY <1>1, <1>5, <1>8, <2>2, OnAndOff
  <2>3. CASE i <= 2
    BY <2>3 DEF TuneTuner, dsVars
  <2> QED
    BY <2>1, <2>2, <2>3
<1>13. UNCHANGED <<tuner_type, direct_sampling, offs_freq, int_freq, ddc, input>>
  BY DEF TuneTuner, dsVars, cfgVars, chipVars
<1>14. DdcFits' /\ LeavingAfresh' /\ input' = direct_sampling'
  BY <1>3, <1>11, <1>13 DEF Inv, Retuning, DdcFits, LeavingAfresh, LowIF
<1>15. Well(todo')
  BY <1>1, <1>8
<1> QED
  BY <1>10, <1>12, <1>14, <1>15 DEF Retuning

LEMMA SetOscillatorTunes ==
    ASSUME Inv, NEW f \in Tuned, SetOscillator(f)
    PROVE  Retuning'
<1>1. At("oscillator", f) /\ Run(<<>>)
  BY DEF SetOscillator, GiveUp
<1>2. Whole(todo')
  BY <1>1, Swapped, WholeNone DEF Inv, Retuning
<1>3. ~Leaving(todo)
  BY <1>1, NotLeaving DEF Inv, Retuning
<1>4. direct_sampling = 0 /\ input = 0
  BY <1>1, First DEF Inv, Retuning, OscillatorFirst
<1>5. UNCHANGED <<tuner_type, direct_sampling, offs_freq, corr, tun_xtal, int_freq, ddc, input>>
  BY DEF SetOscillator, dsVars, cfgVars, xtalVars
<1>6. offs_freq = 0 => ddc.at = (IF LowIF THEN int_freq ELSE 0)
  BY <1>3, <1>4 DEF Inv, Retuning, DdcFits
<1>7. direct_sampling' = 0 /\ offs_freq' = 0 => ddc'.at = (IF LowIF' THEN int_freq' ELSE 0)
  BY <1>5, <1>6 DEF LowIF
<1>8. input' = direct_sampling'
  BY <1>4, <1>5
<1>9. CASE freq' = 0
  BY <1>2, <1>7, <1>8, <1>9, FromWhole DEF Reported
<1>10. CASE lo' = [at |-> LoFreq(f), corr |-> corr, xtal |-> tun_xtal] /\ freq' = f
  <2>1. f \in Int /\ int_freq \in Int
    BY TuningAssumption DEF Inv, FieldTypes, Tuned
  <2>2. Received' = [at |-> IF LowIF THEN lo'.at - ddc.at ELSE lo'.at + ddc.at, corr |-> corr]
    BY <1>4, <1>5, <1>10 DEF Received, LowIF
  <2>3. offs_freq = 0 => (IF LowIF THEN lo'.at - ddc.at ELSE lo'.at + ddc.at) = f
    BY <1>6, <1>10, <2>1 DEF LoFreq
  <2>4. offs_freq' = 0 => Reported'
    BY <1>5, <1>10, <2>2, <2>3 DEF Reported
  <2> QED
    BY <1>2, <1>7, <1>8, <2>4, FromWhole
<1> QED
  BY <1>9, <1>10 DEF SetOscillator, NoFreq

LEMMA StandbyTunes ==
    ASSUME Inv, Standby
    PROVE  Retuning'
<1>1. At("standby", 0) /\ Run(<<>>)
  BY DEF Standby
<1>2. Pending(todo)
  <2>1. todo[1][1] = "standby" /\ 1 \in 1..Len(todo)
    BY <1>1, First
  <2>2. \E j \in 1..Len(todo) : j > 1 /\ todo[j][1] \in Retunes
    BY <2>1 DEF Inv, Retuning, Well
  <2> QED
    BY <2>2 DEF Pending
<1>3. Whole(todo') /\ Pending(todo')
  BY <1>1, <1>2, Swapped, WholeNone DEF Inv, Retuning, Retunes
<1>4. ~Leaving(todo)
  BY <1>1, NotLeaving DEF Inv, Retuning
<1>5. UNCHANGED <<tuner_type, direct_sampling, offs_freq, int_freq, ddc, input>>
  BY DEF Standby, dsVars, cfgVars
<1> QED
  BY <1>3, <1>4, <1>5, FromWhole DEF Inv, Retuning, DdcFits, LowIF

LEMMA EnterDirectTunes ==
    ASSUME Inv, NEW on, EnterDirect(on)
    PROVE  Retuning'
<1>1. At("enter", on) /\ Run(<< <<"center", freq>> >>)
  BY DEF EnterDirect
<1>2. Whole(<< <<"center", freq>> >>) /\ Pending(<< <<"center", freq>> >>)
  BY WholeOne, PendingOne DEF Retunes
<1>3. Whole(todo') /\ Pending(todo')
  BY <1>1, <1>2, Swapped DEF Inv, Retuning
<1>4. on # 0
  BY <1>1, First DEF Inv, Retuning, Well
<1> QED
  BY <1>3, <1>4, FromWhole DEF EnterDirect

LEMMA InitTunerTunes ==
    ASSUME Inv, InitTuner
    PROVE  Retuning'
<1>1. At("init", 0) /\ ~Idle /\ Run(<<>>)
  BY DEF InitTuner, At
<1>2. /\ Len(todo) \in Nat /\ todo[1][1] = "init" /\ 1 \in 1..Len(todo) /\ Len(todo') = Len(todo) - 1
      /\ \A i \in 1..Len(todo') : todo'[i] = todo[i + 1]
  BY <1>1, First, Done
<1>3. Well(todo')
  BY <1>1, First, Done, WellBehind DEF Inv, Retuning
<1>4. 2 \in 1..Len(todo') /\ todo'[2][1] = "leave"
  <2>1. 1 + 2 <= Len(todo) /\ todo[1 + 2][1] = "leave"
    BY <1>2 DEF Inv, Retuning, Well
  <2> QED
    BY <1>2, <2>1
<1>5. Leaving(todo') /\ Pending(todo')
  BY <1>4 DEF Leaving, Pending, Retunes
<1>6. OscillatorFirst'
  <2> SUFFICES ASSUME NEW i \in 1..Len(todo'), todo'[i][1] = "oscillator"
               PROVE  i <= 2 /\ direct_sampling' = 0
    BY DEF OscillatorFirst
  <2>1. i + 1 \in 1..Len(todo) /\ todo[i + 1][1] = "oscillator"
    BY <1>2
  <2> QED
    BY <2>1 DEF Inv, Retuning, OscillatorFirst, InitTuner, dsVars
<1>7. int_freq' = DefaultIF' /\ input' = direct_sampling'
  BY DEF Inv, Retuning, InitTuner, ResetIF, DefaultIF, LowIF, cfgVars, dsVars
<1> QED
  BY <1>3, <1>5, <1>6, <1>7 DEF Retuning, LeavingAfresh, DdcFits

LEMMA LeaveDirectTunes ==
    ASSUME Inv, LeaveDirect
    PROVE  Retuning'
<1>1. At("leave", 0) /\ Run(<< <<"center", freq>> >>)
  BY DEF LeaveDirect
<1>2. Whole(<< <<"center", freq>> >>) /\ Pending(<< <<"center", freq>> >>)
  BY WholeOne, PendingOne DEF Retunes
<1>3. Whole(todo') /\ Pending(todo')
  BY <1>1, <1>2, Swapped DEF Inv, Retuning
<1>4. int_freq = DefaultIF
  <2>1. 1 \in 1..Len(todo) /\ todo[1][1] = "leave"
    BY <1>1, First
  <2> QED
    BY <2>1 DEF Inv, Retuning, LeavingAfresh, Leaving
<1>5. ddc'.at = DefaultIF /\ input' = direct_sampling' /\ UNCHANGED <<tuner_type, int_freq>>
  BY DEF LeaveDirect, Ddc, cfgVars
<1>6. ddc'.at = (IF LowIF' THEN int_freq' ELSE 0)
  BY <1>4, <1>5 DEF DefaultIF, LowIF
<1> QED
  BY <1>3, <1>5, <1>6, FromWhole

LEMMA SetBwTunes ==
    ASSUME Inv, NEW width, SetBwLowIF(width)
    PROVE  Retuning'
<1>1. At("set_bw", width) /\ Run(<< <<"center", freq>> >>)
  BY DEF SetBwLowIF
<1>2. Whole(<< <<"center", freq>> >>) /\ Pending(<< <<"center", freq>> >>)
  BY WholeOne, PendingOne DEF Retunes
<1>3. Whole(todo') /\ Pending(todo')
  BY <1>1, <1>2, Swapped DEF Inv, Retuning
<1>4. ddc'.at = int_freq' /\ LowIF' /\ input' = direct_sampling'
  BY DEF Inv, Retuning, SetBwLowIF, Ddc, LowIF, cfgVars, dsVars
<1> QED
  BY <1>3, <1>4, FromWhole

LEMMA RetuneTunes ==
    ASSUME Inv, Retune
    PROVE  Retuning'
<1>1. At("retune", 0)
  BY DEF Retune
<1>2. ~Leaving(todo)
  BY <1>1, NotLeaving DEF Inv, Retuning
<1>3. UNCHANGED <<tuner_type, freq, direct_sampling, offs_freq, int_freq, ddc, input>>
  BY DEF Retune, dsVars, cfgVars, chipVars
<1>4. direct_sampling' = 0 /\ offs_freq' = 0 => ddc'.at = (IF LowIF' THEN int_freq' ELSE 0)
  BY <1>2, <1>3 DEF Inv, Retuning, DdcFits, LowIF
<1>5. input' = direct_sampling'
  BY <1>3 DEF Inv, Retuning
<1>6. CASE freq > offs_freq
  <2>1. Whole(<< <<"center", freq>> >>) /\ Pending(<< <<"center", freq>> >>)
    BY WholeOne, PendingOne DEF Retunes
  <2>2. Run(<< <<"center", freq>> >>)
    BY <1>6 DEF Retune
  <2>3. Whole(todo') /\ Pending(todo')
    BY <1>1, <2>1, <2>2, Swapped DEF Inv, Retuning
  <2> QED
    BY <1>4, <1>5, <2>3, FromWhole
<1>7. CASE ~(freq > offs_freq)
  <2>1. freq \in Nat
    BY TuningAssumption DEF Inv, FieldTypes
  <2>2. offs_freq' = 0 => freq' = 0
    BY <1>3, <1>7, <2>1
  <2>3. offs_freq' = 0 => Reported'
    BY <2>2 DEF Reported
  <2>4. Run(<<>>)
    BY <1>7 DEF Retune
  <2>5. Whole(todo')
    BY <1>1, <2>4, Swapped, WholeNone DEF Inv, Retuning
  <2> QED
    BY <1>4, <1>5, <2>3, <2>5, FromWhole
<1> QED
  BY <1>6, <1>7

LEMMA WidthIsNat ==
    ASSUME FieldTypes
    PROVE  /\ bw \in Nat /\ rate \in Nat
           /\ \A width, samp_rate \in Nat : WidthOr(width, samp_rate) \in Nat
BY TuningAssumption DEF FieldTypes, WidthOr

LEMMA OffsetIsNat ==
    ASSUME FieldTypes, NEW on \in BOOLEAN
    PROVE  NewOffset(on) \in Nat
<1>1. rate \in Nat
  BY TuningAssumption DEF FieldTypes
<1>2. rate \div 2 \in Nat
  BY <1>1
<1>3. ((rate \div 2) * 170) \div 100 \in Nat
  BY <1>2
<1> QED
  BY <1>3 DEF NewOffset

LEMMA SetOffsetTunes ==
    ASSUME Inv, NEW on \in BOOLEAN, SetOffsetTuning(on)
    PROVE  Retuning'
<1>1. At("offset", on)
  BY DEF SetOffsetTuning
<1>2. CASE OffsetRefused
  <2>1. Run(<<>>)
    BY <1>2 DEF SetOffsetTuning
  <2>2. UNCHANGED <<tuner_type, freq, direct_sampling, offs_freq, corr, tun_xtal, int_freq, lo, ddc, input>>
    BY <1>2 DEF SetOffsetTuning, dsVars, xtalVars
  <2> QED
    BY <1>1, <2>1, <2>2, Passes, WholeNone DEF Retunes
<1>3. CASE ~OffsetRefused
  <2> DEFINE width == IF on THEN 2 * offs_freq' ELSE WidthOr(bw, rate)
  <2>1. /\ ~LowIF /\ offs_freq' = NewOffset(on) /\ ddc' = Ddc(offs_freq')
        /\ Run(BracketThen("set_bw", width, "retune", 0))
        /\ UNCHANGED <<tuner_type, direct_sampling, input>>
    BY <1>3 DEF SetOffsetTuning, OffsetRefused, BracketThen, dsVars
  <2>2. width \in Nat
    <3>1. NewOffset(on) \in Nat
      BY OffsetIsNat DEF Inv
    <3>2. WidthOr(bw, rate) \in Nat
      BY WidthIsNat DEF Inv
    <3> QED
      BY <2>1, <3>1, <3>2
  <2> HIDE DEF width
  <2>3. Whole(BracketThen("set_bw", width, "retune", 0)) /\ Pending(BracketThen("set_bw", width, "retune", 0))
    BY <2>2, WholeFour, PendingFour DEF Retunes
  <2>4. Whole(todo') /\ Pending(todo')
    BY <1>1, <2>1, <2>3, Swapped DEF Inv, Retuning
  <2>5. offs_freq' = 0 => ddc'.at = (IF LowIF' THEN int_freq' ELSE 0)
    BY <2>1 DEF Ddc, LowIF
  <2>6. input' = direct_sampling'
    BY <2>1 DEF Inv, Retuning
  <2> QED
    BY <2>4, <2>5, <2>6, FromWhole
<1> QED
  BY <1>2, <1>3

LEMMA SetTunerXtalTunes ==
    ASSUME Inv, NEW tun, SetTunerXtal(tun)
    PROVE  Retuning'
<1>1. At("tuner_xtal", tun)
  BY DEF SetTunerXtal
<1>2. UNCHANGED <<tuner_type, freq, direct_sampling, offs_freq, corr, int_freq, lo, ddc, input>>
  BY DEF SetTunerXtal, dsVars, chipVars
<1>3. Whole(<< <<"center", freq>> >>) /\ Pending(<< <<"center", freq>> >>)
  BY WholeOne, PendingOne DEF Retunes
<1>4. ~Leaving(todo)
  BY <1>1, NotLeaving DEF Inv, Retuning
<1>5. direct_sampling' = 0 /\ offs_freq' = 0 => ddc'.at = (IF LowIF' THEN int_freq' ELSE 0)
  BY <1>2, <1>4 DEF Inv, Retuning, DdcFits, LowIF
<1>6. CASE tun = tun_xtal
  <2>1. Run(<<>>) /\ UNCHANGED tun_xtal
    BY <1>6 DEF SetTunerXtal
  <2> QED
    BY <1>1, <1>2, <2>1, Passes, WholeNone DEF Retunes
<1>7. CASE tun # tun_xtal /\ freq # 0
  <2>1. Run(<< <<"center", freq>> >>)
    BY <1>7 DEF SetTunerXtal, RetuneNow
  <2>2. Whole(todo') /\ Pending(todo')
    BY <1>1, <1>3, <2>1, Swapped DEF Inv, Retuning
  <2> QED
    BY <1>2, <1>5, <2>2, FromWhole DEF Inv, Retuning
<1>8. CASE tun # tun_xtal /\ freq = 0
  <2>1. Run(<<>>)
    BY <1>8 DEF SetTunerXtal, RetuneNow
  <2>2. Whole(todo')
    BY <1>1, <2>1, Swapped, WholeNone DEF Inv, Retuning
  <2>3. Reported'
    BY <1>2, <1>8 DEF Reported
  <2> QED
    BY <1>2, <1>5, <2>2, <2>3, FromWhole DEF Inv, Retuning
<1> QED
  BY <1>6, <1>7, <1>8

LEMMA StepTunes ==
    ASSUME Inv, Step
    PROVE  Retuning'
<1>1. ASSUME NEW f, SetCenterFreq(f)
      PROVE  Retuning'
  <2>1. At("center", f)
    BY <1>1 DEF SetCenterFreq
  <2>2. UNCHANGED <<tuner_type, freq, direct_sampling, offs_freq, corr, tun_xtal, int_freq, lo, ddc, input>>
    BY <1>1 DEF SetCenterFreq, dsVars, cfgVars, chipVars, xtalVars
  <2>3. Whole(<< <<"tune", f>> >>) /\ Pending(<< <<"tune", f>> >>)
    BY WholeOne, PendingOne DEF Retunes
  <2>4. Whole(<< <<"direct", NewDs(f)>>, <<"tune", f>> >>) /\ Pending(<< <<"direct", NewDs(f)>>, <<"tune", f>> >>)
    <3>1. Whole(<< <<"direct", NewDs(f)>> >>)
      BY WholeOne
    <3>2. Pending(<< <<"direct", NewDs(f)>> >> \o << <<"tune", f>> >>)
      BY <2>3, <3>1, PendingJoin DEF Whole
    <3>3. << <<"direct", NewDs(f)>>, <<"tune", f>> >> = << <<"direct", NewDs(f)>> >> \o << <<"tune", f>> >>
      OBVIOUS
    <3> QED
      BY <3>2, <3>3, WholeTwo
  <2>5. \/ Run(<< <<"direct", NewDs(f)>>, <<"tune", f>> >>)
        \/ Run(<< <<"tune", f>> >>)
    BY <1>1 DEF SetCenterFreq
  <2> QED
    BY <2>1, <2>2, <2>3, <2>4, <2>5, Passes
<1>2. ASSUME NEW on, SetDirectSampling(on)
      PROVE  Retuning'
  <2>1. At("direct", on)
    BY <1>2 DEF SetDirectSampling
  <2>2. UNCHANGED <<tuner_type, freq, direct_sampling, offs_freq, corr, tun_xtal, int_freq, lo, ddc, input>>
    BY <1>2 DEF SetDirectSampling, dsVars, cfgVars, chipVars, xtalVars
  <2>3. Whole(BracketThen("init", 0, "leave", 0))
    BY WholeFour
  <2>4. on # 0 => Whole(BracketThen("standby", 0, "enter", on))
    BY WholeFour DEF Retunes
  <2>5. \/ on # 0 /\ Run(BracketThen("standby", 0, "enter", on))
        \/ Run(BracketThen("init", 0, "leave", 0))
    BY <1>2 DEF SetDirectSampling, BracketThen
  <2> QED
    BY <2>1, <2>2, <2>3, <2>4, <2>5, Passes DEF Retunes
<1>3. ASSUME NEW width, SetBwZeroIF(width)
      PROVE  Retuning'
  <2>1. At("set_bw", width) /\ Run(<<>>)
    BY <1>3 DEF SetBwZeroIF
  <2>2. UNCHANGED <<tuner_type, freq, direct_sampling, offs_freq, corr, tun_xtal, int_freq, lo, ddc, input>>
    BY <1>3 DEF SetBwZeroIF, dsVars, cfgVars, chipVars, xtalVars
  <2> QED
    BY <2>1, <2>2, Passes, WholeNone DEF Retunes
<1>4. ASSUME NEW width, KeepBw(width)
      PROVE  Retuning'
  <2>1. At("keep_bw", width) /\ Run(<<>>)
    BY <1>4 DEF KeepBw
  <2>2. UNCHANGED <<tuner_type, freq, direct_sampling, offs_freq, corr, tun_xtal, int_freq, lo, ddc, input>>
    BY <1>4 DEF KeepBw, dsVars, chipVars, xtalVars
  <2> QED
    BY <2>1, <2>2, Passes, WholeNone DEF Retunes
<1>5. CASE AfterRate
  <2>1. At("after_rate", 0)
    BY <1>5 DEF AfterRate
  <2>2. UNCHANGED <<tuner_type, freq, direct_sampling, offs_freq, corr, tun_xtal, int_freq, lo, ddc, input>>
    BY <1>5 DEF AfterRate, dsVars, cfgVars, xtalVars
  <2>3. Run(<< <<"offset", TRUE>> >>) \/ Run(<<>>)
    BY <1>5 DEF AfterRate
  <2>4. Whole(<< <<"offset", TRUE>> >>)
    BY WholeOne
  <2> QED
    BY <2>1, <2>2, <2>3, <2>4, Passes, WholeNone DEF Retunes
<1> QED
  BY <1>1, <1>2, <1>3, <1>4, <1>5, RepeaterTunes, SetOffsetTunes, TuneDdcTunes, TuneTunerTunes,
     SetOscillatorTunes, EnterDirectTunes, SetTunerXtalTunes, StandbyTunes, InitTunerTunes,
     LeaveDirectTunes, RetuneTunes, SetBwTunes DEF Step

LEMMA CallTunes ==
    ASSUME Inv, Call
    PROVE  Retuning'
<1> DEFINE same == UNCHANGED <<tuner_type, freq, direct_sampling, offs_freq, tun_xtal, int_freq, lo, ddc, input>>
<1>0. bw \in Nat /\ rate \in Nat /\ \A width, samp_rate \in Nat : WidthOr(width, samp_rate) \in Nat
  BY WidthIsNat DEF Inv
<1>1. ASSUME NEW samp_rate \in Nat
      PROVE  Whole(RateSteps(samp_rate))
  <2>1. WidthOr(bw, samp_rate) \in Nat
    BY <1>0
  <2>2. Whole(BracketThen("set_bw", WidthOr(bw, samp_rate), "after_rate", 0))
    BY <2>1, WholeFour
  <2> QED
    BY <2>2 DEF RateSteps, BracketThen
<1>2. ASSUME NEW f, CallCenterFreq(f)
      PROVE  Retuning'
  <2>1. Whole(<< <<"center", f>> >>)
    BY WholeOne
  <2>2. same /\ corr' = corr
    BY <1>2 DEF CallCenterFreq, chipVars, cfgVars, dsVars, xtalVars
  <2> QED
    BY <1>2, <2>1, <2>2, Begins DEF CallCenterFreq
<1>3. ASSUME NEW on, CallDirectSampling(on)
      PROVE  Retuning'
  <2>1. Whole(<< <<"direct", on>> >>)
    BY WholeOne
  <2>2. same /\ corr' = corr
    BY <1>3 DEF CallDirectSampling, chipVars, cfgVars, dsVars, xtalVars
  <2> QED
    BY <1>3, <2>1, <2>2, Begins DEF CallDirectSampling
<1>4. ASSUME NEW mode, NEW threshold, CallDsMode(mode, threshold)
      PROVE  Retuning'
  <2> DEFINE first == IF mode <= 2 THEN << <<"direct", mode>> >> ELSE <<>>
  <2>1. Whole(first) /\ Whole(<< <<"center", freq>> >>)
    BY WholeOne, WholeNone
  <2>2. Whole(first \o << <<"center", freq>> >>)
    BY <2>1, WholeJoin
  <2>3. same /\ corr' = corr
    BY <1>4 DEF CallDsMode, chipVars, cfgVars, xtalVars
  <2> QED
    BY <1>4, <2>2, <2>3, Begins DEF CallDsMode
<1>5. ASSUME NEW samp_rate \in Rates, CallSampleRate(samp_rate)
      PROVE  Retuning'
  <2>1. Whole(RateSteps(samp_rate))
    BY <1>1, TuningAssumption
  <2>2. same /\ corr' = corr
    BY <1>5 DEF CallSampleRate, chipVars, dsVars, xtalVars
  <2> QED
    BY <1>5, <2>1, <2>2, Begins DEF CallSampleRate
<1>6. ASSUME NEW width \in Widths, CallBandwidth(width)
      PROVE  Retuning'
  <2>0. width \in Nat
    BY TuningAssumption
  <2>1. WidthOr(width, rate) \in Nat
    BY <1>0, <2>0
  <2>2. Whole(BracketThen("set_bw", WidthOr(width, rate), "keep_bw", width))
    BY <2>1, WholeFour
  <2>3. same /\ corr' = corr
    BY <1>6 DEF CallBandwidth, chipVars, cfgVars, dsVars, xtalVars
  <2>4. Called("other", BracketThen("set_bw", WidthOr(width, rate), "keep_bw", width))
    BY <1>6 DEF CallBandwidth, BracketThen
  <2> QED
    BY <2>2, <2>3, <2>4, Begins
<1>7. ASSUME NEW on, CallOffsetTuning(on)
      PROVE  Retuning'
  <2>1. Whole(<< <<"offset", on>> >>)
    BY WholeOne
  <2>2. same /\ corr' = corr
    BY <1>7 DEF CallOffsetTuning, chipVars, cfgVars, dsVars, xtalVars
  <2> QED
    BY <1>7, <2>1, <2>2, Begins DEF CallOffsetTuning
<1>8. ASSUME NEW ppm, CallFreqCorrection(ppm)
      PROVE  Retuning'
  <2>1. Whole(RetuneNow) /\ (freq = 0 \/ Pending(RetuneNow))
    BY WholeOne, WholeNone, PendingOne DEF RetuneNow, Retunes
  <2>2. same
    BY <1>8 DEF CallFreqCorrection, chipVars, dsVars, xtalVars
  <2> QED
    BY <1>8, <2>1, <2>2, Begins DEF CallFreqCorrection
<1>9. ASSUME NEW rtl, NEW tun, CallXtalFreq(rtl, tun)
      PROVE  Retuning'
  <2> DEFINE first == IF (rtl # 0 /\ rtl # rtl_xtal) /\ rate # 0 THEN RateSteps(rate) ELSE <<>>
  <2>1. Whole(first) /\ Whole(<< <<"tuner_xtal", tun>> >>)
    BY <1>0, <1>1, WholeOne, WholeNone
  <2>2. Whole(first \o << <<"tuner_xtal", tun>> >>)
    BY <2>1, WholeJoin
  <2>3. same /\ corr' = corr
    BY <1>9 DEF CallXtalFreq, chipVars, dsVars
  <2> QED
    BY <1>9, <2>2, <2>3, Begins DEF CallXtalFreq
<1> QED
  BY <1>2, <1>3, <1>4, <1>5, <1>6, <1>7, <1>8, <1>9 DEF Call

-----------------------------------------------------------------------------
(***************************************************************************)
(* The types, and the theorems.                                            *)
(***************************************************************************)
LEMMA NewIF ==
    ASSUME NEW width \in Nat
    PROVE  SetBandwidth(width).int_freq \in Nat
<1> DEFINE new == SetBandwidth(width).int_freq
<1>1. new \in 1085..4570
  BY SMTT(20), FilterFits
<1> HIDE DEF new
<1>2. new \in Nat
  BY <1>1
<1> QED
  BY <1>2 DEF new

LEMMA StepTypes ==
    ASSUME Inv, Step
    PROVE  FieldTypes'
<1> USE TuningAssumption DEF Inv
<1>1. ASSUME NEW on \in BOOLEAN, SetRepeater(on)
      PROVE  FieldTypes'
  BY <1>1 DEF SetRepeater, FieldTypes, dsVars, cfgVars, xtalVars
<1>2. ASSUME NEW on \in BOOLEAN, SetOffsetTuning(on)
      PROVE  FieldTypes'
  <2>1. NewOffset(on) \in Nat
    BY OffsetIsNat
  <2>2. offs_freq' \in Nat /\ ddc' \in [at : Int, corr : Int] /\ r' \in {0, -1}
    <3>1. corr \in Int
      BY DEF FieldTypes
    <3> QED
      BY <1>2, <2>1, <3>1 DEF SetOffsetTuning, Ddc, FieldTypes
  <2>3. UNCHANGED <<tuner_type, freq, dsVars, rate, bw, corr, xtalVars, int_freq, lo, input, repeater>>
    BY <1>2 DEF SetOffsetTuning
  <2> QED
    BY <2>2, <2>3 DEF FieldTypes, dsVars, xtalVars
<1>3. ASSUME NEW f \in Tuned, SetCenterFreq(f) \/ TuneTuner(f)
      PROVE  FieldTypes'
  BY <1>3 DEF SetCenterFreq, TuneTuner, FieldTypes, dsVars, cfgVars, chipVars, xtalVars
<1>4. ASSUME NEW f \in Tuned, TuneDdc(f)
      PROVE  FieldTypes'
  BY <1>4 DEF TuneDdc, Ddc, Tuned, FieldTypes, dsVars, cfgVars, xtalVars
<1>5. ASSUME NEW f \in Tuned, SetOscillator(f)
      PROVE  FieldTypes'
  <2>1. LoFreq(f) \in Int /\ corr \in Int /\ tun_xtal \in Nat
    BY DEF FieldTypes, LoFreq, Tuned, RtlXtals
  <2>2. lo' \in Setting /\ freq' \in Freqs \cup {0} /\ r' \in {0, -1}
    BY <1>5, <2>1 DEF SetOscillator, Setting, Unset, Tuned, NoFreq
  <2>3. UNCHANGED <<dsVars, cfgVars, int_freq, ddc, input, repeater>>
    BY <1>5 DEF SetOscillator
  <2> QED
    BY <2>2, <2>3 DEF FieldTypes, dsVars, cfgVars, xtalVars
<1>6. ASSUME NEW on \in 0..2, SetDirectSampling(on)
      PROVE  FieldTypes'
  BY <1>6 DEF SetDirectSampling, FieldTypes, dsVars, cfgVars, chipVars, xtalVars
<1>7. ASSUME NEW on \in 0..2, EnterDirect(on)
      PROVE  FieldTypes'
  BY <1>7 DEF EnterDirect, FieldTypes, cfgVars, xtalVars
<1>8. ASSUME NEW tun \in Xtals \cup {0}, SetTunerXtal(tun)
      PROVE  FieldTypes'
  <2>1. tun_xtal' \in RtlXtals \cup {16000}
    BY <1>8 DEF SetTunerXtal, XtalMeant, FieldTypes, RtlXtals
  <2>2. UNCHANGED <<tuner_type, freq, dsVars, offs_freq, rate, bw, corr, rtl_xtal, chipVars, r>>
    BY <1>8 DEF SetTunerXtal
  <2> QED
    BY <2>1, <2>2 DEF FieldTypes, dsVars, chipVars
<1>9. CASE Standby
  BY <1>9 DEF Standby, FieldTypes, Setting, Unset, dsVars, cfgVars, xtalVars
<1>10. CASE InitTuner
  BY <1>10 DEF InitTuner, ResetIF, DefaultIF, FieldTypes, Setting, Unset, dsVars, cfgVars, xtalVars
<1>11. CASE LeaveDirect
  BY <1>11 DEF LeaveDirect, Ddc, DefaultIF, FieldTypes, cfgVars, xtalVars
<1>12. CASE AfterRate
  <2>1. repeater' \in BOOLEAN /\ r' \in {0, -1}
    <3>1. r' = 0
      BY <1>12 DEF AfterRate
    <3>2. repeater' \in BOOLEAN
      <4>1. repeater' = FALSE
        BY <1>12 DEF AfterRate
      <4>2. FALSE \in BOOLEAN
        OBVIOUS
      <4> QED
        BY ONLY <4>1, <4>2
    <3> QED
      BY <3>1, <3>2
  <2>2. UNCHANGED <<freq, dsVars, cfgVars, int_freq, lo, ddc, input>>
    BY <1>12 DEF AfterRate
  <2> QED
    BY <2>1, <2>2 DEF FieldTypes, dsVars, cfgVars, xtalVars
<1>13. CASE Retune
  BY <1>13 DEF Retune, FieldTypes, dsVars, cfgVars, chipVars, xtalVars
<1>14. ASSUME NEW width, SetBwLowIF(width)
       PROVE  FieldTypes'
  <2>1. width \in Nat
    BY <1>14, First DEF SetBwLowIF, Retuning, Well
  <2>2. SetBandwidth(width).int_freq \in Nat
    BY <2>1, NewIF
  <2>3. int_freq' \in Nat
    BY <1>14, <2>2 DEF SetBwLowIF
  <2>5. ddc' \in [at : Int, corr : Int]
    <3>1. corr \in Int
      BY DEF FieldTypes
    <3>2. ddc' = [at |-> int_freq', corr |-> corr]
      BY <1>14 DEF SetBwLowIF, Ddc
    <3> QED
      BY <2>3, <3>1, <3>2
  <2>4. UNCHANGED <<freq, dsVars, cfgVars, lo, input, repeater, r>>
    BY <1>14 DEF SetBwLowIF
  <2> QED
    BY <2>3, <2>4, <2>5 DEF FieldTypes, dsVars, cfgVars, xtalVars
<1>15. ASSUME NEW width, SetBwZeroIF(width)
       PROVE  FieldTypes'
  BY <1>15 DEF SetBwZeroIF, FieldTypes, dsVars, cfgVars, chipVars, xtalVars
<1>16. ASSUME NEW width, KeepBw(width)
       PROVE  FieldTypes'
  <2>1. width \in Widths
    BY <1>16, First DEF KeepBw, Retuning, Well
  <2> QED
    BY <1>16, <2>1 DEF KeepBw, FieldTypes, dsVars, chipVars, xtalVars
<1> QED
  BY <1>1, <1>2, <1>3, <1>4, <1>5, <1>6, <1>7, <1>8, <1>9, <1>10, <1>11, <1>12, <1>13, <1>14,
     <1>15, <1>16 DEF Step

LEMMA CallTypes ==
    ASSUME Inv, Call
    PROVE  FieldTypes'
<1> USE TuningAssumption DEF Inv, Called
<1>1. ASSUME NEW f, CallCenterFreq(f)
      PROVE  FieldTypes'
  BY <1>1 DEF CallCenterFreq, FieldTypes, chipVars, dsVars, cfgVars, xtalVars
<1>2. ASSUME NEW on, CallDirectSampling(on)
      PROVE  FieldTypes'
  BY <1>2 DEF CallDirectSampling, FieldTypes, chipVars, dsVars, cfgVars, xtalVars
<1>3. ASSUME NEW mode \in DsModes, NEW threshold \in Thresholds, CallDsMode(mode, threshold)
      PROVE  FieldTypes'
  BY <1>3 DEF CallDsMode, FieldTypes, chipVars, cfgVars, xtalVars
<1>4. ASSUME NEW samp_rate \in Rates, CallSampleRate(samp_rate)
      PROVE  FieldTypes'
  BY <1>4 DEF CallSampleRate, FieldTypes, chipVars, dsVars, xtalVars
<1>5. ASSUME NEW width, CallBandwidth(width)
      PROVE  FieldTypes'
  BY <1>5 DEF CallBandwidth, FieldTypes, chipVars, dsVars, cfgVars, xtalVars
<1>6. ASSUME NEW on, CallOffsetTuning(on)
      PROVE  FieldTypes'
  BY <1>6 DEF CallOffsetTuning, FieldTypes, chipVars, dsVars, cfgVars, xtalVars
<1>7. ASSUME NEW ppm \in Corrections, CallFreqCorrection(ppm)
      PROVE  FieldTypes'
  BY <1>7 DEF CallFreqCorrection, FieldTypes, chipVars, dsVars, xtalVars
<1>8. ASSUME NEW rtl \in Xtals \cup {0}, NEW tun \in Xtals \cup {0}, CallXtalFreq(rtl, tun)
      PROVE  FieldTypes'
  BY <1>8 DEF CallXtalFreq, FieldTypes, RtlXtals, chipVars, dsVars
<1> QED
  BY <1>1, <1>2, <1>3, <1>4, <1>5, <1>6, <1>7, <1>8 DEF Call

LEMMA InvHolds == Init => Inv
<1> SUFFICES ASSUME Init
             PROVE  Inv
  OBVIOUS
<1>1. FieldTypes
  <2>1. DefaultIF \in Nat /\ TunerXtal \in RtlXtals \cup {16000} /\ DefaultXtal \in RtlXtals /\ Unset \in Setting
    BY DEF DefaultIF, TunerXtal, DefaultXtal, RtlXtals, Unset, Setting
  <2>2. ddc \in [at : Int, corr : Int]
    BY <2>1 DEF Init
  <2>3. repeater \in BOOLEAN
    BY DEF Init
  <2> QED
    BY <2>1, <2>2, <2>3 DEF Init, FieldTypes, DsModes
<1>2. Brackets
  BY DEF Init, Brackets, IsSteps, Guarded, Closed, Idle
<1>3. Whole(todo)
  BY WholeNone DEF Init
<1>4. ddc.at = DefaultIF /\ input = direct_sampling /\ freq = 0 /\ int_freq = DefaultIF
  BY DEF Init
<1>5. Retuning
  BY <1>3, <1>4 DEF Whole, Retuning, OscillatorFirst, LeavingAfresh, DdcFits, Reported, DefaultIF
<1> QED
  BY <1>1, <1>2, <1>5 DEF Inv

LEMMA InvKept == Inv /\ [Next]_vars => Inv'
<1> SUFFICES ASSUME Inv, [Next]_vars
             PROVE  Inv'
  OBVIOUS
<1>1. CASE Step
  BY <1>1, StepTunes, StepTypes, StepKeeps DEF Inv
<1>2. CASE Call
  BY <1>2, CallTunes, CallTypes, CallKeeps DEF Inv
<1>3. CASE UNCHANGED vars
  <2>1. Retuning'
    BY <1>3 DEF Inv, Retuning, OscillatorFirst, LeavingAfresh, DdcFits, Reported, Received,
                DefaultIF, LowIF, vars, dsVars, cfgVars, xtalVars, chipVars
  <2>2. Brackets'
    BY <1>3 DEF Inv, Brackets, Idle, vars, chipVars
  <2>3. FieldTypes'
    BY <1>3 DEF Inv, FieldTypes, vars, dsVars, cfgVars, xtalVars, chipVars
  <2> QED
    BY <2>1, <2>2, <2>3 DEF Inv
<1> QED
  BY <1>1, <1>2, <1>3 DEF Next

\* However direct sampling, bandwidth, rate, correction and crystals were set, and
\* in whatever order: between two calls the device receives the frequency that
\* rtlsdr_get_center_freq reports, unless offset tuning is on.
THEOREM FrequencyIsTrue == Spec => []TunedWithoutOffset
<1>1. Inv => TunedWithoutOffset
  <2> SUFFICES ASSUME Inv, offs_freq = 0, Idle, freq # 0
               PROVE  /\ Received = [at |-> freq, corr |-> corr]
                      /\ input = 0 => lo.xtal = tun_xtal
    BY DEF TunedWithoutOffset, TunedAsReported
  <2>1. ~Pending(todo)
    BY DEF Idle, Pending
  <2> QED
    BY <2>1 DEF Inv, Retuning, Reported
<1> QED
  BY <1>1, InvHolds, InvKept, PTL DEF Spec
-----------------------------------------------------------------------------
(***************************************************************************)
(* A call for the frequency f already set, in an automatic mode: direct    *)
(* sampling is switched to d before anything is tuned.                     *)
(***************************************************************************)
Switching == {"center", "direct", "enter", "leave"}
Tuning1   == {"tune", "oscillator"}

Settling(s, f, d) ==
    \A i \in 1..Len(s) :
        /\ s[i][1] \in Switching \cup Tuning1 \cup {"repeater", "standby", "init"}
        /\ s[i][1] \in {"center", "tune", "oscillator"} => s[i][2] = f
        /\ s[i][1] \in {"direct", "enter"} => s[i][2] = d
        /\ s[i][1] = "leave" => d = 0
        /\ s[i][1] \in Switching \cup Tuning1 =>
              \A j \in 1..Len(s) : j > i => s[j][1] \notin Switching
Unsettled(s) == \E i \in 1..Len(s) : s[i][1] \in Switching

SettlesAt(f) ==
    /\ Settling(todo, f, NewDs(f))
    /\ r = 0 \/ Unsettled(todo) => freq = f
    /\ Automatic => Unsettled(todo) \/ direct_sampling = NewDs(f)
Settles == call = "again" => \E f : SettlesAt(f)

LEMMA SettlingJoin ==
    ASSUME NEW s, IsSteps(s), NEW t, IsSteps(t), NEW f, NEW d,
           Settling(s, f, d), Settling(t, f, d), ~Unsettled(t)
    PROVE  Settling(s \o t, f, d) /\ (Unsettled(s) <=> Unsettled(s \o t))
<1> DEFINE c == s \o t
           n == Len(s)
           m == Len(t)
<1>1. /\ n \in Nat /\ m \in Nat /\ Len(c) = n + m
      /\ \A i \in 1..n : c[i] = s[i]
      /\ \A i \in 1..m : c[n + i] = t[i]
  BY Parts
<1> HIDE DEF c, n, m
<1>2. \A i \in 1..Len(c) : (i \in 1..n /\ c[i] = s[i]) \/ (i - n \in 1..m /\ c[i] = t[i - n])
  <2> TAKE i \in 1..Len(c)
  <2>1. CASE i <= n
    BY <1>1, <2>1
  <2>2. CASE i > n
    <3>1. i - n \in 1..m /\ n + (i - n) = i
      BY <1>1, <2>2
    <3> QED
      BY <1>1, <3>1
  <2> QED
    BY <1>1, <2>1, <2>2
<1>3. \A i \in 1..m : t[i][1] \notin Switching
  BY DEF Unsettled, m
<1>4. Unsettled(s) <=> Unsettled(c)
  <2>1. ASSUME Unsettled(s)
        PROVE  Unsettled(c)
    <3>1. PICK i \in 1..n : s[i][1] \in Switching
      BY <2>1 DEF Unsettled, n
    <3>2. i \in 1..Len(c) /\ c[i] = s[i]
      BY <1>1
    <3> QED
      BY <3>1, <3>2 DEF Unsettled
  <2>2. ASSUME Unsettled(c)
        PROVE  Unsettled(s)
    BY <1>2, <1>3, <2>2 DEF Unsettled, n
  <2> QED
    BY <2>1, <2>2
<1>5. \A i \in 1..Len(c) :
         /\ c[i][1] \in Switching \cup Tuning1 \cup {"repeater", "standby", "init"}
         /\ c[i][1] \in {"center", "tune", "oscillator"} => c[i][2] = f
         /\ c[i][1] \in {"direct", "enter"} => c[i][2] = d
         /\ c[i][1] = "leave" => d = 0
  <2> TAKE i \in 1..Len(c)
  <2>1. CASE i \in 1..n /\ c[i] = s[i]
    BY <2>1 DEF Settling, n
  <2>2. CASE i - n \in 1..m /\ c[i] = t[i - n]
    BY <2>2 DEF Settling, m
  <2> QED
    BY <1>2, <2>1, <2>2
<1>6. ASSUME NEW i \in 1..Len(c), c[i][1] \in Switching \cup Tuning1,
             NEW j \in 1..Len(c), j > i
      PROVE  c[j][1] \notin Switching
  <2>1. CASE j - n \in 1..m /\ c[j] = t[j - n]
    BY <1>3, <2>1
  <2>2. CASE j \in 1..n /\ c[j] = s[j]
    <3>1. i \in 1..n /\ c[i] = s[i]
      BY <1>1, <1>6, <2>2
    <3> QED
      BY <1>6, <2>2, <3>1 DEF Settling, n
  <2> QED
    BY <1>2, <2>1, <2>2
<1>7. Settling(c, f, d)
  BY <1>5, <1>6 DEF Settling
<1> QED
  BY <1>4, <1>7 DEF c

LEMMA SettlingBehind ==
    ASSUME Inv, NEW op, NEW arg, At(op, arg), NEW f, NEW d, Settling(todo, f, d)
    PROVE  /\ Settling(Tail(todo), f, d)
           /\ op \in Switching \cup Tuning1 => ~Unsettled(Tail(todo))
           /\ op \notin Switching => (Unsettled(Tail(todo)) <=> Unsettled(todo))
<1> DEFINE t == Tail(todo)
<1>1. /\ Len(todo) \in Nat \ {0} /\ 1 \in 1..Len(todo) /\ todo[1][1] = op
      /\ Len(t) = Len(todo) - 1 /\ \A i \in 1..Len(t) : t[i] = todo[i + 1]
  BY First
<1> HIDE DEF t
<1>2. \A i \in 1..Len(t) : i + 1 \in 1..Len(todo) /\ t[i] = todo[i + 1]
  BY <1>1
<1>3. \A i \in 1..Len(t) :
         /\ t[i][1] \in Switching \cup Tuning1 \cup {"repeater", "standby", "init"}
         /\ t[i][1] \in {"center", "tune", "oscillator"} => t[i][2] = f
         /\ t[i][1] \in {"direct", "enter"} => t[i][2] = d
         /\ t[i][1] = "leave" => d = 0
  BY <1>2 DEF Settling
<1>4. ASSUME NEW i \in 1..Len(t), t[i][1] \in Switching \cup Tuning1,
             NEW j \in 1..Len(t), j > i
      PROVE  t[j][1] \notin Switching
  <2>1. i + 1 \in 1..Len(todo) /\ j + 1 \in 1..Len(todo) /\ j + 1 > i + 1
    BY <1>2, <1>4
  <2> QED
    BY <1>2, <1>4, <2>1 DEF Settling
<1>5. Settling(t, f, d)
  BY <1>3, <1>4 DEF Settling
<1>6. ASSUME op \in Switching \cup Tuning1
      PROVE  ~Unsettled(t)
  <2> SUFFICES ASSUME NEW i \in 1..Len(t), t[i][1] \in Switching
               PROVE  FALSE
    BY DEF Unsettled
  <2>1. i + 1 \in 1..Len(todo) /\ i + 1 > 1 /\ todo[i + 1][1] \in Switching
    BY <1>2
  <2> QED
    BY <1>1, <1>6, <2>1 DEF Settling
<1>7. ASSUME op \notin Switching
      PROVE  Unsettled(t) <=> Unsettled(todo)
  <2>1. ASSUME Unsettled(t)
        PROVE  Unsettled(todo)
    BY <1>2, <2>1 DEF Unsettled
  <2>2. ASSUME Unsettled(todo)
        PROVE  Unsettled(t)
    <3>1. PICK i \in 1..Len(todo) : todo[i][1] \in Switching
      BY <2>2 DEF Unsettled
    <3>2. i # 1
      BY <1>1, <1>7, <3>1
    <3>3. i - 1 \in 1..Len(t) /\ (i - 1) + 1 = i
      BY <1>1, <3>2
    <3> QED
      BY <1>1, <3>1, <3>3 DEF Unsettled
  <2> QED
    BY <2>1, <2>2
<1> QED
  BY <1>5, <1>6, <1>7 DEF t

LEMMA SettlingNone ==
    ASSUME NEW f, NEW d
    PROVE  IsSteps(<<>>) /\ Settling(<<>>, f, d) /\ ~Unsettled(<<>>)
BY DEF IsSteps, Settling, Unsettled

LEMMA SettlingOne ==
    ASSUME NEW op, NEW arg, NEW f, NEW d,
           op \in {"center", "direct", "tune"},
           op \in {"center", "tune"} => arg = f,
           op = "direct" => arg = d
    PROVE  /\ IsSteps(<< <<op, arg>> >>) /\ Settling(<< <<op, arg>> >>, f, d)
           /\ Unsettled(<< <<op, arg>> >>) <=> op # "tune"
<1> DEFINE x == <<op, arg>>
           s == <<x>>
<1>1. s \in Seq({x}) /\ Len(s) = 1 /\ s[1] = x
  OBVIOUS
<1>2. x[1] = op /\ x[2] = arg
  OBVIOUS
<1> HIDE DEF s, x
<1>3. 1 \in 1..Len(s) /\ \A i \in 1..Len(s) : i = 1 /\ s[i][1] = op /\ s[i][2] = arg
  BY <1>1, <1>2
<1>4. \A i, j \in 1..Len(s) : ~(j > i)
  BY <1>1
<1>5. Settling(s, f, d)
  BY <1>3, <1>4 DEF Settling, Switching, Tuning1
<1>6. Unsettled(s) <=> op # "tune"
  BY <1>3 DEF Unsettled, Switching
<1>7. IsSteps(s)
  BY <1>1 DEF IsSteps
<1> QED
  BY <1>5, <1>6, <1>7 DEF s, x

LEMMA SettlingFour ==
    ASSUME NEW op, NEW arg, NEW then, NEW value, NEW f, NEW d,
           op \in {"standby", "init"}, then \in {"enter", "leave"},
           then = "enter" => value = d,
           then = "leave" => d = 0
    PROVE  /\ IsSteps(BracketThen(op, arg, then, value))
           /\ Settling(BracketThen(op, arg, then, value), f, d)
           /\ Unsettled(BracketThen(op, arg, then, value))
<1> SUFFICES ASSUME NEW s, s = BracketThen(op, arg, then, value)
             PROVE  IsSteps(s) /\ Settling(s, f, d) /\ Unsettled(s)
  OBVIOUS
<1>1. /\ IsSteps(s) /\ Len(s) = 4
      /\ s[1] = On /\ s[2] = <<op, arg>> /\ s[3] = Off /\ s[4] = <<then, value>>
  BY Four
<1>2. /\ s[1][1] = "repeater" /\ s[2][1] = op /\ s[3][1] = "repeater"
      /\ s[4][1] = then /\ s[4][2] = value /\ 4 \in 1..Len(s)
  BY <1>1, OnAndOff
<1>3. \A i \in 1..Len(s) : i = 1 \/ i = 2 \/ i = 3 \/ i = 4
  BY <1>1
<1>4. \A i \in 1..Len(s) : (i = 4 /\ s[i][1] = then /\ s[i][2] = value)
                          \/ s[i][1] \in {"repeater", "standby", "init"}
  BY <1>2, <1>3
<1>5. \A i \in 1..Len(s) : s[i][1] \in Switching \cup Tuning1 => i = 4
  BY <1>4 DEF Switching, Tuning1
<1>6. \A i, j \in 1..Len(s) : i = 4 => ~(j > i)
  BY <1>1
<1>7. Settling(s, f, d)
  BY <1>4, <1>5, <1>6 DEF Settling, Switching
<1>8. Unsettled(s)
  BY <1>2 DEF Unsettled, Switching
<1> QED
  BY <1>1, <1>7, <1>8

LEMMA SettlingOscillator ==
    ASSUME NEW f, NEW d
    PROVE  /\ IsSteps(Repeated("oscillator", f)) /\ Settling(Repeated("oscillator", f), f, d)
           /\ ~Unsettled(Repeated("oscillator", f))
<1> DEFINE x == <<"oscillator", f>>
           s == <<On, x, Off>>
<1>1. Repeated("oscillator", f) = s
  BY DEF Repeated, On, Off
<1>2. x[1] = "oscillator" /\ x[2] = f
  OBVIOUS
<1> HIDE DEF x
<1>3. s \in Seq({On, x, Off}) /\ Len(s) = 3 /\ s[1] = On /\ s[2] = x /\ s[3] = Off
  OBVIOUS
<1> HIDE DEF s
<1>4. \A i \in 1..Len(s) : s[i][1] = "repeater" \/ (s[i][1] = "oscillator" /\ s[i][2] = f)
  <2>1. \A i \in 1..Len(s) : s[i] = On \/ s[i] = x \/ s[i] = Off
    BY <1>3
  <2> QED
    BY <1>2, <2>1, OnAndOff
<1>5. ~Unsettled(s)
  BY <1>4 DEF Unsettled, Switching
<1>6. Settling(s, f, d)
  BY <1>4 DEF Settling, Switching, Tuning1
<1> QED
  BY <1>1, <1>3, <1>5, <1>6 DEF IsSteps

\* A step of such a call, and what is put in its place.
LEMMA SettlingStep ==
    ASSUME Inv, NEW op, NEW arg, At(op, arg), NEW f, NEW d, Settling(todo, f, d),
           NEW steps, Run(steps), IsSteps(steps), Settling(steps, f, d),
           op \in Switching \cup Tuning1
    PROVE  Settling(todo', f, d) /\ (Unsettled(todo') <=> Unsettled(steps))
<1>1. Settling(Tail(todo), f, d) /\ ~Unsettled(Tail(todo)) /\ IsSteps(Tail(todo))
  BY SettlingBehind, First
<1>2. todo' = steps \o Tail(todo)
  BY DEF Run
<1> QED
  BY <1>1, <1>2, SettlingJoin

\* ... and one that only makes way for the next.
LEMMA SettlingPass ==
    ASSUME Inv, NEW op, NEW arg, At(op, arg), NEW f, NEW d, Settling(todo, f, d),
           Run(<<>>), op \notin Switching
    PROVE  Settling(todo', f, d) /\ (Unsettled(todo') <=> Unsettled(todo))
<1>1. todo' = Tail(todo)
  BY Done DEF At
<1> QED
  BY <1>1, SettlingBehind

LEMMA StepSettles ==
    ASSUME Inv, Settles, Step
    PROVE  Settles'
<1>0. UNCHANGED <<direct_sampling_mode, direct_sampling_threshold, call>>
  BY DEF Step, SetRepeater, SetOffsetTuning, SetCenterFreq, TuneDdc, TuneTuner, SetOscillator,
         SetDirectSampling, EnterDirect, SetTunerXtal, Standby, InitTuner, LeaveDirect, AfterRate,
         Retune, SetBwLowIF, SetBwZeroIF, KeepBw, dsVars
<1> SUFFICES ASSUME call = "again", NEW f, SettlesAt(f)
             PROVE  SettlesAt(f)'
  BY <1>0 DEF Settles
<1> DEFINE d == NewDs(f)
<1>1. NewDs(f)' = d /\ (Automatic' <=> Automatic)
  BY <1>0 DEF NewDs, Automatic
<1>2. /\ Settling(todo, f, d)
      /\ r = 0 \/ Unsettled(todo) => freq = f
      /\ Automatic => Unsettled(todo) \/ direct_sampling = d
  BY DEF SettlesAt
<1> SUFFICES /\ Settling(todo', f, d)
             /\ r' = 0 \/ Unsettled(todo') => freq' = f
             /\ Automatic => Unsettled(todo') \/ direct_sampling' = d
  BY <1>1 DEF SettlesAt
<1> HIDE DEF d
\* What the first step can be.
<1>3. ASSUME NEW op, NEW arg, At(op, arg)
      PROVE  /\ op \in Switching \cup Tuning1 \cup {"repeater", "standby", "init"}
             /\ op \in {"center", "tune", "oscillator"} => arg = f
             /\ op \in {"direct", "enter"} => arg = d
             /\ op = "leave" => d = 0
             /\ op \in Switching => freq = f
  <2>1. 1 \in 1..Len(todo) /\ todo[1][1] = op /\ todo[1][2] = arg
    BY <1>3, First
  <2>2. op \in Switching => Unsettled(todo)
    BY <2>1 DEF Unsettled
  <2> QED
    BY <1>2, <2>1, <2>2 DEF Settling
<1>4. ASSUME NEW on, SetRepeater(on)
      PROVE  /\ Settling(todo', f, d)
             /\ r' = 0 \/ Unsettled(todo') => freq' = f
             /\ Automatic => Unsettled(todo') \/ direct_sampling' = d
  <2>1. Settling(todo', f, d) /\ (Unsettled(todo') <=> Unsettled(todo))
    BY <1>2, <1>4, SettlingPass DEF SetRepeater, Switching
  <2> QED
    BY <1>2, <1>4, <2>1 DEF SetRepeater, dsVars
<1>5. ASSUME Standby \/ InitTuner
      PROVE  /\ Settling(todo', f, d)
             /\ r' = 0 \/ Unsettled(todo') => freq' = f
             /\ Automatic => Unsettled(todo') \/ direct_sampling' = d
  <2>1. Settling(todo', f, d) /\ (Unsettled(todo') <=> Unsettled(todo))
    BY <1>2, <1>5, SettlingPass DEF Standby, InitTuner, Switching
  <2> QED
    BY <1>2, <1>5, <2>1 DEF Standby, InitTuner, dsVars
<1>6. ASSUME NEW g, SetCenterFreq(g)
      PROVE  /\ Settling(todo', f, d)
             /\ r' = 0 \/ Unsettled(todo') => freq' = f
             /\ Automatic => Unsettled(todo') \/ direct_sampling' = d
  <2>1. At("center", g) /\ g = f /\ freq = f
    BY <1>3, <1>6 DEF SetCenterFreq, Switching
  <2>2. UNCHANGED <<freq, r, direct_sampling>>
    BY <1>6 DEF SetCenterFreq, dsVars
  <2>3. CASE Switches(f)
    <3> DEFINE one == << <<"direct", d>> >>
               two == << <<"tune", f>> >>
    <3>1. IsSteps(one) /\ Settling(one, f, d) /\ Unsettled(one)
      BY SettlingOne
    <3>2. IsSteps(two) /\ Settling(two, f, d) /\ ~Unsettled(two)
      BY SettlingOne
    <3>3. Run(<< <<"direct", d>>, <<"tune", f>> >>)
      BY <1>6, <2>1, <2>3 DEF SetCenterFreq, d
    <3>4. << <<"direct", d>>, <<"tune", f>> >> = one \o two
      OBVIOUS
    <3>5. Run(one \o two)
      BY <3>3, <3>4
    <3> HIDE DEF one, two
    <3>6. IsSteps(one \o two) /\ Settling(one \o two, f, d) /\ Unsettled(one \o two)
      BY <3>1, <3>2, SettlingJoin, Parts
    <3>7. Settling(todo', f, d) /\ Unsettled(todo')
      BY <1>2, <2>1, <3>5, <3>6, SettlingStep DEF Switching
    <3> QED
      BY <2>1, <2>2, <3>7
  <2>4. CASE ~Switches(f)
    <3>1. Run(<< <<"tune", f>> >>)
      BY <1>6, <2>1, <2>4 DEF SetCenterFreq
    <3>2. Settling(todo', f, d)
      BY <1>2, <2>1, <3>1, SettlingOne, SettlingStep DEF Switching
    <3>3. Automatic => direct_sampling = d
      BY <2>4 DEF Switches, d
    <3> QED
      BY <2>1, <2>2, <3>2, <3>3
  <2> QED
    BY <2>3, <2>4
<1>7. ASSUME NEW g, TuneDdc(g)
      PROVE  /\ Settling(todo', f, d)
             /\ r' = 0 \/ Unsettled(todo') => freq' = f
             /\ Automatic => Unsettled(todo') \/ direct_sampling' = d
  <2>1. At("tune", g) /\ g = f /\ Run(<<>>) /\ ~Unsettled(todo)
    <3>1. At("tune", g) /\ g = f /\ Run(<<>>)
      BY <1>3, <1>7 DEF TuneDdc
    <3>2. ~Unsettled(todo)
      BY <1>2, <3>1, SettlingBehind DEF Switching, Tuning1
    <3> QED
      BY <3>1, <3>2
  <2>2. Settling(todo', f, d) /\ ~Unsettled(todo')
    BY <1>2, <2>1, SettlingPass DEF Switching
  <2> QED
    BY <1>2, <1>7, <2>1, <2>2 DEF TuneDdc, dsVars
<1>8. ASSUME NEW g, TuneTuner(g)
      PROVE  /\ Settling(todo', f, d)
             /\ r' = 0 \/ Unsettled(todo') => freq' = f
             /\ Automatic => Unsettled(todo') \/ direct_sampling' = d
  <2>1. At("tune", g) /\ g = f /\ ~Unsettled(todo)
    <3>1. At("tune", g) /\ g = f
      BY <1>3, <1>8 DEF TuneTuner
    <3>2. ~Unsettled(todo)
      BY <1>2, <3>1, SettlingBehind DEF Switching, Tuning1
    <3> QED
      BY <3>1, <3>2
  <2>2. Run(Repeated("oscillator", f))
    BY <1>8, <2>1 DEF TuneTuner
  <2>3. Settling(todo', f, d) /\ ~Unsettled(todo')
    BY <1>2, <2>1, <2>2, SettlingOscillator, SettlingStep DEF Tuning1
  <2> QED
    BY <1>2, <1>8, <2>1, <2>3 DEF TuneTuner, dsVars
<1>9. ASSUME NEW g, SetOscillator(g)
      PROVE  /\ Settling(todo', f, d)
             /\ r' = 0 \/ Unsettled(todo') => freq' = f
             /\ Automatic => Unsettled(todo') \/ direct_sampling' = d
  <2>1. At("oscillator", g) /\ g = f /\ Run(<<>>) /\ ~Unsettled(todo)
    <3>1. At("oscillator", g) /\ g = f /\ Run(<<>>)
      BY <1>3, <1>9 DEF SetOscillator, GiveUp
    <3>2. ~Unsettled(todo)
      BY <1>2, <3>1, SettlingBehind DEF Switching, Tuning1
    <3> QED
      BY <3>1, <3>2
  <2>2. Settling(todo', f, d) /\ ~Unsettled(todo')
    BY <1>2, <2>1, SettlingPass DEF Switching
  <2>3. r' = 0 => freq' = f
    BY <1>9, <2>1 DEF SetOscillator
  <2>4. direct_sampling' = direct_sampling
    BY <1>9 DEF SetOscillator, dsVars
  <2> QED
    BY <1>2, <2>1, <2>2, <2>3, <2>4
<1>10. ASSUME NEW on, SetDirectSampling(on)
       PROVE  /\ Settling(todo', f, d)
              /\ r' = 0 \/ Unsettled(todo') => freq' = f
              /\ Automatic => Unsettled(todo') \/ direct_sampling' = d
  <2>1. At("direct", on) /\ on = d /\ freq = f /\ UNCHANGED freq
    BY <1>3, <1>10 DEF SetDirectSampling, Switching
  <2>2. \/ d # 0 /\ Run(BracketThen("standby", 0, "enter", d))
        \/ d = 0 /\ Run(BracketThen("init", 0, "leave", 0))
    BY <1>10, <2>1 DEF SetDirectSampling, BracketThen
  <2>3. Settling(todo', f, d) /\ Unsettled(todo')
    <3>1. CASE d # 0 /\ Run(BracketThen("standby", 0, "enter", d))
      BY <1>2, <2>1, <3>1, SettlingFour, SettlingStep DEF Switching
    <3>2. CASE d = 0 /\ Run(BracketThen("init", 0, "leave", 0))
      BY <1>2, <2>1, <3>2, SettlingFour, SettlingStep DEF Switching
    <3> QED
      BY <2>2, <3>1, <3>2
  <2> QED
    BY <2>1, <2>3
<1>11. ASSUME NEW on, EnterDirect(on)
       PROVE  /\ Settling(todo', f, d)
              /\ r' = 0 \/ Unsettled(todo') => freq' = f
              /\ Automatic => Unsettled(todo') \/ direct_sampling' = d
  <2>1. At("enter", on) /\ freq = f /\ UNCHANGED freq /\ Run(<< <<"center", f>> >>)
    BY <1>3, <1>11 DEF EnterDirect, Switching
  <2>2. Settling(todo', f, d) /\ Unsettled(todo')
    BY <1>2, <2>1, SettlingOne, SettlingStep DEF Switching
  <2> QED
    BY <2>1, <2>2
<1>12. ASSUME LeaveDirect
       PROVE  /\ Settling(todo', f, d)
              /\ r' = 0 \/ Unsettled(todo') => freq' = f
              /\ Automatic => Unsettled(todo') \/ direct_sampling' = d
  <2>1. At("leave", 0) /\ freq = f /\ UNCHANGED freq /\ Run(<< <<"center", f>> >>)
    BY <1>3, <1>12 DEF LeaveDirect, Switching
  <2>2. Settling(todo', f, d) /\ Unsettled(todo')
    BY <1>2, <2>1, SettlingOne, SettlingStep DEF Switching
  <2> QED
    BY <2>1, <2>2
<1>13. ASSUME NEW op, NEW arg, At(op, arg),
              op \in {"set_bw", "keep_bw", "after_rate", "offset", "retune", "tuner_xtal"}
       PROVE  FALSE
  BY <1>3, <1>13 DEF Switching, Tuning1
<1>14. ASSUME NEW width
       PROVE  ~SetBwLowIF(width) /\ ~SetBwZeroIF(width) /\ ~KeepBw(width)
  BY <1>13 DEF SetBwLowIF, SetBwZeroIF, KeepBw
<1>15. ~AfterRate /\ ~Retune
  BY <1>13 DEF AfterRate, Retune
<1>16. ASSUME NEW arg
       PROVE  ~SetOffsetTuning(arg) /\ ~SetTunerXtal(arg)
  BY <1>13 DEF SetOffsetTuning, SetTunerXtal
<1> QED
  BY <1>4, <1>5, <1>6, <1>7, <1>8, <1>9, <1>10, <1>11, <1>12, <1>14, <1>15, <1>16 DEF Step

LEMMA CallSettles ==
    ASSUME Call
    PROVE  Settles'
<1> SUFFICES ASSUME call' = "again"
             PROVE  \E f : SettlesAt(f)'
  BY DEF Settles
<1>1. PICK f \in Freqs : CallCenterFreq(f)
  BY DEF Call, CallDirectSampling, CallDsMode, CallSampleRate, CallBandwidth, CallOffsetTuning,
         CallFreqCorrection, CallXtalFreq, Called
<1>2. freq' = f /\ todo' = << <<"center", f>> >>
  BY <1>1 DEF CallCenterFreq, Called
<1>3. Settling(todo', f, NewDs(f)') /\ Unsettled(todo')
  BY <1>2, SettlingOne
<1> QED
  BY <1>2, <1>3 DEF SettlesAt

\* A call of rtlsdr_set_center_freq for the frequency already set switches direct
\* sampling to what the automatic mode asks for there, or reports that the tuner
\* refused.
THEOREM RepeatSettles == Spec => []AutoSettles
<1>1. Init => Settles
  BY DEF Init, Settles
<1>2. Inv /\ Settles /\ [Next]_vars => Settles'
  <2> SUFFICES ASSUME Inv, Settles, [Next]_vars
               PROVE  Settles'
    OBVIOUS
  <2>1. CASE UNCHANGED vars
    BY <2>1 DEF Settles, SettlesAt, Automatic, NewDs, vars, dsVars
  <2> QED
    BY <2>1, StepSettles, CallSettles DEF Next
<1>3. Settles => AutoSettles
  <2> SUFFICES ASSUME Settles, Idle, call = "again", r = 0, Automatic
               PROVE  direct_sampling = NewDs(freq)
    BY DEF AutoSettles, ModeFits
  <2>1. PICK f : SettlesAt(f)
    BY DEF Settles
  <2>2. ~Unsettled(todo)
    BY DEF Unsettled, Idle
  <2> QED
    BY <2>1, <2>2 DEF SettlesAt
<1> QED
  BY <1>1, <1>2, <1>3, InvHolds, InvKept, PTL DEF Spec

-----------------------------------------------------------------------------
(***************************************************************************)
(* How deep the calls nest.  A step takes up the places of all it puts in  *)
(* front of the rest, one after the other; that a switch of direct         *)
(* sampling is not repeated for the same frequency ends the recursion.     *)
(***************************************************************************)
Opening == {"direct", "enter", "leave"}
Passing == {"repeater", "standby", "init"}

\* The places that a step that switches direct sampling to on takes up, behind first.
RoomFor(on, first) == IF Automatic /\ NewDs(freq) # on THEN 5 ELSE first

RoomAt(i) ==
    IF todo[i][1] = "center"
    THEN IF ~Automatic \/ NewDs(todo[i][2]) = direct_sampling THEN 3
         ELSE IF todo[i][2] = freq THEN 5 ELSE 6
    ELSE IF todo[i][1] = "direct" THEN RoomFor(todo[i][2], 4)
    ELSE IF todo[i][1] \in {"enter", "leave"} THEN RoomFor(todo[i][2], 3)
    ELSE IF todo[i][1] = "tune" THEN 3
    ELSE IF todo[i][1] = "set_bw" THEN IF LowIF THEN 5 ELSE 1
    ELSE IF todo[i][1] \in {"offset", "after_rate"} THEN IF LowIF THEN 1 ELSE 5
    ELSE IF todo[i][1] \in {"retune", "tuner_xtal"} THEN 5
    ELSE 1

Room == \A i \in 1..Len(todo) : RoomAt(i) + (Len(todo) - i) <= MaxNested

\* Nothing is tuned before a switch of direct sampling, and only the last step may
\* ask for another frequency than the one that is set.
SwitchFirst ==
    \A i \in 1..Len(todo) :
        /\ todo[i][1] \in Opening => \A j \in 1..Len(todo) : j < i => todo[j][1] \in Passing
        /\ todo[i][1] = "center" => i = Len(todo) \/ (i = 1 /\ todo[i][2] = freq)
Depth == Room /\ SwitchFirst

LEMMA RoomRange == \A i : RoomAt(i) \in 1..6
BY DEF RoomAt, RoomFor

\* What a step leaves: its own steps, and the others as they were.
LEMMA Left ==
    ASSUME Inv, NEW op, NEW arg, At(op, arg), NEW steps, IsSteps(steps), Run(steps)
    PROVE  /\ Len(steps) \in Nat /\ Len(todo) \in Nat \ {0} /\ Len(todo') = Len(steps) + Len(todo) - 1
           /\ \A i \in 1..Len(steps) : todo'[i] = steps[i]
           /\ \A i \in 2..Len(todo) : todo'[Len(steps) + (i - 1)] = todo[i]
<1> DEFINE t == Tail(todo)
<1>1. /\ IsSteps(t) /\ Len(todo) \in Nat \ {0} /\ Len(t) = Len(todo) - 1
      /\ \A i \in 1..Len(t) : t[i] = todo[i + 1]
  BY First
<1>2. todo' = steps \o t
  BY DEF Run
<1> HIDE DEF t
<1>3. /\ Len(steps) \in Nat /\ Len(todo') = Len(steps) + Len(t)
      /\ \A i \in 1..Len(steps) : todo'[i] = steps[i]
      /\ \A i \in 1..Len(t) : todo'[Len(steps) + i] = t[i]
  <2>1. IsSteps(steps) /\ IsSteps(t)
    BY <1>1
  <2>2. /\ Len(steps) \in Nat /\ Len(steps \o t) = Len(steps) + Len(t)
        /\ \A i \in 1..Len(steps) : (steps \o t)[i] = steps[i]
        /\ \A i \in 1..Len(t) : (steps \o t)[Len(steps) + i] = t[i]
    BY <2>1, Parts
  <2> QED
    BY <1>2, <2>2
<1>4. ASSUME NEW i \in 2..Len(todo)
      PROVE  todo'[Len(steps) + (i - 1)] = todo[i]
  <2>1. i - 1 \in 1..Len(t) /\ (i - 1) + 1 = i
    BY <1>1
  <2> QED
    BY <1>1, <1>3, <2>1
<1>5. Len(todo') = Len(steps) + Len(todo) - 1
  BY <1>1, <1>3
<1> QED
  BY <1>1, <1>3, <1>4, <1>5

\* A step keeps the depth if what it puts in front takes up its own places.
LEMMA DepthKept ==
    ASSUME Inv, Depth, NEW op, NEW arg, At(op, arg), NEW n \in Nat,
           Len(todo') = n + Len(todo) - 1,
           \A i \in 2..Len(todo) : todo'[n + (i - 1)] = todo[i],
           UNCHANGED <<tuner_type, direct_sampling_mode, direct_sampling_threshold>>,
           UNCHANGED freq \/ op \in {"tune", "oscillator"},
           op \in Passing => n = 0,
           \A i \in 1..n : RoomAt(i)' + (n - i) <= RoomAt(1),
           \A i \in 1..n : todo'[i][1] \in Opening => \A j \in 1..n : j < i => todo'[j][1] \in Passing,
           \A i \in 1..n : todo'[i][1] = "center" => n = 1 /\ todo'[i][2] = freq'
    PROVE  Depth'
<1>1. /\ Len(todo) \in Nat \ {0} /\ 1 \in 1..Len(todo) /\ todo[1][1] = op
  BY First
\* A step of todo' is new, or one of the others.
<1>2. ASSUME NEW i \in 1..Len(todo')
      PROVE  i \in 1..n \/ \E k \in 2..Len(todo) : i = n + (k - 1) /\ todo'[i] = todo[k]
  <2>1. CASE i > n
    <3>1. i - n + 1 \in 2..Len(todo) /\ i = n + ((i - n + 1) - 1)
      BY <1>1, <2>1
    <3> QED
      BY <3>1
  <2> QED
    BY <2>1
<1>3. ASSUME NEW k \in 2..Len(todo)
      PROVE  /\ todo[k][1] \in Opening => op \in Passing
             /\ todo[k][1] = "center" => k = Len(todo)
  BY <1>1 DEF Depth, SwitchFirst
<1>4. Room'
  <2> SUFFICES ASSUME NEW i \in 1..Len(todo')
               PROVE  RoomAt(i)' + (Len(todo') - i) <= MaxNested
    BY DEF Room, MaxNested
  <2>0. RoomAt(1) + (Len(todo) - 1) <= MaxNested /\ RoomAt(1) \in 1..6 /\ RoomAt(i)' \in 1..6
    <3>1. RoomAt(i)' \in 1..6
      BY DEF RoomAt, RoomFor
    <3> QED
      BY <1>1, <3>1, RoomRange DEF Depth, Room
  <2>1. CASE i \in 1..n
    <3> DEFINE own   == RoomAt(i)'
               first == RoomAt(1)
    <3>1. own + (n - i) <= first /\ first + (Len(todo) - 1) <= MaxNested /\ first \in 1..6 /\ own \in 1..6
      BY <2>0, <2>1
    <3> HIDE DEF own, first
    <3>2. own + (Len(todo') - i) <= MaxNested
      BY <1>1, <2>1, <3>1 DEF MaxNested
    <3> QED
      BY <3>2 DEF own
  <2>2. ASSUME NEW k \in 2..Len(todo), i = n + (k - 1), todo'[i] = todo[k]
        PROVE  RoomAt(i)' + (Len(todo') - i) <= MaxNested
    <3>0. Len(todo') - i = Len(todo) - k
      BY <1>1, <2>2
    <3>1. CASE k = Len(todo)
      BY <2>0, <3>0, <3>1, <1>1 DEF MaxNested
    <3>2. CASE k # Len(todo)
      <4>1. todo[k][1] # "center"
        BY <1>3, <3>2
      <4>2. todo[k][1] \in Opening => UNCHANGED freq
        BY <1>3 DEF Passing
      <4>3. RoomAt(i)' = RoomAt(k)
        BY <2>2, <4>1, <4>2 DEF RoomAt, RoomFor, Opening, Automatic, NewDs, LowIF
      <4>4. k \in 1..Len(todo)
        BY <1>1
      <4> QED
        BY <3>0, <4>3, <4>4 DEF Depth, Room
    <3> QED
      BY <3>1, <3>2
  <2> QED
    BY <1>2, <2>1, <2>2
<1>5. SwitchFirst'
  <2> SUFFICES ASSUME NEW i \in 1..Len(todo')
               PROVE  /\ todo'[i][1] \in Opening =>
                            \A j \in 1..Len(todo') : j < i => todo'[j][1] \in Passing
                      /\ todo'[i][1] = "center" => i = Len(todo') \/ (i = 1 /\ todo'[i][2] = freq')
    BY DEF SwitchFirst
  <2>1. CASE i \in 1..n
    <3>1. \A j \in 1..Len(todo') : j < i => j \in 1..n
      BY <1>1, <2>1
    <3>2. todo'[i][1] = "center" => i = 1 /\ todo'[i][2] = freq'
      BY <2>1
    <3> QED
      BY <2>1, <3>1, <3>2
  <2>2. ASSUME NEW k \in 2..Len(todo), i = n + (k - 1), todo'[i] = todo[k]
        PROVE  /\ todo'[i][1] \in Opening =>
                     \A j \in 1..Len(todo') : j < i => todo'[j][1] \in Passing
               /\ todo'[i][1] = "center" => i = Len(todo') \/ (i = 1 /\ todo'[i][2] = freq')
    <3>1. todo'[i][1] = "center" => i = Len(todo')
      BY <1>1, <1>3, <2>2
    <3>2. ASSUME todo'[i][1] \in Opening, NEW j \in 1..Len(todo'), j < i
          PROVE  todo'[j][1] \in Passing
      <4>1. n = 0
        BY <1>3, <2>2, <3>2
      <4>2. j + 1 \in 2..Len(todo) /\ j + 1 < k /\ n + ((j + 1) - 1) = j
        BY <1>1, <2>2, <3>2, <4>1
      <4>3. todo'[j] = todo[j + 1]
        BY <4>2
      <4>4. k \in 1..Len(todo) /\ j + 1 \in 1..Len(todo)
        BY <1>1, <4>2
      <4> QED
        BY <2>2, <3>2, <4>2, <4>3, <4>4 DEF Depth, SwitchFirst
    <3> QED
      BY <3>1, <3>2
  <2> QED
    BY <1>2, <2>1, <2>2
<1> QED
  BY <1>4, <1>5 DEF Depth

LEMMA NoneLeft ==
    ASSUME Inv, Depth, NEW op, NEW arg, At(op, arg), Run(<<>>),
           UNCHANGED <<tuner_type, direct_sampling_mode, direct_sampling_threshold>>,
           UNCHANGED freq \/ op \in {"tune", "oscillator"}
    PROVE  Depth'
<1>1. /\ Len(todo) \in Nat \ {0} /\ IsSteps(todo)
      /\ Len(Tail(todo)) = Len(todo) - 1
      /\ \A i \in 1..Len(Tail(todo)) : Tail(todo)[i] = todo[i + 1]
  BY First
<1>2. todo' = Tail(todo)
  BY Done DEF At
<1>3. Len(todo') = 0 + Len(todo) - 1
  BY <1>1, <1>2
<1>4. ASSUME NEW i \in 2..Len(todo)
      PROVE  todo'[0 + (i - 1)] = todo[i]
  <2>1. i - 1 \in 1..Len(Tail(todo)) /\ (i - 1) + 1 = i /\ 0 + (i - 1) = i - 1
    BY <1>1
  <2> QED
    BY <1>1, <1>2, <2>1
<1> QED
  BY <1>3, <1>4, DepthKept

LEMMA OneLeft ==
    ASSUME Inv, Depth, NEW op, NEW arg, At(op, arg), op \notin Passing,
           NEW next, NEW value, Run(<< <<next, value>> >>),
           UNCHANGED <<tuner_type, direct_sampling_mode, direct_sampling_threshold, freq>>
    PROVE  /\ todo'[1][1] = next /\ todo'[1][2] = value
           /\ (next = "center" => value = freq) /\ RoomAt(1)' <= RoomAt(1) => Depth'
<1> DEFINE x == <<next, value>>
           s == <<x>>
<1>1. IsSteps(s) /\ Len(s) = 1 /\ s[1] = x
  <2>1. s \in Seq({x})
    OBVIOUS
  <2> QED
    BY <2>1 DEF IsSteps
<1>2. x[1] = next /\ x[2] = value
  OBVIOUS
<1>3. Run(s)
  OBVIOUS
<1> HIDE DEF x, s
<1>4. /\ Len(todo) \in Nat \ {0} /\ Len(todo') = 1 + Len(todo) - 1
      /\ todo'[1] = x
      /\ \A i \in 2..Len(todo) : todo'[1 + (i - 1)] = todo[i]
  <2>1. /\ Len(todo) \in Nat \ {0} /\ Len(todo') = Len(s) + Len(todo) - 1
        /\ \A i \in 1..Len(s) : todo'[i] = s[i]
        /\ \A i \in 2..Len(todo) : todo'[Len(s) + (i - 1)] = todo[i]
    BY <1>1, <1>3, Left
  <2> QED
    BY <1>1, <2>1
<1>5. todo'[1][1] = next /\ todo'[1][2] = value
  BY <1>2, <1>4
<1>6. ASSUME next = "center" => value = freq, RoomAt(1)' <= RoomAt(1)
      PROVE  Depth'
  <2>1. \A i \in 1..1 : RoomAt(i)' + (1 - i) <= RoomAt(1)
    <3> DEFINE own   == RoomAt(1)'
               first == RoomAt(1)
    <3>1. own \in 1..6 /\ first \in 1..6 /\ own <= first
      <4>1. own \in 1..6
        BY DEF RoomAt, RoomFor
      <4> QED
        BY <1>6, <4>1, RoomRange
    <3> HIDE DEF own, first
    <3>2. own + (1 - 1) <= first
      BY <3>1
    <3> QED
      BY <3>2 DEF own, first
  <2>2. \A i \in 1..1 : todo'[i][1] \in Opening => \A j \in 1..1 : j < i => todo'[j][1] \in Passing
    OBVIOUS
  <2>3. \A i \in 1..1 : todo'[i][1] = "center" => 1 = 1 /\ todo'[i][2] = freq'
    BY <1>5, <1>6
  <2> QED
    BY <1>4, <2>1, <2>2, <2>3, DepthKept
<1> QED
  BY <1>5, <1>6

\* The room of the first step, by what it is.
LEMMA FirstRoom ==
    ASSUME Inv, NEW op, NEW arg, At(op, arg)
    PROVE  /\ op \in Opening => RoomAt(1) = RoomFor(arg, IF op = "direct" THEN 4 ELSE 3)
           /\ op = "center" => RoomAt(1) = IF ~Automatic \/ NewDs(arg) = direct_sampling THEN 3
                                           ELSE IF arg = freq THEN 5 ELSE 6
           /\ op = "tune" => RoomAt(1) = 3
           /\ op = "set_bw" => RoomAt(1) = IF LowIF THEN 5 ELSE 1
           /\ op \in {"offset", "after_rate"} => RoomAt(1) = IF LowIF THEN 1 ELSE 5
           /\ op \in {"retune", "tuner_xtal"} => RoomAt(1) = 5
<1>1. todo[1][1] = op /\ todo[1][2] = arg
  BY First
<1> QED
  BY <1>1 DEF RoomAt, Opening

\* Steps that end by tuning to the frequency that is set.
LEMMA CenterLeft ==
    ASSUME Inv, Depth, NEW op, NEW arg, At(op, arg), Run(<< <<"center", freq>> >>),
           UNCHANGED <<tuner_type, direct_sampling_mode, direct_sampling_threshold, freq>>,
           \/ op \in {"enter", "leave"} /\ direct_sampling' = arg
           \/ op = "set_bw" /\ LowIF
           \/ op \in {"retune", "tuner_xtal"}
    PROVE  Depth'
<1>1. op \notin Passing
  BY DEF Passing
<1>2. todo'[1][1] = "center" /\ todo'[1][2] = freq'
  BY <1>1, OneLeft
<1>3. RoomAt(1)' = IF ~Automatic \/ NewDs(freq) = direct_sampling' THEN 3 ELSE 5
  BY <1>2 DEF RoomAt, Automatic, NewDs
<1>4. RoomAt(1)' <= RoomAt(1)
  <2>1. CASE op \in {"enter", "leave"} /\ direct_sampling' = arg
    <3>1. RoomAt(1) = RoomFor(arg, 3)
      BY <2>1, FirstRoom DEF Opening
    <3> QED
      BY <1>3, <2>1, <3>1 DEF RoomFor
  <2>2. CASE (op = "set_bw" /\ LowIF) \/ op \in {"retune", "tuner_xtal"}
    <3>1. RoomAt(1) = 5
      BY <2>2, FirstRoom
    <3> QED
      BY <1>3, <3>1
  <2> QED
    BY <2>1, <2>2
<1> QED
  BY <1>1, <1>4, OneLeft

LEMMA SetCenterFreqDeep ==
    ASSUME Inv, Depth, NEW f, SetCenterFreq(f)
    PROVE  Depth'
<1>1. At("center", f) /\ "center" \notin Passing
  BY DEF SetCenterFreq, Passing
<1>2. UNCHANGED <<tuner_type, freq, direct_sampling, direct_sampling_mode, direct_sampling_threshold>>
  BY DEF SetCenterFreq, dsVars, cfgVars
<1>3. RoomAt(1) = IF ~Automatic \/ NewDs(f) = direct_sampling THEN 3 ELSE IF f = freq THEN 5 ELSE 6
  BY <1>1, FirstRoom
<1>4. CASE ~Switches(f)
  <2>1. Run(<< <<"tune", f>> >>)
    BY <1>4 DEF SetCenterFreq
  <2>2. todo'[1][1] = "tune"
    BY <1>1, <1>2, <2>1, OneLeft
  <2>3. RoomAt(1)' <= RoomAt(1)
    BY <1>3, <2>2 DEF RoomAt
  <2> QED
    BY <1>1, <1>2, <2>1, <2>3, OneLeft
<1>5. CASE Switches(f)
  <2> DEFINE d == NewDs(f)
             x == <<"direct", d>>
             y == <<"tune", f>>
             s == <<x, y>>
  <2>1. Run(s) /\ x[1] = "direct" /\ x[2] = d /\ y[1] = "tune"
    BY <1>5 DEF SetCenterFreq
  <2>2. s \in Seq({x, y}) /\ Len(s) = 2 /\ s[1] = x /\ s[2] = y
    OBVIOUS
  <2> HIDE DEF x, y, s
  <2>3. IsSteps(s)
    BY <2>2 DEF IsSteps
  <2>4. /\ Len(todo) \in Nat \ {0} /\ Len(todo') = Len(s) + Len(todo) - 1
        /\ \A i \in 1..Len(s) : todo'[i] = s[i]
        /\ \A i \in 2..Len(todo) : todo'[Len(s) + (i - 1)] = todo[i]
    BY <1>1, <2>1, <2>3, Left
  <2>5. todo'[1][1] = "direct" /\ todo'[1][2] = d /\ todo'[2][1] = "tune"
    BY <2>1, <2>2, <2>4
  <2>6. RoomAt(1)' = (IF Automatic /\ NewDs(freq) # d THEN 5 ELSE 4) /\ RoomAt(2)' = 3
    BY <1>2, <2>5 DEF RoomAt, RoomFor, Automatic, NewDs
  <2>7. RoomAt(1) = IF f = freq THEN 5 ELSE 6
    BY <1>3, <1>5 DEF Switches
  <2>8. \A i \in 1..2 : RoomAt(i)' + (2 - i) <= RoomAt(1)
    <3> DEFINE first == RoomAt(1)'
               second == RoomAt(2)'
               own == RoomAt(1)
    <3>1. first \in {4, 5} /\ second = 3 /\ own \in {5, 6} /\ (first = 5 => own = 6)
      BY <2>6, <2>7
    <3> HIDE DEF first, second, own
    <3>2. first + (2 - 1) <= own /\ second + (2 - 2) <= own
      BY <3>1
    <3>3. RoomAt(1)' + (2 - 1) <= RoomAt(1) /\ RoomAt(2)' + (2 - 2) <= RoomAt(1)
      BY <3>2 DEF first, second, own
    <3> QED
      BY <3>3
  <2>9. /\ \A i \in 1..2 : todo'[i][1] \in Opening => \A j \in 1..2 : j < i => todo'[j][1] \in Passing
        /\ \A i \in 1..2 : todo'[i][1] # "center"
    BY <2>5 DEF Opening
  <2>10. Len(todo') = 2 + Len(todo) - 1 /\ \A i \in 2..Len(todo) : todo'[2 + (i - 1)] = todo[i]
    BY <2>2, <2>4
  <2> QED
    BY <1>1, <1>2, <2>8, <2>9, <2>10, DepthKept
<1> QED
  BY <1>4, <1>5

LEMMA TuneTunerDeep ==
    ASSUME Inv, Depth, NEW f, TuneTuner(f)
    PROVE  Depth'
<1>1. At("tune", f) /\ "tune" \notin Passing /\ Run(Repeated("oscillator", f))
  BY DEF TuneTuner, Passing
<1>2. UNCHANGED <<tuner_type, freq, direct_sampling_mode, direct_sampling_threshold>>
  BY DEF TuneTuner, dsVars, cfgVars
<1>3. RoomAt(1) = 3
  BY <1>1, FirstRoom
<1> DEFINE x == <<"oscillator", f>>
           s == <<On, x, Off>>
<1>4. Run(s) /\ x[1] = "oscillator"
  BY <1>1 DEF Repeated, On, Off
<1>5. s \in Seq({On, x, Off}) /\ Len(s) = 3 /\ s[1] = On /\ s[2] = x /\ s[3] = Off
  OBVIOUS
<1> HIDE DEF x, s
<1>6. IsSteps(s)
  BY <1>5 DEF IsSteps
<1>7. /\ Len(todo) \in Nat \ {0} /\ Len(todo') = Len(s) + Len(todo) - 1
      /\ \A i \in 1..Len(s) : todo'[i] = s[i]
      /\ \A i \in 2..Len(todo) : todo'[Len(s) + (i - 1)] = todo[i]
  BY <1>1, <1>4, <1>6, Left
<1>8. todo'[1][1] = "repeater" /\ todo'[2][1] = "oscillator" /\ todo'[3][1] = "repeater"
  BY <1>4, <1>5, <1>7, OnAndOff
<1>9. RoomAt(1)' = 1 /\ RoomAt(2)' = 1 /\ RoomAt(3)' = 1
  BY <1>8 DEF RoomAt
<1>10. \A i \in 1..3 : RoomAt(i)' + (3 - i) <= RoomAt(1)
  BY <1>3, <1>9
<1>11. /\ \A i \in 1..3 : todo'[i][1] \in Opening => \A j \in 1..3 : j < i => todo'[j][1] \in Passing
       /\ \A i \in 1..3 : todo'[i][1] # "center"
  BY <1>8 DEF Opening
<1>12. Len(todo') = 3 + Len(todo) - 1 /\ \A i \in 2..Len(todo) : todo'[3 + (i - 1)] = todo[i]
  BY <1>5, <1>7
<1> QED
  BY <1>1, <1>2, <1>10, <1>11, <1>12, DepthKept

\* A tuner operation and what follows it.
LEMMA FourLeft ==
    ASSUME Inv, Depth, NEW op, NEW arg, At(op, arg), op \notin Passing,
           NEW inner, NEW value, NEW then, NEW last, Run(BracketThen(inner, value, then, last)),
           UNCHANGED <<tuner_type, freq, direct_sampling_mode, direct_sampling_threshold>>,
           inner \in {"set_bw", "standby", "init"}, then # "center",
           then \in Opening => inner \in Passing
    PROVE  /\ todo'[2][1] = inner /\ todo'[4][1] = then /\ todo'[4][2] = last
           /\ 4 <= RoomAt(1) /\ RoomAt(2)' + 2 <= RoomAt(1) /\ RoomAt(4)' <= RoomAt(1) => Depth'
<1> DEFINE s == BracketThen(inner, value, then, last)
<1>1. Run(s) /\ IsSteps(s) /\ Len(s) = 4
      /\ s[1] = On /\ s[2] = <<inner, value>> /\ s[3] = Off /\ s[4] = <<then, last>>
  BY Four
<1> HIDE DEF s
<1>2. /\ Len(todo) \in Nat \ {0} /\ Len(todo') = Len(s) + Len(todo) - 1
      /\ \A i \in 1..Len(s) : todo'[i] = s[i]
      /\ \A i \in 2..Len(todo) : todo'[Len(s) + (i - 1)] = todo[i]
  BY <1>1, Left
<1>3. todo'[1] = On /\ todo'[2] = <<inner, value>> /\ todo'[3] = Off /\ todo'[4] = <<then, last>>
  BY <1>1, <1>2
<1>4. /\ todo'[1][1] = "repeater" /\ todo'[2][1] = inner /\ todo'[3][1] = "repeater"
      /\ todo'[4][1] = then /\ todo'[4][2] = last
  BY <1>3, OnAndOff
<1>5. ASSUME 4 <= RoomAt(1), RoomAt(2)' + 2 <= RoomAt(1), RoomAt(4)' <= RoomAt(1)
      PROVE  Depth'
  <2>1. RoomAt(1)' = 1 /\ RoomAt(3)' = 1
    BY <1>4 DEF RoomAt
  <2>2. \A i \in 1..4 : RoomAt(i)' + (4 - i) <= RoomAt(1)
    <3> DEFINE own == RoomAt(1)
               second == RoomAt(2)'
               fourth == RoomAt(4)'
    <3>1. own \in 1..6 /\ second \in 1..6 /\ fourth \in 1..6
      <4>1. second \in 1..6 /\ fourth \in 1..6
        BY DEF RoomAt, RoomFor
      <4> QED
        BY <4>1, RoomRange
    <3>2. 4 <= own /\ second + 2 <= own /\ fourth <= own
      BY <1>5
    <3> HIDE DEF own, second, fourth
    <3>3. 1 + (4 - 1) <= own /\ second + (4 - 2) <= own /\ 1 + (4 - 3) <= own /\ fourth + (4 - 4) <= own
      BY <3>1, <3>2
    <3>4. /\ RoomAt(1)' + (4 - 1) <= RoomAt(1) /\ RoomAt(2)' + (4 - 2) <= RoomAt(1)
          /\ RoomAt(3)' + (4 - 3) <= RoomAt(1) /\ RoomAt(4)' + (4 - 4) <= RoomAt(1)
      BY <2>1, <3>3 DEF own, second, fourth
    <3>5. \A i \in 1..4 : i = 1 \/ i = 2 \/ i = 3 \/ i = 4
      OBVIOUS
    <3> QED
      BY <3>4, <3>5
  <2>3. \A i \in 1..4 : todo'[i][1] \in Opening => \A j \in 1..4 : j < i => todo'[j][1] \in Passing
    <3> SUFFICES ASSUME NEW i \in 1..4, todo'[i][1] \in Opening, NEW j \in 1..4, j < i
                 PROVE  todo'[j][1] \in Passing
      OBVIOUS
    <3>1. i = 4 /\ inner \in Passing
      BY <1>4 DEF Opening
    <3>2. "repeater" \in Passing
      BY DEF Passing
    <3> QED
      BY <1>4, <3>1, <3>2
  <2>4. \A i \in 1..4 : todo'[i][1] # "center"
    BY <1>4
  <2>5. Len(todo') = 4 + Len(todo) - 1 /\ \A i \in 2..Len(todo) : todo'[4 + (i - 1)] = todo[i]
    BY <1>1, <1>2
  <2> QED
    BY <2>2, <2>3, <2>4, <2>5, DepthKept
<1> QED
  BY <1>4, <1>5

LEMMA SetDirectSamplingDeep ==
    ASSUME Inv, Depth, NEW on, SetDirectSampling(on)
    PROVE  Depth'
<1>1. At("direct", on) /\ "direct" \notin Passing
  BY DEF SetDirectSampling, Passing
<1>2. UNCHANGED <<tuner_type, freq, direct_sampling_mode, direct_sampling_threshold>>
  BY DEF SetDirectSampling, dsVars, cfgVars
<1>3. RoomAt(1) = RoomFor(on, 4)
  BY <1>1, FirstRoom DEF Opening
<1>4. ASSUME NEW inner \in {"standby", "init"}, NEW then \in {"enter", "leave"},
             Run(BracketThen(inner, 0, then, on))
      PROVE  Depth'
  <2>1. inner \in {"set_bw", "standby", "init"} /\ then # "center" /\ inner \in Passing
    BY DEF Passing
  <2>2. todo'[2][1] = inner /\ todo'[4][1] = then /\ todo'[4][2] = on
    BY <1>1, <1>2, <1>4, <2>1, FourLeft
  <2>3. RoomAt(2)' = 1 /\ RoomAt(4)' = RoomFor(on, 3)
    BY <1>2, <2>2 DEF RoomAt, RoomFor, Automatic, NewDs
  <2>4. 4 <= RoomAt(1) /\ RoomAt(2)' + 2 <= RoomAt(1) /\ RoomAt(4)' <= RoomAt(1)
    BY <1>3, <2>3 DEF RoomFor
  <2> QED
    BY <1>1, <1>2, <1>4, <2>1, <2>4, FourLeft
<1>5. \/ Run(BracketThen("standby", 0, "enter", on))
      \/ on = 0 /\ Run(BracketThen("init", 0, "leave", on))
  BY DEF SetDirectSampling, BracketThen
<1> QED
  BY <1>4, <1>5

LEMMA SetOffsetDeep ==
    ASSUME Inv, Depth, NEW on, SetOffsetTuning(on)
    PROVE  Depth'
<1>1. At("offset", on) /\ "offset" \notin Passing
  BY DEF SetOffsetTuning, Passing
<1>2. UNCHANGED <<tuner_type, freq, direct_sampling_mode, direct_sampling_threshold>>
  BY DEF SetOffsetTuning, dsVars
<1>3. CASE OffsetRefused
  BY <1>1, <1>2, <1>3, NoneLeft DEF SetOffsetTuning
<1>4. CASE ~OffsetRefused
  <2> DEFINE width == IF on THEN 2 * offs_freq' ELSE WidthOr(bw, rate)
  <2>1. Run(BracketThen("set_bw", width, "retune", 0)) /\ ~LowIF
    BY <1>4 DEF SetOffsetTuning, BracketThen, OffsetRefused
  <2> HIDE DEF width
  <2>2. "retune" \notin Opening
    BY DEF Opening
  <2>3. todo'[2][1] = "set_bw" /\ todo'[4][1] = "retune"
    BY <1>1, <1>2, <2>1, <2>2, FourLeft
  <2>4. RoomAt(1) = 5 /\ RoomAt(2)' = 1 /\ RoomAt(4)' = 5
    <3>1. RoomAt(1) = 5
      BY <1>1, <2>1, FirstRoom
    <3>2. RoomAt(2)' = 1 /\ RoomAt(4)' = 5
      BY <1>2, <2>1, <2>3 DEF RoomAt, LowIF
    <3> QED
      BY <3>1, <3>2
  <2> QED
    BY <1>1, <1>2, <2>1, <2>2, <2>4, FourLeft
<1> QED
  BY <1>3, <1>4

LEMMA SetTunerXtalDeep ==
    ASSUME Inv, Depth, NEW tun, SetTunerXtal(tun)
    PROVE  Depth'
<1>1. At("tuner_xtal", tun) /\ "tuner_xtal" \notin Passing
  BY DEF SetTunerXtal, Passing
<1>2. UNCHANGED <<tuner_type, freq, direct_sampling_mode, direct_sampling_threshold>>
  BY DEF SetTunerXtal, dsVars
<1>3. Run(<<>>) \/ Run(<< <<"center", freq>> >>)
  BY DEF SetTunerXtal, RetuneNow
<1> QED
  BY <1>1, <1>2, <1>3, NoneLeft, CenterLeft

LEMMA AfterRateDeep ==
    ASSUME Inv, Depth, AfterRate
    PROVE  Depth'
<1>1. At("after_rate", 0) /\ "after_rate" \notin Passing
  BY DEF AfterRate, Passing
<1>2. UNCHANGED <<tuner_type, freq, direct_sampling_mode, direct_sampling_threshold>>
  BY DEF AfterRate, dsVars, cfgVars
<1>3. CASE Run(<< <<"offset", TRUE>> >>)
  <2>1. todo'[1][1] = "offset"
    BY <1>1, <1>2, <1>3, OneLeft
  <2>2. RoomAt(1) = IF LowIF THEN 1 ELSE 5
    BY <1>1, FirstRoom
  <2>3. RoomAt(1)' = IF LowIF THEN 1 ELSE 5
    BY <1>2, <2>1 DEF RoomAt, LowIF
  <2>4. RoomAt(1)' <= RoomAt(1)
    BY <2>2, <2>3
  <2> QED
    BY <1>1, <1>2, <1>3, <2>4, OneLeft
<1>4. Run(<< <<"offset", TRUE>> >>) \/ Run(<<>>)
  BY DEF AfterRate
<1> QED
  BY <1>1, <1>2, <1>3, <1>4, NoneLeft

LEMMA StepDeep ==
    ASSUME Inv, Depth, Step
    PROVE  Depth'
<1>1. ASSUME NEW on, SetRepeater(on)
      PROVE  Depth'
  BY <1>1, NoneLeft DEF SetRepeater, dsVars, cfgVars
<1>2. ASSUME Standby \/ InitTuner
      PROVE  Depth'
  BY <1>2, NoneLeft DEF Standby, InitTuner, dsVars, cfgVars
<1>3. ASSUME NEW f, TuneDdc(f) \/ SetOscillator(f)
      PROVE  Depth'
  <2>1. \/ At("tune", f)
        \/ At("oscillator", f)
    BY <1>3 DEF TuneDdc, SetOscillator
  <2>2. Run(<<>>)
    BY <1>3 DEF TuneDdc, SetOscillator, GiveUp
  <2>3. UNCHANGED <<tuner_type, direct_sampling_mode, direct_sampling_threshold>>
    BY <1>3 DEF TuneDdc, SetOscillator, dsVars, cfgVars
  <2> QED
    BY <2>1, <2>2, <2>3, NoneLeft DEF Passing
<1>4. ASSUME NEW on, EnterDirect(on)
      PROVE  Depth'
  BY <1>4, CenterLeft DEF EnterDirect, cfgVars
<1>5. CASE LeaveDirect
  BY <1>5, CenterLeft DEF LeaveDirect, cfgVars
<1>6. ASSUME NEW width, SetBwLowIF(width)
      PROVE  Depth'
  BY <1>6, CenterLeft DEF SetBwLowIF, dsVars, cfgVars
<1>7. ASSUME NEW width, SetBwZeroIF(width)
      PROVE  Depth'
  BY <1>7, NoneLeft DEF SetBwZeroIF, dsVars, cfgVars
<1>8. ASSUME NEW width, KeepBw(width)
      PROVE  Depth'
  BY <1>8, NoneLeft DEF KeepBw, dsVars
<1>9. CASE Retune
  <2>1. Run(<<>>) \/ Run(<< <<"center", freq>> >>)
    BY <1>9 DEF Retune
  <2> QED
    BY <1>9, <2>1, NoneLeft, CenterLeft DEF Retune, dsVars, cfgVars
<1> QED
  BY <1>1, <1>2, <1>3, <1>4, <1>5, <1>6, <1>7, <1>8, <1>9, SetCenterFreqDeep, TuneTunerDeep,
     SetDirectSamplingDeep, SetOffsetDeep, SetTunerXtalDeep, AfterRateDeep DEF Step

\* A call begins with at most five steps.
LEMMA FewDeep ==
    ASSUME NEW n \in 0..2, Len(todo') = n,
           \A i \in 1..n : todo'[i][1] \in Opening => i = 1,
           \A i \in 1..n : todo'[i][1] = "center" => i = n
    PROVE  Depth'
<1>1. ASSUME NEW i \in 1..n
      PROVE  RoomAt(i)' + (n - i) <= MaxNested
  <2> DEFINE own == RoomAt(i)'
  <2>1. own \in 1..6
    BY DEF RoomAt, RoomFor
  <2> HIDE DEF own
  <2>2. own + (n - i) <= MaxNested
    BY <2>1 DEF MaxNested
  <2> QED
    BY <2>2 DEF own
<1>2. \A i \in 1..n : todo'[i][1] \in Opening =>
         \A j \in 1..n : j < i => todo'[j][1] \in Passing
  OBVIOUS
<1> QED
  BY <1>1, <1>2 DEF Depth, Room, SwitchFirst, MaxNested

LEMMA BracketDeep ==
    ASSUME NEW n \in 4..5, Len(todo') = n, todo'[1] = On, todo'[2][1] = "set_bw", todo'[3] = Off,
           todo'[4][1] \in {"after_rate", "keep_bw"},
           n = 5 => todo'[5][1] = "tuner_xtal"
    PROVE  Depth'
<1>1. \A i \in 1..n :
         i = 1 \/ i = 2 \/ i = 3 \/ i = 4 \/ (i = 5 /\ todo'[5][1] = "tuner_xtal")
  OBVIOUS
<1>2. todo'[1][1] = "repeater" /\ todo'[3][1] = "repeater"
  BY OnAndOff
<1>3. \A i \in 1..n : todo'[i][1] \notin Opening /\ todo'[i][1] # "center"
  BY <1>1, <1>2 DEF Opening
<1>4. /\ RoomAt(1)' = 1 /\ RoomAt(2)' \in 1..5 /\ RoomAt(3)' = 1 /\ RoomAt(4)' \in 1..5
      /\ todo'[5][1] = "tuner_xtal" => RoomAt(5)' = 5
  BY <1>2 DEF RoomAt
<1>5. Room'
  <2> SUFFICES ASSUME NEW i \in 1..n
               PROVE  RoomAt(i)' + (n - i) <= MaxNested
    BY DEF Room, MaxNested
  <2> DEFINE own == RoomAt(i)'
  <2>1. own \in 1..5 /\ (i \in {1, 3} => own = 1)
    BY <1>1, <1>4
  <2> HIDE DEF own
  <2>2. own + (n - i) <= MaxNested
    BY <2>1 DEF MaxNested
  <2> QED
    BY <2>2 DEF own
<1>6. SwitchFirst'
  BY <1>3 DEF SwitchFirst
<1> QED
  BY <1>5, <1>6 DEF Depth

\* The first steps of a call, one or two of them.
LEMMA NoneCalled ==
    ASSUME NEW op, Called(op, <<>>)
    PROVE  Depth'
<1>1. Len(todo') = 0
  BY DEF Called
<1> QED
  BY <1>1, FewDeep

LEMMA OneCalled ==
    ASSUME NEW op, NEW next, NEW value, Called(op, << <<next, value>> >>)
    PROVE  Depth'
<1>1. Len(todo') = 1
  BY DEF Called
<1> QED
  BY <1>1, FewDeep

LEMMA BracketCalled ==
    ASSUME NEW op, NEW value, NEW then \in {"after_rate", "keep_bw"}, NEW last, NEW tun,
           \/ Called(op, BracketThen("set_bw", value, then, last))
           \/ Called(op, BracketThen("set_bw", value, then, last) \o << <<"tuner_xtal", tun>> >>)
    PROVE  Depth'
<1> DEFINE s == BracketThen("set_bw", value, then, last)
           x == <<"tuner_xtal", tun>>
           t == <<x>>
<1>1. IsSteps(s) /\ Len(s) = 4
      /\ s[1] = On /\ s[2] = <<"set_bw", value>> /\ s[3] = Off /\ s[4] = <<then, last>>
  BY Four
<1>2. t \in Seq({x}) /\ Len(t) = 1 /\ t[1] = x /\ x[1] = "tuner_xtal"
  OBVIOUS
<1>3. todo' = s \/ todo' = s \o t
  BY DEF Called
<1> HIDE DEF s, x, t
<1>4. CASE todo' = s
  BY <1>1, <1>4, BracketDeep
<1>5. CASE todo' = s \o t
  <2>1. IsSteps(s) /\ IsSteps(t)
    BY <1>1, <1>2 DEF IsSteps
  <2>2. /\ Len(s \o t) = Len(s) + Len(t)
        /\ \A i \in 1..Len(s) : (s \o t)[i] = s[i]
        /\ \A i \in 1..Len(t) : (s \o t)[Len(s) + i] = t[i]
    BY <2>1, Parts
  <2>3. /\ Len(todo') = 5
        /\ todo'[1] = s[1] /\ todo'[2] = s[2] /\ todo'[3] = s[3] /\ todo'[4] = s[4]
        /\ todo'[5] = x
    BY <1>1, <1>2, <1>5, <2>2
  <2> QED
    BY <1>1, <1>2, <2>3, BracketDeep
<1> QED
  BY <1>3, <1>4, <1>5

LEMMA CallDeep ==
    ASSUME Call
    PROVE  Depth'
<1>1. ASSUME NEW f, CallCenterFreq(f)
      PROVE  Depth'
  BY <1>1, OneCalled DEF CallCenterFreq
<1>2. ASSUME NEW on, CallDirectSampling(on)
      PROVE  Depth'
  BY <1>2, OneCalled DEF CallDirectSampling
<1>3. ASSUME NEW mode, NEW threshold, CallDsMode(mode, threshold)
      PROVE  Depth'
  <2> DEFINE x == <<"direct", mode>>
             y == <<"center", freq>>
  <2>1. todo' = (IF mode <= 2 THEN <<x>> ELSE <<>>) \o <<y>>
    BY <1>3 DEF CallDsMode, Called
  <2>2. x[1] = "direct" /\ y[1] = "center"
    OBVIOUS
  <2> HIDE DEF x, y
  <2>3. \/ Len(todo') = 2 /\ todo'[1] = x /\ todo'[2] = y
        \/ Len(todo') = 1 /\ todo'[1] = y
    BY <2>1
  <2>4. CASE Len(todo') = 2 /\ todo'[1] = x /\ todo'[2] = y
    BY <2>2, <2>4, FewDeep DEF Opening
  <2>5. CASE Len(todo') = 1 /\ todo'[1] = y
    BY <2>5, FewDeep
  <2> QED
    BY <2>3, <2>4, <2>5
<1>4. ASSUME NEW samp_rate, CallSampleRate(samp_rate)
      PROVE  Depth'
  <2>1. Called("other", BracketThen("set_bw", WidthOr(bw, samp_rate), "after_rate", 0))
    BY <1>4 DEF CallSampleRate, RateSteps, BracketThen
  <2> QED
    BY <2>1, BracketCalled
<1>5. ASSUME NEW width, CallBandwidth(width)
      PROVE  Depth'
  <2>1. Called("other", BracketThen("set_bw", WidthOr(width, rate), "keep_bw", width))
    BY <1>5 DEF CallBandwidth, BracketThen
  <2> QED
    BY <2>1, BracketCalled
<1>6. ASSUME NEW on, CallOffsetTuning(on)
      PROVE  Depth'
  BY <1>6, OneCalled DEF CallOffsetTuning
<1>7. ASSUME NEW ppm, CallFreqCorrection(ppm)
      PROVE  Depth'
  <2>1. Called("other", <<>>) \/ Called("other", << <<"center", freq>> >>)
    BY <1>7 DEF CallFreqCorrection, RetuneNow
  <2> QED
    BY <2>1, NoneCalled, OneCalled
<1>8. ASSUME NEW rtl, NEW tun, CallXtalFreq(rtl, tun)
      PROVE  Depth'
  <2> DEFINE x == <<"tuner_xtal", tun>>
             again == BracketThen("set_bw", WidthOr(bw, rate), "after_rate", 0)
  <2>1. Called("other", again \o <<x>>) \/ Called("other", <<>> \o <<x>>)
    BY <1>8 DEF CallXtalFreq, RateSteps, BracketThen
  <2>2. <<>> \o <<x>> = <<x>>
    OBVIOUS
  <2>3. Called("other", again \o <<x>>) \/ Called("other", <<x>>)
    BY <2>1, <2>2
  <2> QED
    BY <2>3, BracketCalled, OneCalled
<1> QED
  BY <1>1, <1>2, <1>3, <1>4, <1>5, <1>6, <1>7, <1>8 DEF Call

\* However the calls tune and switch each other, no more than eight steps are ever
\* left: the recursion of rtlsdr_set_center_freq is bounded.
THEOREM RecursionBounded == Spec => []Nested
<1>1. Init => Depth
  <2> SUFFICES ASSUME Init
               PROVE  Depth
    OBVIOUS
  <2>1. Len(todo) = 0
    BY DEF Init
  <2> QED
    BY <2>1 DEF Depth, Room, SwitchFirst
<1>2. Inv /\ Depth /\ [Next]_vars => Depth'
  <2> SUFFICES ASSUME Inv, Depth, [Next]_vars
               PROVE  Depth'
    OBVIOUS
  <2>1. CASE UNCHANGED vars
    BY <2>1 DEF Depth, Room, SwitchFirst, RoomAt, RoomFor, Automatic, NewDs, LowIF, vars, dsVars, cfgVars
  <2> QED
    BY <2>1, StepDeep, CallDeep DEF Next
<1>3. Inv /\ Depth => Nested
  <2> SUFFICES ASSUME Inv, Depth
               PROVE  Nested
    OBVIOUS
  <2>1. CASE todo = <<>>
    BY <2>1 DEF Nested, MaxNested
  <2>2. CASE todo # <<>>
    <3>1. Len(todo) \in Nat \ {0}
      BY <2>2, Behind DEF Inv, Brackets
    <3> DEFINE own == RoomAt(1)
    <3>2. own \in 1..6 /\ own + (Len(todo) - 1) <= MaxNested
      BY <3>1, RoomRange DEF Depth, Room
    <3> HIDE DEF own
    <3> QED
      BY <3>1, <3>2 DEF Nested, MaxNested
  <2> QED
    BY <2>1, <2>2
<1> QED
  BY <1>1, <1>2, <1>3, InvHolds, InvKept, PTL DEF Spec

\* Every field and every setting of the chips stays in its range, whatever calls
\* are made: no bandwidth and no crystal leads out of it, nor does the recursion.
THEOREM TypesHold == Spec => []TypeOK
<1>1. Inv => FieldTypes
  BY DEF Inv
<1>2. FieldTypes /\ Nested => TypeOK
  BY DEF TypeOK
<1> QED
  BY <1>1, <1>2, InvHolds, InvKept, RecursionBounded, PTL DEF Spec
=============================================================================
