--------------------------- MODULE RtlDeviceProofs ---------------------------
(***************************************************************************)
(* Theorems about RtlDevice, for any tuners, codes, buffers and faults.    *)
(***************************************************************************)
EXTENDS RtlDevice, RtlNumbersProofs, SequenceTheorems

-----------------------------------------------------------------------------
(***************************************************************************)
(* Programs.                                                               *)
(***************************************************************************)

\* The states that n steps of a program go through.
IsRun(g, S, now, p, n, f) ==
    /\ g \in [0..n -> S] /\ g[0] = now
    /\ \A k \in 1..n : g[k] = Stepped(g[k-1], p[k], k, f)
    /\ After(now, p, n, f) = g[n]

\* ... in a set that its steps do not leave.
LEMMA AfterRuns ==
    ASSUME NEW S, NEW now \in S, NEW p, NEW n \in Nat, NEW f,
           \A k \in 1..n : \A was \in S : Stepped(was, p[k], k, f) \in S
    PROVE  \E g : IsRun(g, S, now, p, n, f)
<1> DEFINE F == [k \in 1..n |-> [was \in S |-> Stepped(was, p[k], k, f)]]
           made(g) == [k \in 0..n |-> IF k = 0 THEN now
                                      ELSE CHOOSE s \in {Stepped(was, p[k], k, f) : was \in {g[k-1]}} : TRUE]
           done == CHOOSE g : g = made(g)
<1>1. \E g : IsChain(g, S, now, F, n)
  <2>1. F \in [1..n -> [S -> S]]
    OBVIOUS
  <2> HIDE DEF F
  <2> QED
    BY <2>1, Chain
<1>2. \A x, k : (CHOOSE s \in {Stepped(was, p[k], k, f) : was \in {x}} : TRUE) = Stepped(x, p[k], k, f)
  <2> TAKE x, k
  <2> DEFINE T == {Stepped(was, p[k], k, f) : was \in {x}}
  <2>1. Stepped(x, p[k], k, f) \in T /\ \A s \in T : s = Stepped(x, p[k], k, f)
    OBVIOUS
  <2> HIDE DEF T
  <2>2. (CHOOSE s \in T : TRUE) \in T
    BY <2>1
  <2> QED
    BY <2>1, <2>2 DEF T
<1>3. \E g : g = made(g)
  <2>0. PICK g : IsChain(g, S, now, F, n)
    BY <1>1
  <2>1. g \in [0..n -> S] /\ g[0] = now
    BY <2>0 DEF IsChain
  <2>2. ASSUME NEW k \in 1..n
        PROVE  g[k] = Stepped(g[k-1], p[k], k, f)
    <3>1. g[k] = F[k][g[k-1]] /\ k - 1 \in 0..n
      BY <2>0 DEF IsChain
    <3>2. g[k-1] \in S
      BY <2>1, <3>1
    <3> QED
      BY <3>1, <3>2
  <2>3. \A k \in 0..n : g[k] = made(g)[k]
    BY <1>2, <2>1, <2>2
  <2>4. g = made(g)
    BY <2>1, <2>3
  <2> QED
    BY <2>4
<1>4. done = made(done)
  BY <1>3, Zenon
<1>5. After(now, p, n, f) = done[n]
  BY DEF After
<1> HIDE DEF done
<1>6. done[0] = now /\ \A k \in 1..n : done[k] = Stepped(done[k-1], p[k], k, f)
  <2>1. \A k \in 0..n : done[k] = made(done)[k]
    BY <1>4
  <2> QED
    BY <1>2, <2>1
<1>7. \A k \in 0..n : done[k] \in S
  <2> DEFINE bad == {k \in 0..n : done[k] \notin S}
  <2>1. CASE bad = {}
    BY <2>1
  <2>2. CASE bad # {}
    <3>1. \E m \in bad : \A k \in bad : m <= k
      <4>1. bad \subseteq Nat
        OBVIOUS
      <4> HIDE DEF bad
      <4> QED
        BY <2>2, <4>1, Least
    <3>2. PICK m \in bad : \A k \in bad : m <= k
      BY <3>1
    <3>3. m \in 1..n /\ m - 1 \in 0..n /\ done[m] \notin S
      BY <1>6, <3>2
    <3>4. m - 1 \notin bad
      <4> HIDE DEF bad
      <4> QED
        BY <3>2, <3>3
    <3>5. done[m-1] \in S
      BY <3>3, <3>4
    <3>6. Stepped(done[m-1], p[m], m, f) \in S
      BY <3>3, <3>5
    <3> QED
      BY <1>6, <3>3, <3>6
  <2> QED
    BY <2>1, <2>2
<1>8. done \in [0..n -> S]
  <2>1. done = [k \in 0..n |-> done[k]]
    BY <1>4
  <2> QED
    BY <1>7, <2>1
<1> QED
  BY <1>5, <1>6, <1>8 DEF IsRun

(***************************************************************************)
(* The steps that programs are made of, and the states they work on.  For  *)
(* a dongle with the tuner fit.                                            *)
(***************************************************************************)
RegSteps    == [do : {"write", "mask"}, reg : RegNames, val : Byte, mask : Byte]
IrSteps     == [do : {"read", "clear", "start"}]
Sayable(fit) == [do : {"probe", "exit", "set"} \cup (IF Known(fit) THEN {"init"} ELSE {})]
Spoken(fit)  == RegSteps \cup Sayable(fit)

States(fit) ==
    {s \in [regs : [RegNames -> Byte], tuner : {"cold", "ready", "standby"}, missed : BOOLEAN,
            ir : {OFF, 0} \cup CodeLengths] :
        s.tuner = "ready" => Known(fit)}

LEMMA SteppedTyped ==
    ASSUME NEW fit, NEW was \in States(fit), NEW x \in Spoken(fit) \cup IrSteps, NEW k, NEW f, f.base \in Byte
    PROVE  Stepped(was, x, k, f) \in States(fit)
<1>0. /\ was.regs \in [RegNames -> Byte] /\ was.tuner \in {"cold", "ready", "standby"} /\ was.missed \in BOOLEAN
      /\ was.ir \in {OFF, 0} \cup CodeLengths /\ (was.tuner = "ready" => Known(fit))
      /\ was = [regs |-> was.regs, tuner |-> was.tuner, missed |-> was.missed, ir |-> was.ir]
  BY DEF States
<1>1. CASE x \in RegSteps
  <2>1. x.do \in {"write", "mask"} /\ x.reg \in RegNames /\ x.val \in Byte /\ x.mask \in Byte
    BY <1>1 DEF RegSteps
  <2>2. ASSUME NEW base \in Byte
        PROVE  Apply(was, x, base) \in States(fit)
    <3> DEFINE new == (base \ x.mask) \cup (x.val \cap x.mask)
    <3>1. new \in Byte
      BY <2>1, <2>2 DEF Byte
    <3>2. Apply(was, x, base) = [was EXCEPT !.regs[x.reg] = new]
      BY <2>1 DEF Apply
    <3> HIDE DEF new
    <3>3. [was.regs EXCEPT ![x.reg] = new] \in [RegNames -> Byte]
      BY <1>0, <2>1, <3>1
    <3>4. Apply(was, x, base) = [regs |-> [was.regs EXCEPT ![x.reg] = new], tuner |-> was.tuner,
                                 missed |-> was.missed, ir |-> was.ir]
      BY <1>0, <3>2
    <3> QED
      BY <1>0, <3>3, <3>4 DEF States
  <2>3. was.regs[x.reg] \in Byte
    BY <1>0, <2>1
  <2> QED
    BY <2>1, <2>2, <2>3 DEF Stepped
<1>2. CASE x \in Sayable(fit) \cup IrSteps
  <2>1. /\ x.do \in {"probe", "init", "exit", "set", "read", "clear", "start"}
        /\ x.do \in {"write", "mask"} <=> FALSE
        /\ x.do = "init" => Known(fit)
    BY <1>2 DEF Sayable, IrSteps
  <2>2. ASSUME NEW base
        PROVE  Apply(was, x, base) \in States(fit)
    <3>1. CASE x.do = "clear"
      BY <1>0, <3>1 DEF Apply, States, OFF
    <3>2. CASE x.do = "start"
      BY <1>0, <3>2 DEF Apply, States, OFF
    <3>3. CASE x.do = "read"
      BY <3>3 DEF Apply
    <3>4. CASE x.do \in {"probe", "init", "exit", "set"} /\ ~Hears(was)
      BY <1>0, <3>4 DEF Apply, States
    <3>5. CASE x.do \in {"probe", "init", "exit", "set"} /\ Hears(was)
      BY <1>0, <2>1, <3>5 DEF Apply, States
    <3> QED
      BY <2>1, <3>1, <3>2, <3>3, <3>4, <3>5
  <2> QED
    BY <2>2 DEF Stepped
<1> QED
  BY <1>1, <1>2 DEF Spoken

LEMMA AfterStays ==
    ASSUME NEW S, NEW now \in S, NEW A, NEW p \in Seq(A), NEW n \in 0..Len(p), NEW f,
           \A x \in A : \A k \in Nat : \A was \in S : Stepped(was, x, k, f) \in S
    PROVE  After(now, p, n, f) \in S
<1>1. n \in Nat /\ \A k \in 1..n : k \in Nat /\ p[k] \in A
  OBVIOUS
<1>2. \A k \in 1..n : \A was \in S : Stepped(was, p[k], k, f) \in S
  BY <1>1
<1>3. PICK g : IsRun(g, S, now, p, n, f)
  BY <1>1, <1>2, AfterRuns
<1>4. n \in 0..n
  OBVIOUS
<1> QED
  BY <1>3, <1>4 DEF IsRun

LEMMA AfterTyped ==
    ASSUME NEW fit, NEW now \in States(fit), NEW p \in Seq(Spoken(fit) \cup IrSteps), NEW n \in 0..Len(p),
           NEW f, f.base \in Byte
    PROVE  After(now, p, n, f) \in States(fit)
BY SteppedTyped, AfterStays

LEMMA OutcomeIs ==
    ASSUME NEW A, NEW p \in Seq(A), NEW f \in Outcomes(p)
    PROVE  /\ f.base \in Byte /\ f.at \in 0..Len(p)
           /\ f = NoFault \/ (faults # MaxFaults /\ f # NoFault)
           /\ f.how \in {"none", "lost", "landed", "crash", "garbage"}
           /\ f.how = "none" <=> f = NoFault
<1>1. {} \in Byte /\ 0..7 \in Byte /\ Len(p) \in Nat /\ DOMAIN p = 1..Len(p)
  BY DEF Byte
<1>2. CASE f = NoFault
  BY <1>1, <1>2 DEF NoFault
<1>3. CASE f \in FaultsOf(p) /\ faults # MaxFaults
  <2>1. /\ f.at \in DOMAIN p /\ f.base \in {{}, 0..7}
        /\ f.how \in {"lost", "landed", "crash", "garbage"}
    BY <1>3 DEF FaultsOf
  <2>2. f # NoFault /\ f.how # "none"
    BY <2>1 DEF NoFault
  <2>3. f.base \in Byte
    BY <1>1, <2>1
  <2> QED
    BY <1>1, <1>3, <2>1, <2>2, <2>3
<1> QED
  BY <1>2, <1>3 DEF Outcomes

LEMMA WriteIs ==
    ASSUME NEW r \in RegNames, NEW v \in 0..255
    PROVE  /\ Write(r, v) \in RegSteps /\ Write(r, v).do = "write" /\ Write(r, v).reg = r
           /\ Write(r, v).val = BitsOf[v] /\ Write(r, v).mask = 0..7
<1>1. BitsOf[v] \in Byte /\ 0..7 \in Byte
  BY BitsAre DEF Byte
<1> QED
  BY <1>1 DEF Write, RegSteps

LEMMA MaskIs ==
    ASSUME NEW r \in RegNames, NEW v \in 0..255, NEW m \in 0..255
    PROVE  /\ Mask(r, v, m) \in RegSteps /\ Mask(r, v, m).do = "mask" /\ Mask(r, v, m).reg = r
           /\ Mask(r, v, m).val = BitsOf[v] /\ Mask(r, v, m).mask = BitsOf[m]
<1>1. BitsOf[v] \in Byte /\ BitsOf[m] \in Byte
  BY BitsAre
<1> QED
  BY <1>1 DEF Mask, RegSteps

(***************************************************************************)
(* A list of writes of bytes, of which those with a name stay.             *)
(***************************************************************************)
Kept(w) == IF NameOf(w.at) = "other" THEN <<>> ELSE <<Write(NameOf(w.at), w.val)>>
KeptOf(W) == {Write(NameOf(w.at), w.val) : w \in W}

LEMMA KeptIs == \A W : \A w \in W : Kept(w) \in Seq(KeptOf(W))
<1> TAKE W
<1> TAKE w \in W
<1>1. CASE NameOf(w.at) = "other"
  BY <1>1 DEF Kept
<1>2. CASE NameOf(w.at) # "other"
  <2>1. Write(NameOf(w.at), w.val) \in KeptOf(W)
    BY DEF KeptOf
  <2> QED
    BY <1>2, <2>1 DEF Kept
<1> QED
  BY <1>1, <1>2

\* k writes of g are made.
IsProgram(g, writes, A) ==
    /\ g \in [0..Len(writes) -> Seq(A)]
    /\ g[0] = <<>> /\ \A k \in 1..Len(writes) : g[k] = g[k-1] \o Kept(writes[k])
    /\ AsProgram(writes) = g[Len(writes)]

LEMMA AsProgramRuns ==
    ASSUME NEW W, NEW writes \in Seq(W)
    PROVE  \E g : IsProgram(g, writes, KeptOf(W))
<1> DEFINE n == Len(writes)
           A == KeptOf(W)
           step(k, s) == s \o Kept(writes[k])
           none == <<>>
           F == [k \in 1..n |-> [s \in Seq(A) |-> step(k, s)]]
           made(g) == [k \in 0..n |-> IF k = 0 THEN none ELSE step(k, g[k-1])]
           done == CHOOSE g : g = made(g)
<1>0. n \in Nat /\ none \in Seq(A) /\ DOMAIN writes = 1..n
  OBVIOUS
<1>1. ASSUME NEW k \in 1..n, NEW s \in Seq(A)
      PROVE  step(k, s) \in Seq(A)
  <2>1. writes[k] \in W
    BY <1>0
  <2>2. Kept(writes[k]) \in Seq(A)
    BY <2>1, KeptIs
  <2> QED
    BY <2>2
<1>5. AsProgram(writes) = done[n]
  BY DEF AsProgram, Kept
<1> HIDE DEF n, step, none, A
<1>2. \E g : IsChain(g, Seq(A), none, F, n)
  <2>1. F \in [1..n -> [Seq(A) -> Seq(A)]]
    BY <1>1
  <2> HIDE DEF F
  <2> QED
    BY <1>0, <2>1, Chain
<1>3. \E g : g = made(g)
  <2>0. PICK g : IsChain(g, Seq(A), none, F, n)
    BY <1>2
  <2>1. g \in [0..n -> Seq(A)] /\ g[0] = none
    BY <2>0 DEF IsChain
  <2>2. ASSUME NEW k \in 1..n
        PROVE  g[k] = step(k, g[k-1])
    <3>0. g[k] = F[k][g[k-1]]
      BY <2>0 DEF IsChain
    <3>1. k - 1 \in 0..n
      BY <1>0
    <3>2. g[k-1] \in Seq(A)
      BY <2>1, <3>1
    <3> QED
      BY <3>0, <3>2
  <2>3. \A k \in 0..n : g[k] = made(g)[k]
    BY <1>0, <2>1, <2>2
  <2>4. g = made(g)
    BY <2>1, <2>3
  <2> QED
    BY <2>4
<1>4. done = made(done)
  BY <1>3, Zenon
<1> HIDE DEF done
<1>6. done[0] = none /\ \A k \in 1..n : done[k] = step(k, done[k-1])
  <2>1. \A k \in 0..n : done[k] = made(done)[k]
    BY <1>4
  <2> QED
    BY <1>0, <2>1
<1>7. \A k \in 0..n : done[k] \in Seq(A)
  <2> DEFINE bad == {k \in 0..n : done[k] \notin Seq(A)}
  <2>1. CASE bad = {}
    BY <2>1
  <2>2. CASE bad # {}
    <3>1. \E m \in bad : \A k \in bad : m <= k
      <4>1. bad \subseteq Nat
        BY <1>0
      <4> HIDE DEF bad
      <4> QED
        BY <2>2, <4>1, Least
    <3>2. PICK m \in bad : \A k \in bad : m <= k
      BY <3>1
    <3>3. m \in 1..n /\ m - 1 \in 0..n /\ done[m] \notin Seq(A)
      BY <1>0, <1>6, <3>2
    <3>4. m - 1 \notin bad
      <4> HIDE DEF bad
      <4> QED
        BY <3>2, <3>3
    <3>5. done[m-1] \in Seq(A)
      BY <3>3, <3>4
    <3>6. step(m, done[m-1]) \in Seq(A)
      BY <1>1, <3>3, <3>5
    <3> QED
      BY <1>6, <3>3, <3>6
  <2> QED
    BY <2>1, <2>2
<1>8. done \in [0..n -> Seq(A)]
  <2>1. done = [k \in 0..n |-> done[k]]
    BY <1>4
  <2> QED
    BY <1>7, <2>1
<1> QED
  BY <1>5, <1>6, <1>8 DEF IsProgram, n, step, none, A

\* The program of two lists, one after the other.
LEMMA AsProgramJoin ==
    ASSUME NEW W, NEW u \in Seq(W), NEW v \in Seq(W), NEW c, c = u \o v
    PROVE  AsProgram(c) = AsProgram(u) \o AsProgram(v)
<1> DEFINE A == KeptOf(W)
           n == Len(u)
           m == Len(v)
<1>1. /\ c \in Seq(W) /\ n \in Nat /\ m \in Nat /\ Len(c) = n + m
      /\ \A k \in 1..n : c[k] = u[k]
      /\ \A k \in 1..m : c[n + k] = v[k]
  OBVIOUS
<1>2. PICK f : IsProgram(f, u, A)
  BY AsProgramRuns
<1>3. PICK g : IsProgram(g, v, A)
  BY AsProgramRuns
<1>4. PICK h : IsProgram(h, c, A)
  BY <1>1, AsProgramRuns
<1>v. \A k \in 1..m : v[k] \in W /\ Kept(v[k]) \in Seq(A)
  BY KeptIs
<1>u. \A k \in 1..n : u[k] \in W /\ Kept(u[k]) \in Seq(A)
  BY KeptIs
<1> HIDE DEF n, m, A
<1>5. \A k \in 0..n : h[k] = f[k]
  <2> DEFINE bad == {k \in 0..n : h[k] # f[k]}
  <2>1. CASE bad = {}
    BY <2>1
  <2>2. CASE bad # {}
    <3>1. \E j \in bad : \A k \in bad : j <= k
      <4>1. bad \subseteq Nat
        BY <1>1
      <4> HIDE DEF bad
      <4> QED
        BY <2>2, <4>1, Least
    <3>2. PICK j \in bad : \A k \in bad : j <= k
      BY <3>1
    <3>3. j \in 1..n /\ j - 1 \in 0..n /\ j \in 1..Len(c)
      BY <1>1, <1>2, <1>4, <3>2 DEF IsProgram
    <3>4. j - 1 \notin bad
      <4> HIDE DEF bad
      <4> QED
        BY <3>2, <3>3
    <3>5. h[j-1] = f[j-1]
      BY <3>3, <3>4
    <3>6. h[j] = h[j-1] \o Kept(c[j]) /\ f[j] = f[j-1] \o Kept(u[j])
      BY <1>2, <1>4, <3>3 DEF IsProgram, n
    <3> QED
      BY <1>1, <3>2, <3>3, <3>5, <3>6
  <2> QED
    BY <2>1, <2>2
<1>6. \A k \in 0..m : h[n + k] = f[n] \o g[k]
  <2> DEFINE bad == {k \in 0..m : h[n + k] # f[n] \o g[k]}
  <2>0. f[n] \in Seq(A)
    BY <1>1, <1>2 DEF IsProgram, n
  <2>1. CASE bad = {}
    BY <2>1
  <2>2. CASE bad # {}
    <3>1. \E j \in bad : \A k \in bad : j <= k
      <4> DEFINE wrong(k) == h[n + k] # f[n] \o g[k]
      <4> HIDE DEF wrong
      <4>1. {k \in 0..m : wrong(k)} \subseteq Nat
        BY <1>1
      <4>2. bad \subseteq Nat
        BY <4>1 DEF wrong
      <4> HIDE DEF bad
      <4> QED
        BY <2>2, <4>2, Least
    <3>2. PICK j \in bad : \A k \in bad : j <= k
      BY <3>1
    <3>3. j # 0
      <4>1. h[n + 0] = f[n] /\ g[0] = <<>>
        BY <1>1, <1>3, <1>5 DEF IsProgram
      <4>2. f[n] \o <<>> = f[n]
        BY <2>0
      <4> QED
        BY <3>2, <4>1, <4>2
    <3>4. j \in 1..m /\ j - 1 \in 0..m /\ n + j \in 1..Len(c) /\ (n + j) - 1 = n + (j - 1)
      BY <1>1, <3>2, <3>3
    <3>5. j - 1 \notin bad
      <4> HIDE DEF bad
      <4> QED
        BY <3>2, <3>4
    <3>6. h[n + (j-1)] = f[n] \o g[j-1]
      BY <3>4, <3>5
    <3>7. h[n + j] = h[(n + j) - 1] \o Kept(c[n + j])
      BY <1>4, <3>4 DEF IsProgram
    <3>8. g[j] = g[j-1] \o Kept(v[j]) /\ g[j-1] \in Seq(A)
      BY <1>3, <3>4 DEF IsProgram, m
    <3>9. c[n + j] = v[j] /\ Kept(v[j]) \in Seq(A)
      BY <1>1, <1>v, <3>4
    <3>10. (f[n] \o g[j-1]) \o Kept(v[j]) = f[n] \o (g[j-1] \o Kept(v[j]))
      <4>1. PICK x \in Seq(A), y \in Seq(A), z \in Seq(A) : x = f[n] /\ y = g[j-1] /\ z = Kept(v[j])
        BY <2>0, <3>8, <3>9
      <4>2. (x \o y) \o z = x \o (y \o z)
        BY SMTT(30)
      <4> QED
        BY <4>1, <4>2
    <3>11. h[n + j] = f[n] \o g[j]
      BY <3>4, <3>6, <3>7, <3>8, <3>9, <3>10
    <3> QED
      BY <3>2, <3>11
  <2> QED
    BY <2>1, <2>2
<1>7. h[n + m] = f[n] \o g[m]
  <2>1. m \in 0..m
    BY <1>1
  <2> QED
    BY <1>6, <2>1
<1> QED
  BY <1>1, <1>2, <1>3, <1>4, <1>7 DEF IsProgram, n, m

LEMMA AsProgramOne ==
    ASSUME NEW w
    PROVE  AsProgram(<<w>>) = Kept(w)
<1> DEFINE s == <<w>>
           W == {w}
<1>1. s \in Seq(W) /\ Len(s) = 1 /\ s[1] = w
  OBVIOUS
<1>2. Kept(w) \in Seq(KeptOf(W))
  BY KeptIs
<1> HIDE DEF s
<1>3. PICK g : IsProgram(g, s, KeptOf(W))
  BY <1>1, AsProgramRuns
<1>4. AsProgram(s) = g[1] /\ g[1] = g[0] \o Kept(w) /\ g[0] = <<>>
  <2>1. 1 \in 1..Len(s) /\ 1 - 1 = 0
    BY <1>1
  <2>2. g[1] = g[1 - 1] \o Kept(s[1])
    BY <1>3, <2>1 DEF IsProgram
  <2>3. AsProgram(s) = g[1] /\ g[0] = <<>>
    BY <1>1, <1>3 DEF IsProgram
  <2> QED
    BY <1>1, <2>1, <2>2, <2>3
<1>5. <<>> \o Kept(w) = Kept(w)
  BY <1>2
<1> QED
  BY <1>4, <1>5 DEF s

\* Nothing is left of writes without a name.
LEMMA AsProgramNone ==
    ASSUME NEW W, NEW writes \in Seq(W), \A w \in W : NameOf(w.at) = "other"
    PROVE  AsProgram(writes) = <<>>
<1> DEFINE n == Len(writes)
<1>1. n \in Nat /\ \A k \in 1..n : Kept(writes[k]) = <<>>
  BY DEF Kept
<1>2. PICK g : IsProgram(g, writes, KeptOf(W))
  BY AsProgramRuns
<1> HIDE DEF n
<1>3. \A k \in 0..n : g[k] = <<>>
  <2> DEFINE bad == {k \in 0..n : g[k] # <<>>}
  <2>1. CASE bad = {}
    BY <2>1
  <2>2. CASE bad # {}
    <3>1. \E j \in bad : \A k \in bad : j <= k
      <4>1. bad \subseteq Nat
        BY <1>1
      <4> HIDE DEF bad
      <4> QED
        BY <2>2, <4>1, Least
    <3>2. PICK j \in bad : \A k \in bad : j <= k
      BY <3>1
    <3>3. j \in 1..n /\ j - 1 \in 0..n
      BY <1>1, <1>2, <3>2 DEF IsProgram
    <3>4. j - 1 \notin bad
      <4> HIDE DEF bad
      <4> QED
        BY <3>2, <3>3
    <3>5. g[j-1] = <<>>
      BY <3>3, <3>4
    <3>6. g[j] = g[j-1] \o Kept(writes[j])
      BY <1>2, <3>3 DEF IsProgram, n
    <3>7. g[j] = <<>> \o <<>>
      BY <1>1, <3>3, <3>5, <3>6
    <3>8. g[j] = <<>>
      BY <3>7
    <3> QED
      BY <3>2, <3>8
  <2> QED
    BY <2>1, <2>2
<1> QED
  BY <1>1, <1>2, <1>3 DEF IsProgram, n

Blocks    == {"usb", "sys", "0", "1"}
Listed(V) == [at : Blocks \X Int, val : Int \cup V]

\* The list u of writes is the program s.
Makes(V, u, s) == u \in Seq(Listed(V)) /\ AsProgram(u) = s

LEMMA JoinOne ==
    ASSUME NEW V, NEW u, NEW s, Makes(V, u, s), NEW w \in Listed(V), NEW c, c = u \o <<w>>
    PROVE  Makes(V, c, s \o Kept(w))
<1> DEFINE W == Listed(V)
<1>1. u \in Seq(W) /\ AsProgram(u) = s
  BY DEF Makes
<1> HIDE DEF W
<1>2. AsProgram(<<w>>) = Kept(w)
  BY AsProgramOne
<1>3. w \in W
  BY DEF W
<1>4. PICK v : v = <<w>>
  OBVIOUS
<1>5. c = u \o v /\ v \in Seq(W)
  BY <1>3, <1>4
<1>6. AsProgram(c) = AsProgram(u) \o AsProgram(v)
  BY <1>1, <1>5, AsProgramJoin
<1>7. c \in Seq(W)
  BY <1>1, <1>5
<1> QED
  BY <1>1, <1>2, <1>4, <1>6, <1>7 DEF Makes, W

LEMMA JoinNone ==
    ASSUME NEW V, NEW u \in Seq(Listed(V)), NEW x \in Seq(Listed(V)), AsProgram(x) = <<>>,
           NEW s, AsProgram(u) = s
    PROVE  u \o x \in Seq(Listed(V)) /\ AsProgram(u \o x) = s
<1> DEFINE W == Listed(V)
<1>0. u \in Seq(W) /\ x \in Seq(W)
  OBVIOUS
<1> HIDE DEF W
<1>1. AsProgram(u \o x) = AsProgram(u) \o AsProgram(x) /\ u \o x \in Seq(W)
  <2>1. PICK c : c = u \o x
    OBVIOUS
  <2>2. AsProgram(c) = AsProgram(u) \o AsProgram(x)
    BY <1>0, <2>1, AsProgramJoin
  <2> QED
    BY <1>0, <2>1, <2>2
<1>2. PICK g : IsProgram(g, u, KeptOf(W))
  BY <1>0, AsProgramRuns
<1>3. Len(u) \in 0..Len(u)
  BY <1>0
<1>4. AsProgram(u) \in Seq(KeptOf(W))
  BY <1>2, <1>3 DEF IsProgram
<1>5. PICK y \in Seq(KeptOf(W)) : y = s
  BY <1>4
<1>6. y \o <<>> = y
  OBVIOUS
<1> QED
  BY <1>1, <1>5, <1>6 DEF W

LEMMA JoinRow ==
    ASSUME NEW V, NEW u \in Seq(Listed(V)), NEW b \in Blocks, NEW a \in Int, NEW bytes \in Seq(Int \cup V),
           \A n \in 1..Len(bytes) : NameOf(<<b, a + n - 1>>) = "other",
           NEW s, AsProgram(u) = s
    PROVE  u \o Row(b, a, bytes) \in Seq(Listed(V)) /\ AsProgram(u \o Row(b, a, bytes)) = s
<1> DEFINE x == Row(b, a, bytes)
           W == {w \in Listed(V) : NameOf(w.at) = "other"}
<1>1. \A n \in 1..Len(bytes) : [at |-> <<b, a + n - 1>>, val |-> bytes[n]] \in W
  <2> TAKE n \in 1..Len(bytes)
  <2>1. bytes[n] \in Int \cup V /\ a + n - 1 \in Int
    OBVIOUS
  <2>2. [at |-> <<b, a + n - 1>>, val |-> bytes[n]] \in Listed(V)
    BY <2>1 DEF Listed
  <2> QED
    BY <2>2
<1>2. x = [n \in 1..Len(bytes) |-> [at |-> <<b, a + n - 1>>, val |-> bytes[n]]] /\ Len(bytes) \in Nat
  BY DEF Row
<1> HIDE DEF W, x
<1>3. x \in Seq(W)
  BY <1>1, <1>2
<1>4. \A w \in W : NameOf(w.at) = "other" /\ w \in Listed(V)
  BY DEF W
<1>5. AsProgram(x) = <<>>
  BY <1>3, <1>4, AsProgramNone
<1>6. W \subseteq Listed(V)
  BY <1>4
<1>7. x \in Seq(Listed(V))
  BY <1>3, <1>6
<1> QED
  BY <1>5, <1>7, JoinNone DEF x

LEMMA MakesNothing ==
    ASSUME NEW V
    PROVE  Makes(V, <<>>, <<>>)
<1>1. PICK W, u : W = {} /\ u = <<>>
  OBVIOUS
<1>2. u \in Seq(W) /\ \A w \in W : NameOf(w.at) = "other"
  BY <1>1
<1>3. AsProgram(u) = <<>>
  BY <1>2, AsProgramNone
<1> QED
  BY <1>1, <1>3 DEF Makes

LEMMA JoinUnnamed ==
    ASSUME NEW V, NEW u, NEW s, Makes(V, u, s), NEW b \in Blocks, NEW a \in Int, NEW v \in Int,
           NameOf(<<b, a>>) = "other", NEW c, c = u \o One(b, a, v)
    PROVE  Makes(V, c, s)
<1>a. PICK w : w = [at |-> <<b, a>>, val |-> v % 256]
  OBVIOUS
<1>0. w \in Listed(V) /\ w = [at |-> <<b, a>>, val |-> v % 256]
  BY <1>a DEF Listed
<1>1. Kept(w) = <<>>
  BY <1>0 DEF Kept
<1>2. c \in Seq(Listed(V)) /\ AsProgram(c) = s \o <<>>
  <2>1. c = u \o <<w>>
    BY <1>0 DEF One
  <2>2. Makes(V, c, s \o Kept(w))
    BY <1>0, <2>1, JoinOne, ZenonT(40)
  <2> QED
    BY <1>1, <2>2 DEF Makes
<1>3. PICK g : IsProgram(g, u, KeptOf(Listed(V)))
  BY AsProgramRuns DEF Makes
<1>4. s \in Seq(KeptOf(Listed(V)))
  <2>1. Len(u) \in 0..Len(u)
    BY DEF Makes
  <2> QED
    BY <1>3, <2>1 DEF IsProgram, Makes
<1>5. s \o <<>> = s
  BY <1>4
<1> QED
  BY <1>2, <1>5 DEF Makes

LEMMA JoinNamed ==
    ASSUME NEW V, NEW u, NEW s, Makes(V, u, s), NEW b \in Blocks, NEW a \in Int, NEW v \in 0..255,
           NEW r, NameOf(<<b, a>>) = r, r # "other", NEW c, c = u \o One(b, a, v)
    PROVE  Makes(V, c, s \o <<Write(r, v)>>)
<1>a. PICK w : w = [at |-> <<b, a>>, val |-> v % 256]
  OBVIOUS
<1>0. w \in Listed(V) /\ w = [at |-> <<b, a>>, val |-> v % 256]
  BY <1>a DEF Listed
<1>1. Kept(w) = <<Write(r, v)>>
  BY <1>0 DEF Kept
<1>2. c = u \o <<w>>
  BY <1>0 DEF One
<1>3. Makes(V, c, s \o Kept(w))
  BY <1>0, <1>2, JoinOne, ZenonT(40)
<1> QED
  BY <1>1, <1>3

LEMMA JoinTwo ==
    ASSUME NEW V, NEW u, NEW s, Makes(V, u, s), NEW b \in Blocks, NEW a \in Int, NEW v \in Int,
           NameOf(<<b, a>>) = "other", NameOf(<<b, a + 1>>) = "other", NEW c, c = u \o Two(b, a, v)
    PROVE  Makes(V, c, s)
<1>1. v \div 256 \in Int /\ a + 1 \in Int
  OBVIOUS
<1>2. PICK d : d = u \o One(b, a, v \div 256)
  OBVIOUS
<1>3. Makes(V, d, s)
  BY <1>1, <1>2, JoinUnnamed, ZenonT(40)
<1>4. PICK e : e = d \o One(b, a + 1, v)
  OBVIOUS
<1>5. Makes(V, e, s)
  BY <1>1, <1>3, <1>4, JoinUnnamed
<1>6. c = e
  <2>1. u \in Seq(Listed(V))
    BY DEF Makes
  <2>2. \A x, y : u \o (<<x>> \o <<y>>) = (u \o <<x>>) \o <<y>>
    BY <2>1
  <2> QED
    BY <1>2, <1>4, <2>2 DEF Two, One
<1> QED
  BY <1>5, <1>6

LEMMA JoinBytes ==
    ASSUME NEW V, NEW u, NEW s, Makes(V, u, s), NEW b \in Blocks, NEW a \in Int, NEW bytes \in Seq(Int \cup V),
           \A n \in 1..Len(bytes) : NameOf(<<b, a + n - 1>>) = "other", NEW c, c = u \o Row(b, a, bytes)
    PROVE  Makes(V, c, s)
BY JoinRow DEF Makes

\* The initialisation of the baseband of both programs, with the coefficients fir.
Baseband(fir) ==
    One("usb", \h2000, \h09) \o
    Two("usb", \h2158, \h0002) \o
    Two("usb", \h2148, \h1002) \o
    One("sys", \h300b, \h22) \o
    One("sys", \h3000, \he8) \o
    One("1", \h01, \h14) \o
    One("1", \h01, \h10) \o
    One("1", \h15, \h00) \o
    Two("1", \h16, \h0000) \o
    Row("1", \h16, [n \in 1..6 |-> 0]) \o
    Row("1", \h1c, fir) \o
    One("0", \h19, \h05) \o
    One("1", \h93, \hf0) \o
    One("1", \h94, \h0f) \o
    One("1", \h11, \h00) \o
    One("1", \h04, \h00) \o
    One("0", \h61, \h60) \o
    One("0", \h06, \h80) \o
    One("1", \hb1, \h1b) \o
    One("0", \h0d, \h83)
BasebandSteps ==
    <<Write("DEMOD_CTL", \he8)>> \o <<Write("1:01", \h14)>> \o <<Write("1:01", \h10)>> \o <<Write("1:15", 0)>>
      \o <<Write("0:19", 5)>> \o <<Write("0:06", \h80)>> \o <<Write("1:b1", \h1b)>>

LEMMA BasebandIs ==
    ASSUME NEW V, NEW fir \in Seq(Int \cup V), Len(fir) <= 20
    PROVE  Makes(V, Baseband(fir), BasebandSteps)
<1> DEFINE s0 == <<>>
           s1 == <<Write("DEMOD_CTL", \he8)>>
           s2 == s1 \o <<Write("1:01", \h14)>>
           s3 == s2 \o <<Write("1:01", \h10)>>
           s4 == s3 \o <<Write("1:15", 0)>>
           s5 == s4 \o <<Write("0:19", 5)>>
           s6 == s5 \o <<Write("0:06", \h80)>>
           s7 == s6 \o <<Write("1:b1", \h1b)>>
           c0 == <<>>
           c1 == One("usb", \h2000, \h09)
           c2 == c1 \o Two("usb", \h2158, \h0002)
           c3 == c2 \o Two("usb", \h2148, \h1002)
           c4 == c3 \o One("sys", \h300b, \h22)
           c5 == c4 \o One("sys", \h3000, \he8)
           c6 == c5 \o One("1", \h01, \h14)
           c7 == c6 \o One("1", \h01, \h10)
           c8 == c7 \o One("1", \h15, \h00)
           c9 == c8 \o Two("1", \h16, \h0000)
           c10 == c9 \o Row("1", \h16, [n \in 1..6 |-> 0])
           c11 == c10 \o Row("1", \h1c, fir)
           c12 == c11 \o One("0", \h19, \h05)
           c13 == c12 \o One("1", \h93, \hf0)
           c14 == c13 \o One("1", \h94, \h0f)
           c15 == c14 \o One("1", \h11, \h00)
           c16 == c15 \o One("1", \h04, \h00)
           c17 == c16 \o One("0", \h61, \h60)
           c18 == c17 \o One("0", \h06, \h80)
           c19 == c18 \o One("1", \hb1, \h1b)
           c20 == c19 \o One("0", \h0d, \h83)
<1>0. Makes(V, c0, s0)
  BY MakesNothing
<1>z. Baseband(fir) = c20
  BY DEF Baseband
<1>s. s7 = BasebandSteps
  BY DEF BasebandSteps
<1>b. "usb" \in Blocks /\ "sys" \in Blocks /\ "0" \in Blocks /\ "1" \in Blocks
  BY DEF Blocks
<1> HIDE DEF c0, c1, c2, c3, c4, c5, c6, c7, c8, c9, c10, c11, c12, c13, c14, c15, c16, c17, c18, c19, c20, s0, s1, s2, s3, s4, s5, s6, s7
<1>1. Makes(V, c1, s0)
  <2>1. PICK a \in Int, v \in Int : a = \h2000 /\ v = \h09
    OBVIOUS
  <2>2. NameOf(<<"usb", a>>) = "other"
    BY <2>1 DEF NameOf
  <2>3. c1 = c0 \o One("usb", a, v)
    BY <2>1 DEF c1, c0, One
  <2> QED
    BY <1>0, <1>b, <2>2, <2>3, JoinUnnamed, Zenon
<1>2. Makes(V, c2, s0)
  <2>1. PICK a \in Int, v \in Int : a = \h2158 /\ v = \h0002
    OBVIOUS
  <2>2. NameOf(<<"usb", a>>) = "other" /\ NameOf(<<"usb", a + 1>>) = "other"
    BY <2>1 DEF NameOf
  <2>3. c2 = c1 \o Two("usb", a, v)
    BY <2>1 DEF c2
  <2> QED
    BY <1>1, <1>b, <2>2, <2>3, JoinTwo, Zenon
<1>3. Makes(V, c3, s0)
  <2>1. PICK a \in Int, v \in Int : a = \h2148 /\ v = \h1002
    OBVIOUS
  <2>2. NameOf(<<"usb", a>>) = "other" /\ NameOf(<<"usb", a + 1>>) = "other"
    BY <2>1 DEF NameOf
  <2>3. c3 = c2 \o Two("usb", a, v)
    BY <2>1 DEF c3
  <2> QED
    BY <1>2, <1>b, <2>2, <2>3, JoinTwo, Zenon
<1>4. Makes(V, c4, s0)
  <2>1. PICK a \in Int, v \in Int : a = \h300b /\ v = \h22
    OBVIOUS
  <2>2. NameOf(<<"sys", a>>) = "other"
    BY <2>1 DEF NameOf
  <2>3. c4 = c3 \o One("sys", a, v)
    BY <2>1 DEF c4
  <2> QED
    BY <1>3, <1>b, <2>2, <2>3, JoinUnnamed, Zenon
<1>5. Makes(V, c5, s1)
  <2>1. PICK a \in Int, v \in 0..255 : a = \h3000 /\ v = \he8
    OBVIOUS
  <2>2. NameOf(<<"sys", a>>) = "DEMOD_CTL"
    BY <2>1 DEF NameOf
  <2>3. c5 = c4 \o One("sys", a, v) /\ s1 = s0 \o <<Write("DEMOD_CTL", v)>>
    BY <2>1 DEF c5, s1, s0
  <2> QED
    BY <1>4, <1>b, <2>2, <2>3, JoinNamed, Zenon
<1>6. Makes(V, c6, s2)
  <2>1. NameOf(<<"1", \h01>>) = "1:01" /\ \h14 \in 0..255 /\ \h01 \in Int
    BY DEF NameOf
  <2> QED
    BY <1>5, <1>b, <2>1, JoinNamed, Zenon DEF c6, s2
<1>7. Makes(V, c7, s3)
  <2>1. NameOf(<<"1", \h01>>) = "1:01" /\ \h10 \in 0..255 /\ \h01 \in Int
    BY DEF NameOf
  <2> QED
    BY <1>6, <1>b, <2>1, JoinNamed, Zenon DEF c7, s3
<1>8. Makes(V, c8, s4)
  <2>1. NameOf(<<"1", \h15>>) = "1:15" /\ \h00 \in 0..255 /\ \h15 \in Int
    BY DEF NameOf
  <2> QED
    BY <1>7, <1>b, <2>1, JoinNamed, Zenon DEF c8, s4
<1>9. Makes(V, c9, s4)
  <2>1. NameOf(<<"1", \h16>>) = "other" /\ NameOf(<<"1", \h16 + 1>>) = "other"
        /\ \h16 \in Int /\ \h0000 \in Int
    BY DEF NameOf
  <2> QED
    BY <1>8, <1>b, <2>1, JoinTwo, Zenon DEF c9
<1>10. Makes(V, c10, s4)
  <2>1. \A n \in 1..6 : NameOf(<<"1", \h16 + n - 1>>) = "other"
    BY DEF NameOf
  <2>2. PICK zeros : zeros = [n \in 1..6 |-> 0]
    OBVIOUS
  <2>3. zeros \in Seq(Int \cup V) /\ Len(zeros) = 6
    BY <2>2
  <2>4. \h16 \in Int
    OBVIOUS
  <2> QED
    BY <1>9, <1>b, <2>1, <2>2, <2>3, <2>4, JoinBytes, Zenon DEF c10
<1>11. Makes(V, c11, s4)
  <2>1. \A n \in 1..Len(fir) : NameOf(<<"1", \h1c + n - 1>>) = "other"
    BY DEF NameOf
  <2>2. \h1c \in Int
    OBVIOUS
  <2> QED
    BY <1>10, <1>b, <2>1, <2>2, JoinBytes, Zenon DEF c11
<1>12. Makes(V, c12, s5)
  <2>1. NameOf(<<"0", \h19>>) = "0:19" /\ \h05 \in 0..255 /\ \h19 \in Int
    BY DEF NameOf
  <2> QED
    BY <1>11, <1>b, <2>1, JoinNamed, Zenon DEF c12, s5
<1>13. Makes(V, c13, s5)
  <2>1. NameOf(<<"1", \h93>>) = "other" /\ \h93 \in Int /\ \hf0 \in Int
    BY DEF NameOf
  <2> QED
    BY <1>12, <1>b, <2>1, JoinUnnamed, ZenonT(40) DEF c13
<1>14. Makes(V, c14, s5)
  <2>1. NameOf(<<"1", \h94>>) = "other" /\ \h94 \in Int /\ \h0f \in Int
    BY DEF NameOf
  <2> QED
    BY <1>13, <1>b, <2>1, JoinUnnamed, Zenon DEF c14
<1>15. Makes(V, c15, s5)
  <2>1. NameOf(<<"1", \h11>>) = "other" /\ \h11 \in Int /\ \h00 \in Int
    BY DEF NameOf
  <2> QED
    BY <1>14, <1>b, <2>1, JoinUnnamed, Zenon DEF c15
<1>16. Makes(V, c16, s5)
  <2>1. NameOf(<<"1", \h04>>) = "other" /\ \h04 \in Int /\ \h00 \in Int
    BY DEF NameOf
  <2> QED
    BY <1>15, <1>b, <2>1, JoinUnnamed, Zenon DEF c16
<1>17. Makes(V, c17, s5)
  <2>1. NameOf(<<"0", \h61>>) = "other" /\ \h61 \in Int /\ \h60 \in Int
    BY DEF NameOf
  <2> QED
    BY <1>16, <1>b, <2>1, JoinUnnamed, Zenon DEF c17
<1>18. Makes(V, c18, s6)
  <2>1. NameOf(<<"0", \h06>>) = "0:06" /\ \h80 \in 0..255 /\ \h06 \in Int
    BY DEF NameOf
  <2> QED
    BY <1>17, <1>b, <2>1, JoinNamed, ZenonT(40) DEF c18, s6
<1>19. Makes(V, c19, s7)
  <2>1. NameOf(<<"1", \hb1>>) = "1:b1" /\ \h1b \in 0..255 /\ \hb1 \in Int
    BY DEF NameOf
  <2> QED
    BY <1>18, <1>b, <2>1, JoinNamed, ZenonT(40) DEF c19, s7
<1>20. Makes(V, c20, s7)
  <2>1. NameOf(<<"0", \h0d>>) = "other" /\ \h0d \in Int /\ \h83 \in Int
    BY DEF NameOf
  <2> QED
    BY <1>19, <1>b, <2>1, JoinUnnamed, Zenon DEF c20
<1> QED
  BY <1>z, <1>s, <1>20

LEMMA FivePieces ==
    ASSUME NEW A, NEW p0 \in Seq(A), NEW p1 \in Seq(A), NEW p2 \in Seq(A), NEW p3 \in Seq(A), NEW p4 \in Seq(A),
           NEW c, c = p0 \o p1 \o p2 \o p3 \o p4
    PROVE  c \in Seq(A) /\ Len(c) = Len(p0) + Len(p1) + Len(p2) + Len(p3) + Len(p4)
OBVIOUS

LEMMA FirBytes ==
    ASSUME NEW V, NEW c, \A i \in 1..16 : c[i] \in Int
    PROVE  Fir(c) \in Seq(Int \cup V) /\ Len(Fir(c)) = 20
<1> DEFINE A == Int \cup V
<1>1. \A i \in 1..16 : c[i] \in Int
  OBVIOUS
<1>2. ASSUME NEW v \in Int, NEW w \in Int
      PROVE  PackedPair(v, w) \in Seq(A) /\ Len(PackedPair(v, w)) = 3
  BY DEF PackedPair
<1>3. PICK p0, p1, p2, p3, p4 :
        /\ p0 = [i \in 1..8 |-> c[i] % 256]
        /\ p1 = PackedPair(c[9], c[10]) /\ p2 = PackedPair(c[11], c[12])
        /\ p3 = PackedPair(c[13], c[14]) /\ p4 = PackedPair(c[15], c[16])
  OBVIOUS
<1>4. p0 \in Seq(A) /\ Len(p0) = 8
  <2>0. \A i \in 1..8 : c[i] \in Int
    BY <1>1
  <2>1. \A i \in 1..8 : c[i] % 256 \in A
    BY <2>0
  <2> HIDE DEF A
  <2> QED
    BY <1>3, <2>1
<1>5. /\ p1 \in Seq(A) /\ Len(p1) = 3 /\ p2 \in Seq(A) /\ Len(p2) = 3
      /\ p3 \in Seq(A) /\ Len(p3) = 3 /\ p4 \in Seq(A) /\ Len(p4) = 3
  <2>1. /\ c[9] \in Int /\ c[10] \in Int /\ c[11] \in Int /\ c[12] \in Int
        /\ c[13] \in Int /\ c[14] \in Int /\ c[15] \in Int /\ c[16] \in Int
    BY <1>1
  <2> HIDE DEF A
  <2> QED
    BY <1>2, <1>3, <2>1, Zenon
<1>6. Fir(c) = p0 \o p1 \o p2 \o p3 \o p4
  BY <1>3 DEF Fir
<1> HIDE DEF A
<1>7. PICK fir : fir = p0 \o p1 \o p2 \o p3 \o p4
  OBVIOUS
<1>8. fir \in Seq(A) /\ Len(fir) = Len(p0) + Len(p1) + Len(p2) + Len(p3) + Len(p4)
  <2>1. p0 \in Seq(A) /\ p1 \in Seq(A) /\ p2 \in Seq(A) /\ p3 \in Seq(A) /\ p4 \in Seq(A)
    BY <1>4, <1>5
  <2> QED
    BY <1>7, <2>1, FivePieces
<1>9. Len(p0) + Len(p1) + Len(p2) + Len(p3) + Len(p4) = 20
  BY <1>4, <1>5
<1> QED
  BY <1>6, <1>7, <1>8, <1>9 DEF A

LEMMA SwiftFirBytes ==
    ASSUME NEW V, NEW c, \A i \in 1..16 : c[i] \in Int
    PROVE  setFirCoefficients(c) \in Seq(Int \cup V) /\ Len(setFirCoefficients(c)) = 20
<1> DEFINE A == Int \cup V
<1>1. \A i \in 1..16 : c[i] \in Int
  OBVIOUS
<1>2. ASSUME NEW v \in Int, NEW w \in Int
      PROVE  SwiftPair(v, w) \in Seq(A) /\ Len(SwiftPair(v, w)) = 3
  BY DEF SwiftPair, Pattern
<1>3. PICK p0, p1, p2, p3, p4 :
        /\ p0 = [i \in 1..8 |-> c[i] % 256]
        /\ p1 = SwiftPair(c[9], c[10]) /\ p2 = SwiftPair(c[11], c[12])
        /\ p3 = SwiftPair(c[13], c[14]) /\ p4 = SwiftPair(c[15], c[16])
  OBVIOUS
<1>4. p0 \in Seq(A) /\ Len(p0) = 8
  <2>0. \A i \in 1..8 : c[i] \in Int
    BY <1>1
  <2>1. \A i \in 1..8 : c[i] % 256 \in A
    BY <2>0
  <2> HIDE DEF A
  <2> QED
    BY <1>3, <2>1
<1>5. /\ p1 \in Seq(A) /\ Len(p1) = 3 /\ p2 \in Seq(A) /\ Len(p2) = 3
      /\ p3 \in Seq(A) /\ Len(p3) = 3 /\ p4 \in Seq(A) /\ Len(p4) = 3
  <2>1. /\ c[9] \in Int /\ c[10] \in Int /\ c[11] \in Int /\ c[12] \in Int
        /\ c[13] \in Int /\ c[14] \in Int /\ c[15] \in Int /\ c[16] \in Int
    BY <1>1
  <2> HIDE DEF A
  <2> QED
    BY <1>2, <1>3, <2>1, Zenon
<1>6. setFirCoefficients(c) = p0 \o p1 \o p2 \o p3 \o p4
  BY <1>3 DEF setFirCoefficients
<1> HIDE DEF A
<1>7. PICK fir : fir = p0 \o p1 \o p2 \o p3 \o p4
  OBVIOUS
<1>8. fir \in Seq(A) /\ Len(fir) = Len(p0) + Len(p1) + Len(p2) + Len(p3) + Len(p4)
  <2>1. p0 \in Seq(A) /\ p1 \in Seq(A) /\ p2 \in Seq(A) /\ p3 \in Seq(A) /\ p4 \in Seq(A)
    BY <1>4, <1>5
  <2> QED
    BY <1>7, <2>1, FivePieces
<1>9. Len(p0) + Len(p1) + Len(p2) + Len(p3) + Len(p4) = 20
  BY <1>4, <1>5
<1> QED
  BY <1>6, <1>7, <1>8, <1>9 DEF A

\* Both programs initialise the baseband in the same way.
LEMMA InitBasebandIs == InitBaseband = BasebandSteps
<1>1. PICK V : V = Int
  OBVIOUS
<1>2. PICK c : c = fir_default
  OBVIOUS
<1>a. \A i \in 1..16 : c[i] \in Int
  BY <1>2 DEF fir_default
<1>3. PICK fir : fir = Fir(c)
  OBVIOUS
<1>b. fir \in Seq(Int \cup V) /\ Len(fir) <= 20
  <2>1. Fir(c) \in Seq(Int \cup V) /\ Len(Fir(c)) = 20
    BY <1>a, FirBytes, Zenon
  <2> QED
    BY <1>3, <2>1
<1>4. CBaseband = Baseband(fir)
  BY <1>2, <1>3 DEF CBaseband, Baseband
<1> QED
  BY <1>3, <1>b, <1>4, BasebandIs DEF InitBaseband, Makes

LEMMA initBasebandIs == AsProgram(initBaseband) = BasebandSteps
<1>1. PICK V : V = Int
  OBVIOUS
<1>2. PICK c : c = firCoefficients
  OBVIOUS
<1>a. \A i \in 1..16 : c[i] \in Int
  BY <1>2 DEF firCoefficients
<1>3. PICK fir : fir = setFirCoefficients(c)
  OBVIOUS
<1>b. fir \in Seq(Int \cup V) /\ Len(fir) <= 20
  <2>1. setFirCoefficients(c) \in Seq(Int \cup V) /\ Len(setFirCoefficients(c)) = 20
    BY <1>a, SwiftFirBytes, Zenon
  <2> QED
    BY <1>3, <2>1
<1>4. initBaseband = Baseband(fir)
  BY <1>2, <1>3 DEF initBaseband, Baseband
<1> QED
  BY <1>3, <1>b, <1>4, BasebandIs DEF Makes

LEMMA setI2CRepeaterIs ==
    ASSUME NEW on \in BOOLEAN
    PROVE  AsProgram(setI2CRepeater(on)) = Repeater(on)
<1>1. PICK V : V = Int
  OBVIOUS
<1>2. PICK u, s : u = <<>> /\ s = <<>>
  OBVIOUS
<1>3. Makes(V, u, s)
  BY <1>2, MakesNothing
<1>4. PICK b \in Blocks, a \in Int, v \in 0..255 : b = "1" /\ a = \h01 /\ v = IF on THEN \h18 ELSE \h10
  BY DEF Blocks
<1>5. PICK c : c = One(b, a, v)
  OBVIOUS
<1>6. c = u \o One(b, a, v)
  BY <1>2, <1>5 DEF One
<1>7. NameOf(<<b, a>>) = "1:01"
  BY <1>4 DEF NameOf
<1>8. Makes(V, c, s \o <<Write("1:01", v)>>)
  BY <1>3, <1>6, <1>7, JoinNamed, Zenon
<1>9. c = setI2CRepeater(on) /\ s \o <<Write("1:01", v)>> = Repeater(on)
  BY <1>2, <1>4, <1>5 DEF setI2CRepeater, Repeater
<1> QED
  BY <1>8, <1>9 DEF Makes

R820TSteps == <<Write("1:b1", \h1a)>> \o <<Write("0:08", \h4d)>> \o <<Write("1:15", 1)>>

LEMMA RTLTunerR820TIs == AsProgram(RTLTunerR820T) = R820TSteps
<1>1. PICK f : f = 3570000
  BY SMT
<1>a. PICK bytes : bytes = setIFFrequency(f)
  OBVIOUS
<1>b. PICK x, y, z : bytes = <<x, y, z>>
  BY <1>a, SMT DEF setIFFrequency
<1>c. PICK V : V = {x, y, z}
  OBVIOUS
<1>2. bytes \in Seq(Int \cup V) /\ Len(bytes) = 3
  BY <1>b, <1>c
<1>3. PICK c0, s0 : c0 = <<>> /\ s0 = <<>>
  OBVIOUS
<1>4. Makes(V, c0, s0)
  BY <1>3, MakesNothing
<1>5. PICK b0 \in Blocks, b1 \in Blocks : b0 = "0" /\ b1 = "1"
  BY DEF Blocks
<1>6. PICK a1 \in Int, a2 \in Int, a3 \in Int, a4 \in Int :
        a1 = \hb1 /\ a2 = \h08 /\ a3 = \h19 /\ a4 = \h15
  OBVIOUS
<1>7. PICK v1 \in 0..255, v2 \in 0..255, v4 \in 0..255 : v1 = \h1a /\ v2 = \h4d /\ v4 = 1
  OBVIOUS
<1>8. /\ NameOf(<<b1, a1>>) = "1:b1" /\ NameOf(<<b0, a2>>) = "0:08" /\ NameOf(<<b1, a4>>) = "1:15"
      /\ \A n \in 1..Len(bytes) : NameOf(<<b1, a3 + n - 1>>) = "other"
  BY <1>2, <1>5, <1>6 DEF NameOf
<1>9. PICK c1, s1 : c1 = One(b1, a1, v1) /\ s1 = <<Write("1:b1", v1)>>
  OBVIOUS
<1>10. c1 = c0 \o One(b1, a1, v1) /\ s1 = s0 \o <<Write("1:b1", v1)>>
  BY <1>3, <1>9 DEF One
<1>11. Makes(V, c1, s1)
  BY <1>4, <1>8, <1>10, JoinNamed, ZenonT(40)
<1>12. PICK c2, s2 : c2 = c1 \o One(b0, a2, v2) /\ s2 = s1 \o <<Write("0:08", v2)>>
  OBVIOUS
<1>13. Makes(V, c2, s2)
  BY <1>8, <1>11, <1>12, JoinNamed, ZenonT(40)
<1>14. PICK c3 : c3 = c2 \o Row(b1, a3, bytes)
  OBVIOUS
<1>15. Makes(V, c3, s2)
  BY <1>2, <1>8, <1>13, <1>14, JoinBytes, ZenonT(40)
<1>16. PICK c4, s4 : c4 = c3 \o One(b1, a4, v4) /\ s4 = s2 \o <<Write("1:15", v4)>>
  OBVIOUS
<1>17. Makes(V, c4, s4)
  BY <1>8, <1>15, <1>16, JoinNamed, ZenonT(40)
<1>18. c4 = RTLTunerR820T
  BY <1>1, <1>a, <1>5, <1>6, <1>7, <1>9, <1>12, <1>14, <1>16, SMT DEF RTLTunerR820T
<1>19. s4 = R820TSteps
  BY <1>7, <1>9, <1>12, <1>16 DEF R820TSteps
<1> QED
  BY <1>17, <1>18, <1>19 DEF Makes

-----------------------------------------------------------------------------
(***************************************************************************)
(* What each program is made of.                                           *)
(***************************************************************************)
\* The register steps that leave the bits of others alone, in a call that has its own bits.
Own(op) == {x \in RegSteps : x.mask \cap Others[op][x.reg] = {}}

LEMMA OwnIs ==
    ASSUME NEW op \in DOMAIN Owned, NEW r \in RegNames, NEW b, <<r, b>> \in Owned[op]
    PROVE  /\ Others[op][r] \in Byte
           /\ BitsOf[b] \cap Others[op][r] = {}
<1>1. Others[op][r] = {c \in 0..7 : \A x \in Owned[op] : x[1] = r => c \notin BitsOf[x[2]]}
  BY DEF Others
<1>2. <<r, b>>[1] = r /\ <<r, b>>[2] = b
  OBVIOUS
<1> QED
  BY <1>1, <1>2 DEF Byte

LEMMA MayMask ==
    ASSUME NEW op \in DOMAIN Owned, NEW r \in RegNames, NEW b, <<r, b>> \in Owned[op],
           NEW v \in 0..255, NEW m \in 0..255, BitsOf[m] \subseteq BitsOf[b]
    PROVE  Mask(r, v, m) \in Own(op)
<1>1. BitsOf[m] \cap Others[op][r] = {}
  BY OwnIs
<1>2. PICK x : x = Mask(r, v, m)
  OBVIOUS
<1>3. x \in RegSteps /\ x.reg = r /\ x.mask = BitsOf[m]
  <2>1. BitsOf[v] \in Byte /\ BitsOf[m] \in Byte
    BY BitsAre
  <2> QED
    BY <1>2, <2>1 DEF Mask, RegSteps
<1> QED
  BY <1>1, <1>2, <1>3 DEF Own

LEMMA MayWrite ==
    ASSUME NEW op \in DOMAIN Owned, NEW r \in RegNames, <<r, \hff>> \in Owned[op], NEW v \in 0..255
    PROVE  Write(r, v) \in Own(op)
<1>1. BitsOf[\hff] = 0..7
  <2>1. BitsOf[\hff] \in Byte
    BY BitsAre
  <2>2. \A b \in 0..7 : b \in {0, 1, 2, 3, 4, 5, 6, 7}
    OBVIOUS
  <2>3. {0, 1, 2, 3, 4, 5, 6, 7} \subseteq BitsOf[\hff]
    BY BitsAre
  <2> QED
    BY <2>1, <2>2, <2>3 DEF Byte
<1>2. BitsOf[\hff] \cap Others[op][r] = {}
  BY OwnIs
<1>3. PICK x : x = Write(r, v)
  OBVIOUS
<1>4. x \in RegSteps /\ x.reg = r /\ x.mask = 0..7
  BY <1>3, WriteIs, SMTT(90)
<1> QED
  BY <1>1, <1>2, <1>3, <1>4 DEF Own

LEMMA SayIs ==
    ASSUME NEW type, NEW fit, type \in {fit, "unknown"}
    PROVE  /\ Tuner("probe") \in Sayable(fit) /\ Tuner("exit") \in Sayable(fit) /\ Tuner("set") \in Sayable(fit)
           /\ Known(type) => Tuner("init") \in Sayable(fit)
BY DEF Tuner, Sayable, Known

LEMMA BracketIs ==
    ASSUME NEW A, NEW type, NEW word, Known(type) => Tuner(word) \in A,
           Known(type) => Write("1:01", \h18) \in A /\ Write("1:01", \h10) \in A
    PROVE  Words(type, word) \in Seq(A)
<1>1. CASE Known(type)
  <2>1. /\ Repeater(TRUE) \in Seq(A) /\ Repeater(FALSE) \in Seq(A) /\ <<Tuner(word)>> \in Seq(A)
    BY <1>1 DEF Repeater
  <2>2. PICK u \in Seq(A), v \in Seq(A), w \in Seq(A) : u = Repeater(TRUE) /\ v = <<Tuner(word)>> /\ w = Repeater(FALSE)
    BY <2>1
  <2>3. u \o v \o w \in Seq(A)
    OBVIOUS
  <2> QED
    BY <1>1, <2>2, <2>3 DEF Words, Bracket
<1>2. CASE ~Known(type)
  BY <1>2 DEF Words
<1> QED
  BY <1>1, <1>2

LEMMA GpioIs ==
    ASSUME NEW A, NEW n \in {0, 5, 6}, NEW on \in BOOLEAN,
           \A v \in {0, 2 ^ n} : Mask("GPD", v, 2 ^ n) \in A /\ Mask("GPOE", v, 2 ^ n) \in A /\ Mask("GPO", v, 2 ^ n) \in A
    PROVE  GpioOutput(n) \in Seq(A) /\ GpioBit(n, on) \in Seq(A)
BY DEF GpioOutput, GpioBit

LEMMA BiasTeeIs ==
    ASSUME NEW on \in BOOLEAN
    PROVE  BiasTee(on) \in Seq(Own("bias"))
<1>1. "bias" \in DOMAIN Owned /\ Owned["bias"] = {<<"GPO", 1>>, <<"GPOE", 1>>, <<"GPD", 1>>}
  BY DEF Owned
<1>2. "GPO" \in RegNames /\ "GPOE" \in RegNames /\ "GPD" \in RegNames
  BY DEF RegNames, SysRegs
<1>3. 2 ^ 0 = 1
  OBVIOUS
<1>4. \A v \in {0, 1} : Mask("GPD", v, 1) \in Own("bias") /\ Mask("GPOE", v, 1) \in Own("bias") /\ Mask("GPO", v, 1) \in Own("bias")
  <2> TAKE v \in {0, 1}
  <2>1. v \in 0..255 /\ 1 \in 0..255 /\ BitsOf[1] \subseteq BitsOf[1]
    OBVIOUS
  <2>2. <<"GPO", 1>> \in Owned["bias"] /\ <<"GPOE", 1>> \in Owned["bias"] /\ <<"GPD", 1>> \in Owned["bias"]
    BY <1>1
  <2> QED
    BY <1>1, <1>2, <2>1, <2>2, MayMask, ZenonT(40)
<1>5. GpioOutput(0) \in Seq(Own("bias")) /\ GpioBit(0, on) \in Seq(Own("bias"))
  BY <1>3, <1>4, GpioIs
<1> QED
  BY <1>5 DEF BiasTee

LEMMA RegNamesAre ==
    /\ "1:01" \in RegNames /\ "1:15" \in RegNames /\ "1:b1" \in RegNames /\ "0:06" \in RegNames
    /\ "0:08" \in RegNames /\ "0:19" \in RegNames
    /\ "DEMOD_CTL" \in RegNames /\ "GPO" \in RegNames /\ "GPOE" \in RegNames /\ "GPD" \in RegNames
    /\ "USB_CTRL" \in RegNames
    /\ Usbb("DEMOD_CTL") \in RegNames /\ Usbb("GPO") \in RegNames /\ Usbb("GPOE") \in RegNames
    /\ Usbb("GPD") \in RegNames
BY DEF RegNames, DemodRegs, SysRegs, UsbRegs, Usbb, UsbbName

LEMMA OwnedAre ==
    /\ DOMAIN Owned = {"bias", "gain", "rate", "testmode", "agc", "direct", "ir", "key"}
    /\ <<"1:01", \hff>> \in Owned["gain"] /\ <<"1:01", \hff>> \in Owned["rate"]
    /\ <<"0:19", \hff>> \in Owned["testmode"] /\ <<"0:19", \hff>> \in Owned["agc"]
    /\ \A r \in DemodRegs \ {"0:19"} : <<r, \hff>> \in Owned["direct"]
    /\ <<Usbb("GPO"), 8>> \in Owned["ir"] /\ <<Usbb("GPOE"), 8>> \in Owned["ir"] /\ <<Usbb("GPD"), 8>> \in Owned["ir"]
    /\ <<Usbb("DEMOD_CTL"), 12>> \in Owned["ir"] /\ <<"USB_CTRL", 32>> \in Owned["ir"]
BY DEF Owned

\* The steps of the call op of a device with the tuner fit.
CallSteps(op, fit) == Own(op) \cup Sayable(fit)

LEMMA WordsAre ==
    ASSUME NEW type, NEW fit, type \in {fit, "unknown"}, NEW op \in {"gain", "rate", "direct"},
           NEW word \in {"init", "exit", "set"}
    PROVE  Words(type, word) \in Seq(CallSteps(op, fit))
<1>1. op \in DOMAIN Owned /\ "1:01" \in RegNames /\ <<"1:01", \hff>> \in Owned[op]
  BY OwnedAre, RegNamesAre DEF DemodRegs
<1>2. \h18 \in 0..255 /\ \h10 \in 0..255
  OBVIOUS
<1>3. Write("1:01", \h18) \in Own(op) /\ Write("1:01", \h10) \in Own(op)
  BY <1>1, <1>2, MayWrite, Zenon
<1>4. Known(type) => Tuner(word) \in Sayable(fit)
  BY SayIs
<1>5. PICK A : A = CallSteps(op, fit)
  OBVIOUS
<1>6. /\ Known(type) => Tuner(word) \in A
      /\ Write("1:01", \h18) \in A /\ Write("1:01", \h10) \in A
  BY <1>3, <1>4, <1>5 DEF CallSteps
<1>7. Words(type, word) \in Seq(A)
  BY <1>6, BracketIs
<1> QED
  BY <1>5, <1>7

LEMMA DirectIs ==
    ASSUME NEW type, NEW fit, type \in {fit, "unknown"}, NEW on \in 0..2
    PROVE  /\ EnterDirect(type, on) \in Seq(CallSteps("direct", fit))
           /\ LeaveDirect(type) \in Seq(CallSteps("direct", fit))
<1> DEFINE A == CallSteps("direct", fit)
<1>1. ASSUME NEW r \in DemodRegs \ {"0:19"}, NEW v \in 0..255
      PROVE  Write(r, v) \in A
  <2>1. "direct" \in DOMAIN Owned /\ r \in RegNames /\ <<r, \hff>> \in Owned["direct"]
    BY OwnedAre DEF RegNames
  <2>2. Write(r, v) \in Own("direct")
    BY <2>1, MayWrite, Zenon
  <2> QED
    BY <2>2 DEF CallSteps
<1>2. "1:b1" \in DemodRegs \ {"0:19"} /\ "1:15" \in DemodRegs \ {"0:19"} /\ "0:06" \in DemodRegs \ {"0:19"}
        /\ "0:08" \in DemodRegs \ {"0:19"}
  BY DEF DemodRegs
<1>3. /\ Words(type, "init") \in Seq(A) /\ Words(type, "exit") \in Seq(A) /\ Words(type, "set") \in Seq(A)
  BY WordsAre
<1> HIDE DEF A
<1>4. PICK i \in Seq(A), e \in Seq(A), s \in Seq(A) :
        i = Words(type, "init") /\ e = Words(type, "exit") /\ s = Words(type, "set")
  BY <1>3
<1>5. /\ \h1a \in 0..255 /\ \h1b \in 0..255 /\ 0 \in 0..255 /\ 1 \in 0..255 /\ \h4d \in 0..255 /\ \hcd \in 0..255
      /\ \h80 \in 0..255 /\ \h90 \in 0..255
  OBVIOUS
<1>6. PICK wa \in A, wb \in A, wc \in A, wd \in A, we \in A, wf \in A, wg \in A, wh \in A :
        /\ wa = Write("1:b1", \h1a) /\ wb = Write("1:b1", \h1b) /\ wc = Write("1:15", 0) /\ wd = Write("1:15", 1)
        /\ we = Write("0:08", \h4d) /\ wf = Write("0:08", \hcd) /\ wg = Write("0:06", \h80) /\ wh = Write("0:06", \h90)
  BY <1>1, <1>2, <1>5, ZenonT(40)
<1>7. EnterDirect(type, on) \in Seq(A)
  <2>1. PICK w \in A : w = Write("0:06", IF on > 1 THEN \h90 ELSE \h80)
    BY <1>6
  <2>2. EnterDirect(type, on) = e \o <<wa, wc, we, w>>
    BY <1>4, <1>6, <2>1 DEF EnterDirect
  <2>3. e \o <<wa, wc, we, w>> \in Seq(A)
    OBVIOUS
  <2> QED
    BY <2>2, <2>3
<1>8. LeaveDirect(type) \in Seq(A)
  <2>1. i \o <<wd>> \o <<wg>> \o s \in Seq(A) /\ i \o <<wf, wb>> \o <<wg>> \o s \in Seq(A)
    OBVIOUS
  <2>2. LeaveDirect(type) = i \o (IF type \in R82xx THEN <<wd>> ELSE <<wf, wb>>) \o <<wg>> \o s
    BY <1>4, <1>6 DEF LeaveDirect
  <2> QED
    BY <2>1, <2>2
<1> QED
  BY <1>7, <1>8 DEF A

\* The steps of the infrared receiver that keep a code.
Listens == [do : {"read", "start"}]

LEMMA IrSetUpIs == IrSetUp \in Seq(Own("ir") \cup Listens)
<1> DEFINE A == Own("ir") \cup Listens
<1>1. ASSUME NEW r \in RegNames, NEW b, <<r, b>> \in Owned["ir"], NEW v \in 0..255, NEW m \in 0..255,
             BitsOf[m] \subseteq BitsOf[b]
      PROVE  Mask(r, v, m) \in A
  <2>1. "ir" \in DOMAIN Owned
    BY OwnedAre
  <2>2. Mask(r, v, m) \in Own("ir")
    BY <1>1, <2>1, MayMask
  <2> QED
    BY <2>2
<1>2. /\ BitsOf[4] \subseteq BitsOf[12] /\ BitsOf[8] \subseteq BitsOf[12]
      /\ BitsOf[8] \subseteq BitsOf[8] /\ BitsOf[32] \subseteq BitsOf[32]
  <2>1. BitsOf[4] \in Byte /\ BitsOf[8] \in Byte /\ BitsOf[12] \in Byte
    BY BitsAre
  <2>2. \A b \in 0..7 : b \in {0, 1, 2, 3, 4, 5, 6, 7}
    OBVIOUS
  <2>3. \A b \in {0, 1, 2, 3, 4, 5, 6, 7} : (b \in BitsOf[4] => b \in BitsOf[12]) /\ (b \in BitsOf[8] => b \in BitsOf[12])
    BY BitsAre
  <2> QED
    BY <2>1, <2>2, <2>3 DEF Byte
<1>3. [do |-> "start"] \in A
  BY DEF Listens
<1> HIDE DEF A
<1>4. PICK x1 \in A, x2 \in A, x3 \in A, x4 \in A, x5 \in A, x6 \in A, x7 \in A :
        /\ x1 = Mask(Usbb("DEMOD_CTL"), 0, 4) /\ x2 = Mask(Usbb("DEMOD_CTL"), 0, 8)
        /\ x3 = Mask("USB_CTRL", \h20, \h20) /\ x4 = Mask(Usbb("GPD"), 0, 8)
        /\ x5 = Mask(Usbb("GPOE"), 8, 8) /\ x6 = Mask(Usbb("GPO"), 8, 8) /\ x7 = [do |-> "start"]
  <2>1. 0 \in 0..255 /\ 4 \in 0..255 /\ 8 \in 0..255 /\ 32 \in 0..255
    OBVIOUS
  <2>2. Mask(Usbb("DEMOD_CTL"), 0, 4) \in A /\ Mask(Usbb("DEMOD_CTL"), 0, 8) \in A
    BY <1>1, <1>2, <2>1, OwnedAre, RegNamesAre, ZenonT(40)
  <2>3. Mask("USB_CTRL", \h20, \h20) \in A
    BY <1>1, <1>2, <2>1, OwnedAre, RegNamesAre
  <2>4. Mask(Usbb("GPD"), 0, 8) \in A /\ Mask(Usbb("GPOE"), 8, 8) \in A /\ Mask(Usbb("GPO"), 8, 8) \in A
    BY <1>1, <1>2, <2>1, OwnedAre, RegNamesAre, ZenonT(40)
  <2> QED
    BY <1>3, <2>2, <2>3, <2>4
<1>5. IrSetUp = <<x1, x2, x3, x4, x5, x6, x7>>
  BY <1>4 DEF IrSetUp
<1>6. <<x1, x2, x3, x4, x5, x6, x7>> \in Seq(A)
  OBVIOUS
<1> QED
  BY <1>5, <1>6 DEF A

\* The other calls.
LEMMA RateIs ==
    ASSUME NEW type, NEW fit, type \in {fit, "unknown"}
    PROVE  Words(type, "set") \o <<Write("1:01", \h14), Write("1:01", \h10)>> \in Seq(CallSteps("rate", fit))
<1>1. PICK u \in Seq(CallSteps("rate", fit)) : u = Words(type, "set")
  BY WordsAre
<1>2. \h14 \in 0..255 /\ \h10 \in 0..255
  OBVIOUS
<1>3. Write("1:01", \h14) \in CallSteps("rate", fit) /\ Write("1:01", \h10) \in CallSteps("rate", fit)
  BY <1>2, OwnedAre, RegNamesAre, MayWrite DEF CallSteps
<1>4. u \o <<Write("1:01", \h14), Write("1:01", \h10)>> \in Seq(CallSteps("rate", fit))
  BY <1>3
<1> QED
  BY <1>1, <1>4

LEMMA SettersAre ==
    ASSUME NEW fit, NEW on \in BOOLEAN
    PROVE  /\ <<Write("0:19", IF on THEN 3 ELSE 5)>> \in Seq(CallSteps("testmode", fit))
           /\ <<Write("0:19", IF on THEN \h25 ELSE 5)>> \in Seq(CallSteps("agc", fit))
           /\ BiasTee(on) \in Seq(CallSteps("bias", fit))
<1>1. (IF on THEN 3 ELSE 5) \in 0..255 /\ (IF on THEN \h25 ELSE 5) \in 0..255
  OBVIOUS
<1>2. Write("0:19", IF on THEN 3 ELSE 5) \in CallSteps("testmode", fit)
  BY <1>1, OwnedAre, RegNamesAre, MayWrite DEF CallSteps
<1>3. Write("0:19", IF on THEN \h25 ELSE 5) \in CallSteps("agc", fit)
  BY <1>1, OwnedAre, RegNamesAre, MayWrite DEF CallSteps
<1>4. BiasTee(on) \in Seq(CallSteps("bias", fit))
  <2>1. PICK A, B : A = Own("bias") /\ B = CallSteps("bias", fit)
    OBVIOUS
  <2>2. PICK b \in Seq(A) : b = BiasTee(on)
    BY <2>1, BiasTeeIs
  <2>3. b \in Seq(B)
    BY <2>1 DEF CallSteps
  <2> QED
    BY <2>1, <2>2, <2>3
<1> QED
  BY <1>2, <1>3, <1>4

\* What looking for a tuner is made of.
Lookup == {Tuner("probe")} \cup {x \in RegSteps : x.do = "mask" /\ x.reg \in {"GPO", "GPOE", "GPD"}}

LEMMA ProbesAre ==
    ASSUME NEW names, Len(names) \in Nat, DOMAIN names = 1..Len(names), NEW seen
    PROVE  Probes(names, seen) \in Seq(Lookup)
<1> DEFINE n == IF seen \in Range(names) THEN CHOOSE k \in DOMAIN names : names[k] = seen ELSE Len(names)
<1>1. n \in Nat
  <2>1. CASE seen \in Range(names)
    <3>1. \E k \in DOMAIN names : names[k] = seen
      BY <2>1 DEF Range
    <3>2. (CHOOSE k \in DOMAIN names : names[k] = seen) \in 1..Len(names)
      BY <3>1
    <3> QED
      BY <2>1, <3>2
  <2>2. CASE seen \notin Range(names)
    BY <2>2
  <2> QED
    BY <2>1, <2>2
<1>2. Probes(names, seen) = [i \in 1..n |-> Tuner("probe")]
  BY DEF Probes
<1>3. Tuner("probe") \in Lookup
  BY DEF Lookup
<1> HIDE DEF n
<1>4. PICK A, x : A = Lookup /\ x = Tuner("probe")
  OBVIOUS
<1>5. [i \in 1..n |-> x] \in Seq(A)
  BY <1>1, <1>3, <1>4
<1> QED
  BY <1>2, <1>4, <1>5

LEMMA ResetIs ==
    ASSUME NEW n \in {5, 6}, NEW on \in BOOLEAN, NEW b \in 0..255, b = 2 ^ n
    PROVE  GpioOutput(n) \in Seq(Lookup) /\ GpioBit(n, on) \in Seq(Lookup)
<1>3. ASSUME NEW v \in {0, b}, NEW r \in {"GPO", "GPOE", "GPD"}
      PROVE  Mask(r, v, b) \in Lookup
  <2>1. PICK x : x = Mask(r, v, b)
    OBVIOUS
  <2>2. BitsOf[v] \in Byte /\ BitsOf[b] \in Byte
    <3>1. v \in 0..255
      OBVIOUS
    <3> QED
      BY <3>1, BitsAre
  <2>3. x \in RegSteps /\ x.do = "mask" /\ x.reg = r
    BY <2>1, <2>2, RegNamesAre DEF Mask, RegSteps
  <2> QED
    BY <2>1, <2>3 DEF Lookup
<1>4. \A v \in {0, 2 ^ n} : Mask("GPD", v, 2 ^ n) \in Lookup /\ Mask("GPOE", v, 2 ^ n) \in Lookup
                              /\ Mask("GPO", v, 2 ^ n) \in Lookup
  BY <1>3
<1> QED
  BY <1>4, GpioIs

LEMMA ProbingIs ==
    ASSUME NEW seen
    PROVE  Probing(seen) \in Seq(Lookup)
<1>1. PICK A : A = Lookup
  OBVIOUS
<1>2. Probes(Early, seen) \in Seq(A) /\ Probes(Late, seen) \in Seq(A)
  <2>1. Len(Early) \in Nat /\ DOMAIN Early = 1..Len(Early) /\ Len(Late) \in Nat /\ DOMAIN Late = 1..Len(Late)
    BY DEF Early, Late
  <2> QED
    BY <1>1, <2>1, ProbesAre
<1>3. PICK e \in Seq(A), l \in Seq(A) : e = Probes(Early, seen) /\ l = Probes(Late, seen)
  BY <1>2
<1>4. GpioOutput(5) \in Seq(A) /\ GpioOutput(6) \in Seq(A) /\ GpioBit(5, TRUE) \in Seq(A) /\ GpioBit(5, FALSE) \in Seq(A)
  <2>1. PICK b5 \in 0..255, b6 \in 0..255 : b5 = 2 ^ 5 /\ b6 = 2 ^ 6
    <3>1. 2 ^ 5 = 32 /\ 2 ^ 6 = 64
      OBVIOUS
    <3> QED
      BY <3>1, SMTT(90)
  <2> QED
    BY <1>1, <2>1, ResetIs, ZenonT(40)
<1>5. PICK o \in Seq(A), s \in Seq(A), u \in Seq(A), d \in Seq(A) :
        o = GpioOutput(5) /\ s = GpioOutput(6) /\ u = GpioBit(5, TRUE) /\ d = GpioBit(5, FALSE)
  BY <1>4
<1>6. Probing(seen) = e \o (IF seen \in Range(Early) THEN <<>> ELSE o \o u \o d \o l) \o (IF seen = "FC0012" THEN s ELSE <<>>)
  BY <1>3, <1>5 DEF Probing, ResetTuner
<1>a. o \o u \o d \in Seq(A)
  OBVIOUS
<1>7. PICK r \in Seq(A) : r = o \o u \o d
  BY <1>a
<1>8. /\ e \o <<>> \o s \in Seq(A) /\ e \o <<>> \o <<>> \in Seq(A)
      /\ e \o (r \o l) \o s \in Seq(A) /\ e \o (r \o l) \o <<>> \in Seq(A)
  OBVIOUS
<1> QED
  BY <1>1, <1>6, <1>7, <1>8

LEMMA RepeaterIs ==
    ASSUME NEW on \in BOOLEAN
    PROVE  Repeater(on) \in Seq(RegSteps)
<1>1. (IF on THEN \h18 ELSE \h10) \in 0..255
  OBVIOUS
<1>2. PICK v \in 0..255 : v = IF on THEN \h18 ELSE \h10
  BY <1>1
<1>3. Write("1:01", v) \in RegSteps
  BY RegNamesAre, WriteIs
<1> QED
  BY <1>2, <1>3 DEF Repeater

LEMMA BringUpIs ==
    ASSUME NEW fit, NEW seen, seen \in {fit, "unknown"}
    PROVE  /\ BasebandSteps \in Seq(RegSteps) /\ R820TSteps \in Seq(RegSteps)
           /\ SetUp(seen) \in Seq(Spoken(fit))
<1>0. /\ \he8 \in 0..255 /\ \h14 \in 0..255 /\ \h10 \in 0..255 /\ 0 \in 0..255 /\ 5 \in 0..255 /\ \h80 \in 0..255
      /\ \h1b \in 0..255 /\ \h1a \in 0..255 /\ \h4d \in 0..255 /\ 1 \in 0..255
  OBVIOUS
<1>1. PICK A : A = RegSteps
  OBVIOUS
<1>2. \A r \in RegNames : \A v \in 0..255 : Write(r, v) \in A
  BY <1>1, WriteIs
<1>3. PICK x1 \in A, x2 \in A, x3 \in A, x4 \in A, x5 \in A, x6 \in A, x7 \in A :
        /\ x1 = Write("DEMOD_CTL", \he8) /\ x2 = Write("1:01", \h14) /\ x3 = Write("1:01", \h10) /\ x4 = Write("1:15", 0)
        /\ x5 = Write("0:19", 5) /\ x6 = Write("0:06", \h80) /\ x7 = Write("1:b1", \h1b)
  BY <1>0, <1>2, RegNamesAre
<1>4. PICK y1 \in A, y2 \in A, y3 \in A : y1 = Write("1:b1", \h1a) /\ y2 = Write("0:08", \h4d) /\ y3 = Write("1:15", 1)
  BY <1>0, <1>2, RegNamesAre
<1>5. BasebandSteps \in Seq(A)
  <2>1. BasebandSteps = <<x1>> \o <<x2>> \o <<x3>> \o <<x4>> \o <<x5>> \o <<x6>> \o <<x7>>
    BY <1>3 DEF BasebandSteps
  <2>b. <<x1>> \o <<x2>> \o <<x3>> \in Seq(A)
    OBVIOUS
  <2>a. PICK p \in Seq(A) : p = <<x1>> \o <<x2>> \o <<x3>>
    BY <2>b
  <2>c. p \o <<x4>> \o <<x5>> \in Seq(A)
    OBVIOUS
  <2>2. PICK q \in Seq(A) : q = p \o <<x4>> \o <<x5>>
    BY <2>c
  <2>3. q \o <<x6>> \o <<x7>> \in Seq(A)
    OBVIOUS
  <2> QED
    BY <2>1, <2>a, <2>2, <2>3
<1>6. R820TSteps \in Seq(A)
  <2>1. R820TSteps = <<y1>> \o <<y2>> \o <<y3>>
    BY <1>4 DEF R820TSteps
  <2> QED
    BY <2>1
<1>7. SetUp(seen) \in Seq(Spoken(fit))
  <2>1. PICK B : B = Spoken(fit)
    OBVIOUS
  <2>2. A \subseteq B /\ (Known(seen) => Tuner("init") \in B)
    BY <1>1, <2>1, SayIs DEF Spoken
  <2>3. CASE seen \in R82xx
    <3>1. Known(seen)
      BY <2>3 DEF Known, R82xx
    <3>2. PICK t \in B : t = Tuner("init")
      BY <2>2, <3>1
    <3>3. SetUp(seen) = <<y1, y2, y3, t>>
      BY <1>4, <2>3, <3>1, <3>2 DEF SetUp
    <3>a. y1 \in B /\ y2 \in B /\ y3 \in B
      BY <2>2
    <3>4. <<y1, y2, y3, t>> \in Seq(B)
      BY <3>a
    <3> QED
      BY <2>1, <3>3, <3>4
  <2>4. CASE seen \notin R82xx /\ ~Known(seen)
    <3>1. SetUp(seen) = EnterDirect(seen, 1)
      BY <2>4 DEF SetUp
    <3>2. EnterDirect(seen, 1) \in Seq(CallSteps("direct", fit))
      BY DirectIs
    <3>3. CallSteps("direct", fit) \subseteq B
      BY <2>1 DEF CallSteps, Spoken, Own
    <3>a. PICK C : C = CallSteps("direct", fit)
      OBVIOUS
    <3>4. PICK u \in Seq(C) : u = EnterDirect(seen, 1)
      BY <3>2, <3>a
    <3>5. u \in Seq(B)
      BY <3>3, <3>a
    <3> QED
      BY <2>1, <3>1, <3>4, <3>5
  <2>5. CASE seen \notin R82xx /\ Known(seen)
    <3>1. SetUp(seen) = <<Tuner("init")>>
      BY <2>5 DEF SetUp
    <3> QED
      BY <2>1, <2>2, <2>5, <3>1
  <2> QED
    BY <2>3, <2>4, <2>5
<1> QED
  BY <1>1, <1>5, <1>6, <1>7

LEMMA Widen ==
    ASSUME NEW A, NEW B, A \subseteq B, NEW u \in Seq(A)
    PROVE  u \in Seq(B)
OBVIOUS

\* The programs of rtlsdr_open, rtlsdr_close and RTLSDR.init, and the queries.
LEMMA OpenIs ==
    ASSUME NEW fit, NEW seen, seen \in {fit, "unknown"}
    PROVE  OpenProgram(seen) \in Seq(Spoken(fit))
<1>1. PICK A : A = Spoken(fit)
  OBVIOUS
<1>2. RegSteps \subseteq A /\ Lookup \subseteq A
  BY <1>1, SayIs DEF Spoken, Lookup
<1>3. InitBaseband \in Seq(A)
  BY <1>2, InitBasebandIs, BringUpIs
<1>4. Repeater(TRUE) \in Seq(A) /\ Repeater(FALSE) \in Seq(A)
  <2>1. PICK B : B = RegSteps
    OBVIOUS
  <2>2. PICK u \in Seq(B), d \in Seq(B) : u = Repeater(TRUE) /\ d = Repeater(FALSE)
    BY <2>1, RepeaterIs
  <2>3. u \in Seq(A) /\ d \in Seq(A)
    BY <1>2, <2>1, Widen
  <2> QED
    BY <2>2, <2>3
<1>5. Probing(seen) \in Seq(A)
  BY <1>2, ProbingIs
<1>6. SetUp(seen) \in Seq(A)
  BY <1>1, BringUpIs
<1>7. PICK b \in Seq(A), u \in Seq(A), d \in Seq(A), p \in Seq(A), s \in Seq(A) :
        b = InitBaseband /\ u = Repeater(TRUE) /\ d = Repeater(FALSE) /\ p = Probing(seen) /\ s = SetUp(seen)
  BY <1>3, <1>4, <1>5, <1>6
<1>8. OpenProgram(seen) = (b \o u) \o p \o s \o d
  BY <1>7 DEF OpenProgram, BeforeProbing
<1>9. (b \o u) \o p \o s \o d \in Seq(A)
  OBVIOUS
<1> QED
  BY <1>1, <1>8, <1>9

CloseProgram == BiasTee(FALSE) \o DeinitBaseband

LEMMA CloseIs ==
    ASSUME NEW fit, tuner_type \in {fit, "unknown"}
    PROVE  CloseProgram \in Seq(Spoken(fit))
<1>1. PICK A : A = Spoken(fit)
  OBVIOUS
<1>2. CallSteps("bias", fit) \subseteq A /\ CallSteps("gain", fit) \subseteq A /\ CallSteps("direct", fit) \subseteq A
  BY <1>1 DEF CallSteps, Spoken, Own
<1>3. BiasTee(FALSE) \in Seq(A)
  <2>1. PICK B : B = Own("bias")
    OBVIOUS
  <2>2. B \subseteq A
    BY <1>1, <2>1 DEF Spoken, Own
  <2>3. PICK b \in Seq(B) : b = BiasTee(FALSE)
    BY <2>1, BiasTeeIs
  <2>4. b \in Seq(A)
    BY <2>2, Widen
  <2> QED
    BY <2>3, <2>4
<1>4. Words(tuner_type, "exit") \in Seq(A)
  BY <1>2, WordsAre
<1>5. Write("DEMOD_CTL", \h20) \in A
  <2>1. \h20 \in 0..255
    OBVIOUS
  <2> QED
    BY <1>1, <2>1, WriteIs, RegNamesAre DEF Spoken
<1>6. PICK b \in Seq(A), e \in Seq(A), x \in A :
        b = BiasTee(FALSE) /\ e = Words(tuner_type, "exit") /\ x = Write("DEMOD_CTL", \h20)
  BY <1>3, <1>4, <1>5
<1>7. CloseProgram = b \o (e \o <<x>>)
  BY <1>6 DEF CloseProgram, DeinitBaseband
<1>8. b \o (e \o <<x>>) \in Seq(A)
  OBVIOUS
<1> QED
  BY <1>1, <1>7, <1>8

SwiftProgram ==
    AsProgram(initBaseband) \o AsProgram(setI2CRepeater(TRUE)) \o <<Tuner("probe")>>
      \o (IF isMatchingTuner THEN AsProgram(RTLTunerR820T) ELSE <<>>)
      \o AsProgram(setI2CRepeater(FALSE))

LEMMA SwiftIs ==
    ASSUME NEW fit
    PROVE  /\ SwiftProgram \in Seq(Spoken(fit))
           /\ SwiftProgram = BasebandSteps \o Repeater(TRUE) \o <<Tuner("probe")>>
                               \o (IF isMatchingTuner THEN R820TSteps ELSE <<>>) \o Repeater(FALSE)
<1>1. PICK A : A = Spoken(fit)
  OBVIOUS
<1>2. RegSteps \subseteq A /\ Tuner("probe") \in A
  BY <1>1, SayIs DEF Spoken
<1>3. BasebandSteps \in Seq(A) /\ R820TSteps \in Seq(A)
  BY <1>2, BringUpIs
<1>4. Repeater(TRUE) \in Seq(A) /\ Repeater(FALSE) \in Seq(A)
  <2>1. PICK B : B = RegSteps
    OBVIOUS
  <2>2. PICK u \in Seq(B), d \in Seq(B) : u = Repeater(TRUE) /\ d = Repeater(FALSE)
    BY <2>1, RepeaterIs
  <2>3. u \in Seq(A) /\ d \in Seq(A)
    BY <1>2, <2>1, Widen
  <2> QED
    BY <2>2, <2>3
<1>5. PICK b \in Seq(A), r \in Seq(A), u \in Seq(A), d \in Seq(A), t \in A :
        b = BasebandSteps /\ r = R820TSteps /\ u = Repeater(TRUE) /\ d = Repeater(FALSE) /\ t = Tuner("probe")
  BY <1>2, <1>3, <1>4
<1>6. SwiftProgram = b \o u \o <<t>> \o (IF isMatchingTuner THEN r ELSE <<>>) \o d
  BY <1>5, initBasebandIs, setI2CRepeaterIs, RTLTunerR820TIs DEF SwiftProgram
<1>7. b \o u \o <<t>> \in Seq(A)
  OBVIOUS
<1>8. PICK v \in Seq(A) : v = b \o u \o <<t>>
  BY <1>7
<1>9. v \o r \o d \in Seq(A) /\ v \o <<>> \o d \in Seq(A)
  OBVIOUS
<1> QED
  BY <1>1, <1>5, <1>6, <1>8, <1>9

\* A query with a code of len that fits or does not.
QuerySetUp == IF rc_active THEN <<>> ELSE IrSetUp
QueryProgram(code, len, buf_len) ==
    QuerySetUp \o IrRead
      \o (IF ~code THEN <<>>
          ELSE IrRead \o (IF Fits(len, buf_len) THEN IrRead \o IrRefresh ELSE KeepUnfit))

LEMMA QueryIs ==
    ASSUME NEW code \in BOOLEAN, NEW len, NEW buf_len
    PROVE  /\ QueryProgram(code, len, buf_len) \in Seq(Own("ir") \cup IrSteps)
           /\ QuerySetUp \in Seq(Own("ir") \cup IrSteps)
<1>1. PICK A : A = Own("ir") \cup IrSteps
  OBVIOUS
<1>2. QuerySetUp \in Seq(A)
  <2>1. PICK B : B = Own("ir") \cup Listens
    OBVIOUS
  <2>2. B \subseteq A
    BY <1>1, <2>1 DEF Listens, IrSteps
  <2>3. PICK s \in Seq(B) : s = IrSetUp
    BY <2>1, IrSetUpIs
  <2>4. s \in Seq(A)
    BY <2>2, Widen
  <2> QED
    BY <2>3, <2>4 DEF QuerySetUp
<1>3. IrRead \in Seq(A) /\ IrRefresh \in Seq(A) /\ KeepUnfit \in Seq(A)
  <2>1. [do |-> "read"] \in A /\ [do |-> "clear"] \in A /\ [do |-> "start"] \in A
    BY <1>1 DEF IrSteps
  <2> QED
    BY <2>1 DEF IrRead, IrRefresh, KeepUnfit
<1>4. PICK s \in Seq(A), r \in Seq(A), f \in Seq(A), k \in Seq(A) :
        s = QuerySetUp /\ r = IrRead /\ f = IrRefresh /\ k = KeepUnfit
  BY <1>2, <1>3
<1>5. QueryProgram(code, len, buf_len) =
        s \o r \o (IF ~code THEN <<>> ELSE r \o (IF Fits(len, buf_len) THEN r \o f ELSE k))
  BY <1>4 DEF QueryProgram
<1>6. s \o r \o <<>> \in Seq(A) /\ s \o r \o (r \o (r \o f)) \in Seq(A) /\ s \o r \o (r \o k) \in Seq(A)
  OBVIOUS
<1> QED
  BY <1>1, <1>2, <1>5, <1>6

-----------------------------------------------------------------------------
(***************************************************************************)
(* Types.                                                                  *)
(***************************************************************************)
LEMMA NowTyped ==
    ASSUME TypeOK
    PROVE  Now \in States(fitted) /\ [Now EXCEPT !.missed = FALSE] \in States(fitted)
BY DEF TypeOK, Now, States, Known

\* What a call does to the chip, to the counters and to the fields of the device.
ChipTyped ==
    /\ regs' \in [RegNames -> Byte] /\ tuner' \in {"cold", "ready", "standby"} /\ missed' \in BOOLEAN
    /\ ir' \in {OFF, 0} \cup CodeLengths /\ (tuner' = "ready" => fitted # "unknown")
CountsTyped == faults' \in 0..MaxFaults /\ clean' \in BOOLEAN
FieldsTyped ==
    /\ opened' \in BOOLEAN /\ rc_active' \in BOOLEAN /\ direct_sampling' \in 0..2
    /\ tuner_type' \in {fitted, "unknown"}

LEMMA BecomeTyped ==
    ASSUME NEW s \in States(fitted), Become(s)
    PROVE  ChipTyped
BY DEF Become, States, ChipTyped, Known

LEMMA NoteTyped ==
    ASSUME TypeOK, NEW so_far \in BOOLEAN, NEW f, f = NoFault \/ (faults # MaxFaults /\ f # NoFault), Note(f, so_far)
    PROVE  CountsTyped
<1>1. faults \in 0..MaxFaults /\ MaxFaults \in Nat
  BY DeviceAssumption DEF TypeOK
<1>2. faults' \in 0..MaxFaults
  BY <1>1 DEF Note
<1>3. clean' \in BOOLEAN
  BY Zenon DEF Note
<1> QED
  BY <1>2, <1>3 DEF CountsTyped

LEMMA NoDeviceTyped ==
    ASSUME NoDevice
    PROVE  FieldsTyped
<1>1. opened' \in BOOLEAN /\ rc_active' \in BOOLEAN /\ tuner_type' \in {fitted, "unknown"}
  BY Zenon DEF NoDevice
<1>2. direct_sampling' \in 0..2
  BY DEF NoDevice
<1> QED
  BY <1>1, <1>2 DEF FieldsTyped

LEMMA FieldsAreTyped ==
    ASSUME NEW f, NEW type \in {fitted, "unknown"}, NEW ds \in 0..2, NEW rc \in BOOLEAN, Fields(f, type, ds, rc)
    PROVE  FieldsTyped
<1>1. CASE f.how = "crash"
  BY <1>1, NoDeviceTyped DEF Fields
<1>2. CASE f.how # "crash"
  <2>1. opened' \in BOOLEAN /\ rc_active' \in BOOLEAN /\ tuner_type' \in {fitted, "unknown"}
    BY <1>2, Zenon DEF Fields
  <2>2. direct_sampling' \in 0..2
    BY <1>2 DEF Fields
  <2> QED
    BY <2>1, <2>2 DEF FieldsTyped
<1> QED
  BY <1>1, <1>2

LEMMA AllTyped ==
    ASSUME TypeOK, ChipTyped, CountsTyped, FieldsTyped, fitted' = fitted, answer' \in {-1, 0, 1} \cup CodeLengths
    PROVE  TypeOK'
BY DEF TypeOK, ChipTyped, CountsTyped, FieldsTyped

\* A program that runs from a state of the chip to its end, or is left before.
LEMMA RunTyped ==
    ASSUME TypeOK, NEW now \in States(fitted), NEW p \in Seq(Spoken(fitted) \cup IrSteps),
           NEW f \in Outcomes(p), NEW n \in 0..Len(p), Become(After(now, p, n, f)),
           NEW so_far \in BOOLEAN, Note(f, so_far)
    PROVE  ChipTyped /\ CountsTyped
<1>1. f.base \in Byte /\ (f = NoFault \/ (faults # MaxFaults /\ f # NoFault))
  BY OutcomeIs
<1>2. After(now, p, n, f) \in States(fitted)
  BY <1>1, AfterTyped
<1>3. ChipTyped
  BY <1>2, BecomeTyped
<1>4. CountsTyped
  BY <1>1, NoteTyped
<1> QED
  BY <1>3, <1>4

LEMMA CallsTyped ==
    ASSUME TypeOK, NEW op, NEW p \in Seq(Spoken(fitted) \cup IrSteps), NEW ds \in 0..2, Calls(op, p, ds)
    PROVE  TypeOK'
<1>1. PICK f \in Outcomes(p) : Become(After(Now, p, Len(p), f)) /\ Fields(f, tuner_type, ds, rc_active) /\ Note(f, clean)
  BY DEF Calls
<1>2. Now \in States(fitted) /\ Len(p) \in 0..Len(p) /\ clean \in BOOLEAN /\ rc_active \in BOOLEAN
        /\ tuner_type \in {fitted, "unknown"}
  BY NowTyped DEF TypeOK
<1>3. ChipTyped /\ CountsTyped
  BY <1>1, <1>2, RunTyped
<1>4. FieldsTyped
  BY <1>1, <1>2, FieldsAreTyped
<1> QED
  BY <1>3, <1>4, AllTyped DEF Calls

LEMMA OpenTyped ==
    ASSUME TypeOK, Open
    PROVE  TypeOK'
<1>1. PICK seen \in {fitted, "unknown"} : \E f \in Outcomes(OpenProgram(seen)) :
        /\ Become(After([Now EXCEPT !.missed = FALSE], OpenProgram(seen), Len(OpenProgram(seen)), f))
        /\ Fields(f, seen, IF Known(seen) THEN 0 ELSE 1, FALSE)
        /\ Note(f, TRUE)
  BY DEF Open
<1>2. PICK p : p = OpenProgram(seen)
  OBVIOUS
<1>3. PICK f \in Outcomes(p) : /\ Become(After([Now EXCEPT !.missed = FALSE], p, Len(p), f))
                               /\ Fields(f, seen, IF Known(seen) THEN 0 ELSE 1, FALSE)
                               /\ Note(f, TRUE)
  BY <1>1, <1>2
<1>4. p \in Seq(Spoken(fitted) \cup IrSteps) /\ Len(p) \in 0..Len(p)
  <2>1. PICK A, B : A = Spoken(fitted) /\ B = Spoken(fitted) \cup IrSteps
    OBVIOUS
  <2>2. A \subseteq B /\ p \in Seq(A)
    BY <1>2, <2>1, OpenIs
  <2>3. p \in Seq(B) /\ Len(p) \in 0..Len(p)
    BY <2>2, Widen
  <2> QED
    BY <2>1, <2>3
<1>5. PICK now \in States(fitted) : now = [Now EXCEPT !.missed = FALSE]
  BY NowTyped
<1>6. ChipTyped /\ CountsTyped
  BY <1>3, <1>4, <1>5, RunTyped
<1>7. PICK ds \in 0..2 : ds = IF Known(seen) THEN 0 ELSE 1
  OBVIOUS
<1>8. FieldsTyped
  BY <1>3, <1>7, FieldsAreTyped
<1> QED
  BY <1>6, <1>8, AllTyped DEF Open

LEMMA CloseTyped ==
    ASSUME TypeOK, Close
    PROVE  TypeOK'
<1>1. PICK p : p = CloseProgram
  OBVIOUS
<1>2. PICK f \in Outcomes(p) : Become(After(Now, p, Len(p), f)) /\ Note(f, clean)
  BY <1>1 DEF Close, CloseProgram
<1>3. p \in Seq(Spoken(fitted) \cup IrSteps) /\ Len(p) \in 0..Len(p)
  <2>1. PICK A, B : A = Spoken(fitted) /\ B = Spoken(fitted) \cup IrSteps
    OBVIOUS
  <2>2. tuner_type \in {fitted, "unknown"}
    BY DEF TypeOK
  <2>3. A \subseteq B /\ p \in Seq(A)
    BY <1>1, <2>1, <2>2, CloseIs
  <2>4. p \in Seq(B) /\ Len(p) \in 0..Len(p)
    BY <2>3, Widen
  <2> QED
    BY <2>1, <2>4
<1>4. Now \in States(fitted) /\ clean \in BOOLEAN
  BY NowTyped DEF TypeOK
<1>5. ChipTyped /\ CountsTyped
  BY <1>2, <1>3, <1>4, RunTyped
<1>6. FieldsTyped
  BY NoDeviceTyped DEF Close
<1> QED
  BY <1>5, <1>6, AllTyped DEF Close

LEMMA SwiftTyped ==
    ASSUME TypeOK, SwiftBringUp
    PROVE  TypeOK'
<1>1. PICK p : p = SwiftProgram
  OBVIOUS
<1>2. PICK f \in Outcomes(p) : Become(After([Now EXCEPT !.missed = FALSE], p, Len(p), f)) /\ Note(f, TRUE)
  BY <1>1 DEF SwiftBringUp, SwiftProgram
<1>3. p \in Seq(Spoken(fitted) \cup IrSteps) /\ Len(p) \in 0..Len(p)
  <2>1. PICK A, B : A = Spoken(fitted) /\ B = Spoken(fitted) \cup IrSteps
    OBVIOUS
  <2>2. A \subseteq B /\ p \in Seq(A)
    BY <1>1, <2>1, SwiftIs
  <2>3. p \in Seq(B) /\ Len(p) \in 0..Len(p)
    BY <2>2, Widen
  <2> QED
    BY <2>1, <2>3
<1>4. PICK now \in States(fitted) : now = [Now EXCEPT !.missed = FALSE]
  BY NowTyped
<1>5. ChipTyped /\ CountsTyped
  BY <1>2, <1>3, <1>4, RunTyped
<1>6. FieldsTyped
  BY NoDeviceTyped DEF SwiftBringUp
<1> QED
  BY <1>5, <1>6, AllTyped DEF SwiftBringUp

\* rtlsdr_ir_query, with the number of its steps that are made and its result.
Query(p, code, len, buf_len, f) ==
    LET looks == Len(QuerySetUp) + 1
        stops == Reported(f) /\ f.at \notin {looks, looks + 1}
    IN  /\ (f.how = "lost" /\ f.at = looks) \/ (code <=> ir > 0)
        /\ (f.how = "lost" /\ f.at = looks + 1) \/ len = (IF ir > 0 THEN ir ELSE 0)
        /\ Become(After(Now, p, IF stops THEN f.at ELSE Len(p), f))
        /\ answer' = IF stops THEN -1
                     ELSE IF ~code THEN 0
                     ELSE IF Fits(len, buf_len) THEN len
                     ELSE IF rc_active THEN -1 ELSE 1
        /\ Fields(f, tuner_type, direct_sampling, rc_active \/ Active(stops, f.at, looks))
        /\ Note(f, clean)

LEMMA IrQueryIs ==
    ASSUME NEW buf_len, IrQuery(buf_len)
    PROVE  /\ opened /\ call' = "ir" /\ fitted' = fitted
           /\ \E code \in BOOLEAN, len \in CodeLengths \cup {0} :
              \E f \in Outcomes(QueryProgram(code, len, buf_len)) :
                Query(QueryProgram(code, len, buf_len), code, len, buf_len, f)
<1>1. \E code \in BOOLEAN, len \in CodeLengths \cup {0} : \E p \in {QueryProgram(code, len, buf_len)} :
        \E f \in Outcomes(p) : Query(p, code, len, buf_len, f)
  BY Zenon DEF IrQuery, Query, QueryProgram, QuerySetUp
<1>2. opened /\ call' = "ir" /\ fitted' = fitted
  BY Zenon DEF IrQuery
<1> QED
  BY <1>1, <1>2, Zenon

LEMMA QueryTyped ==
    ASSUME TypeOK, NEW buf_len, IrQuery(buf_len)
    PROVE  TypeOK'
<1>1. PICK code \in BOOLEAN, len \in CodeLengths \cup {0} :
        \E f \in Outcomes(QueryProgram(code, len, buf_len)) :
            Query(QueryProgram(code, len, buf_len), code, len, buf_len, f)
  BY IrQueryIs
<1>2. PICK p : p = QueryProgram(code, len, buf_len)
  OBVIOUS
<1>3. PICK f \in Outcomes(p) : Query(p, code, len, buf_len, f)
  BY <1>1, <1>2
<1> DEFINE looks == Len(QuerySetUp) + 1
           stops == Reported(f) /\ f.at \notin {looks, looks + 1}
           n     == IF stops THEN f.at ELSE Len(p)
<1>4. p \in Seq(Spoken(fitted) \cup IrSteps)
  <2>1. PICK A, B : A = Own("ir") \cup IrSteps /\ B = Spoken(fitted) \cup IrSteps
    OBVIOUS
  <2>2. A \subseteq B
    BY <2>1 DEF Own, Spoken
  <2>3. p \in Seq(A)
    BY <1>2, <2>1, QueryIs
  <2>4. p \in Seq(B)
    BY <2>2, <2>3, Widen
  <2> QED
    BY <2>1, <2>4
<1>5. n \in 0..Len(p)
  <2>1. f.at \in 0..Len(p) /\ Len(p) \in 0..Len(p)
    BY <1>4, OutcomeIs
  <2> QED
    BY <2>1
<1>6. Become(After(Now, p, n, f)) /\ Note(f, clean)
  BY <1>2, <1>3 DEF Query
<1> HIDE DEF n
<1>7. Now \in States(fitted) /\ clean \in BOOLEAN
  BY NowTyped DEF TypeOK
<1>8. ChipTyped /\ CountsTyped
  BY <1>4, <1>5, <1>6, <1>7, RunTyped
<1>9. FieldsTyped
  <2>1. PICK rc \in BOOLEAN : rc = (rc_active \/ Active(stops, f.at, looks))
    BY DEF Active
  <2>2. Fields(f, tuner_type, direct_sampling, rc)
    BY <1>3, <2>1 DEF Query
  <2>3. tuner_type \in {fitted, "unknown"} /\ direct_sampling \in 0..2
    BY DEF TypeOK
  <2> QED
    BY <2>2, <2>3, FieldsAreTyped
<1>10. answer' \in {-1, 0, 1} \cup CodeLengths
  BY <1>3 DEF Query
<1>11. fitted' = fitted
  BY IrQueryIs
<1> QED
  BY <1>8, <1>9, <1>10, <1>11, AllTyped

\* Everything keeps its type, whatever fails; a tuner that nobody knows is never initialised.
THEOREM DeviceTypes == Spec => []TypeOK
<1>1. Init => TypeOK
  <2> SUFFICES ASSUME Init PROVE TypeOK
    OBVIOUS
  <2>1. opened \in BOOLEAN /\ rc_active \in BOOLEAN /\ missed \in BOOLEAN /\ clean \in BOOLEAN
    BY Zenon DEF Init
  <2>2. regs \in [RegNames -> Byte]
    BY DEF Init, Byte
  <2>3. /\ fitted \in Tuners /\ tuner_type = "unknown" /\ direct_sampling = 0 /\ tuner = "cold"
        /\ ir = OFF /\ answer = 0 /\ faults = 0
    BY DEF Init
  <2>4. faults \in 0..MaxFaults
    BY <2>3, DeviceAssumption
  <2> QED
    BY <2>1, <2>2, <2>3, <2>4 DEF TypeOK
<1>2. TypeOK /\ [Next]_vars => TypeOK'
  <2> SUFFICES ASSUME TypeOK, [Next]_vars
               PROVE  TypeOK'
    OBVIOUS
  <2>0. tuner_type \in {fitted, "unknown"} /\ direct_sampling \in 0..2 /\ 0 \in 0..2 /\ 0 \in {-1, 0, 1} \cup CodeLengths
    BY DEF TypeOK
  <2>w. ASSUME NEW op, NEW o, NEW p \in Seq(CallSteps(o, fitted))
        PROVE  p \in Seq(Spoken(fitted) \cup IrSteps)
    <3>1. PICK A, B : A = CallSteps(o, fitted) /\ B = Spoken(fitted) \cup IrSteps
      OBVIOUS
    <3>2. A \subseteq B /\ p \in Seq(A)
      BY <3>1 DEF CallSteps, Own, Spoken
    <3>3. p \in Seq(B)
      BY <3>2, Widen
    <3> QED
      BY <3>1, <3>3
  <2>1. CASE Open
    BY <2>1, OpenTyped
  <2>2. CASE Close
    BY <2>2, CloseTyped
  <2>3. CASE SwiftBringUp
    BY <2>3, SwiftTyped
  <2>4. CASE SetGain
    <3>1. Words(tuner_type, "set") \in Seq(CallSteps("gain", fitted))
      BY <2>0, WordsAre
    <3> QED
      BY <2>0, <2>4, <2>w, <3>1, CallsTyped DEF SetGain
  <2>5. CASE SetSampleRate
    <3>1. PICK p : p = Words(tuner_type, "set") \o <<Write("1:01", \h14), Write("1:01", \h10)>>
      OBVIOUS
    <3>2. p \in Seq(CallSteps("rate", fitted))
      BY <2>0, <3>1, RateIs
    <3> QED
      BY <2>0, <2>5, <2>w, <3>1, <3>2, CallsTyped DEF SetSampleRate
  <2>6. ASSUME NEW on \in 0..2, DirectSampling(on)
        PROVE  TypeOK'
    <3>1. PICK p : p = IF on = 0 THEN LeaveDirect(tuner_type) ELSE EnterDirect(tuner_type, on)
      OBVIOUS
    <3>2. p \in Seq(CallSteps("direct", fitted))
      BY <2>0, <3>1, DirectIs
    <3> QED
      BY <2>w, <2>6, <3>1, <3>2, CallsTyped DEF DirectSampling
  <2>7. ASSUME NEW on \in BOOLEAN, SetBiasTee(on)
        PROVE  TypeOK'
    <3>1. BiasTee(on) \in Seq(CallSteps("bias", fitted))
      BY SettersAre
    <3> QED
      BY <2>0, <2>w, <2>7, <3>1, CallsTyped DEF SetBiasTee
  <2>8. ASSUME NEW on \in BOOLEAN, SetTestMode(on)
        PROVE  TypeOK'
    <3>1. <<Write("0:19", IF on THEN 3 ELSE 5)>> \in Seq(CallSteps("testmode", fitted))
      BY SettersAre
    <3> QED
      BY <2>0, <2>w, <2>8, <3>1, CallsTyped DEF SetTestMode
  <2>9. ASSUME NEW on \in BOOLEAN, SetAgcMode(on)
        PROVE  TypeOK'
    <3>1. <<Write("0:19", IF on THEN \h25 ELSE 5)>> \in Seq(CallSteps("agc", fitted))
      BY SettersAre
    <3> QED
      BY <2>0, <2>w, <2>9, <3>1, CallsTyped DEF SetAgcMode
  <2>10. ASSUME NEW buf_len \in BufferSizes, IrQuery(buf_len)
         PROVE  TypeOK'
    BY <2>10, QueryTyped
  <2>11. ASSUME NEW n \in CodeLengths, Signal(n)
         PROVE  TypeOK'
    BY <2>0, <2>11 DEF Signal, TypeOK, dev
  <2>12. CASE UNCHANGED vars
    BY <2>12 DEF vars, dev, TypeOK
  <2> QED
    BY <2>1, <2>2, <2>3, <2>4, <2>5, <2>6, <2>7, <2>8, <2>9, <2>10, <2>11, <2>12 DEF Next
<1> QED
  BY <1>1, <1>2, PTL DEF Spec

-----------------------------------------------------------------------------
(***************************************************************************)
(* Programs in which nothing fails.                                        *)
(***************************************************************************)
AllSteps(fit) == Spoken(fit) \cup IrSteps
Run(now, p)   == After(now, p, Len(p), NoFault)
Do(was, x)    == Apply(was, x, IF x.do \notin {"write", "mask"} THEN {} ELSE was.regs[x.reg])

LEMMA DoIs ==
    ASSUME NEW was, NEW x, NEW k
    PROVE  Stepped(was, x, k, NoFault) = Do(was, x)
BY DEF Stepped, NoFault, Do

LEMMA DoTyped ==
    ASSUME NEW fit, NEW was \in States(fit), NEW x \in AllSteps(fit)
    PROVE  Do(was, x) \in States(fit)
<1>1. NoFault.base \in Byte
  BY DEF NoFault, Byte
<1>2. Stepped(was, x, 0, NoFault) \in States(fit)
  BY <1>1, SteppedTyped DEF AllSteps
<1> QED
  BY <1>2, DoIs

\* g goes through the states of p.
IsPath(g, fit, now, p) ==
    /\ g \in [0..Len(p) -> States(fit)]
    /\ g[0] = now /\ \A k \in 1..Len(p) : g[k] = Do(g[k-1], p[k])
    /\ Run(now, p) = g[Len(p)]

LEMMA RunIs ==
    ASSUME NEW fit, NEW now \in States(fit), NEW p \in Seq(AllSteps(fit))
    PROVE  \E g : IsPath(g, fit, now, p)
<1>1. PICK S, n, f : S = States(fit) /\ n = Len(p) /\ f = NoFault
  OBVIOUS
<1>2. now \in S /\ n \in Nat /\ \A k \in 1..n : p[k] \in AllSteps(fit)
  BY <1>1
<1>3. \A k \in 1..n : \A was \in S : Stepped(was, p[k], k, f) \in S
  BY <1>1, <1>2, DoIs, DoTyped
<1>4. PICK g : IsRun(g, S, now, p, n, f)
  BY <1>2, <1>3, AfterRuns
<1>5. \A k \in 1..n : g[k] = Do(g[k-1], p[k])
  BY <1>1, <1>4, DoIs DEF IsRun
<1> QED
  BY <1>1, <1>4, <1>5 DEF IsRun, IsPath, Run

LEMMA RunTypes ==
    ASSUME NEW fit, NEW now \in States(fit), NEW p \in Seq(AllSteps(fit))
    PROVE  Run(now, p) \in States(fit)
<1>1. PICK g : IsPath(g, fit, now, p)
  BY RunIs
<1>2. Len(p) \in 0..Len(p)
  OBVIOUS
<1> QED
  BY <1>1, <1>2 DEF IsPath

\* From s, the program p ends in t.
RunsTo(fit, s, p, t) ==
    s \in States(fit) /\ p \in Seq(AllSteps(fit)) /\ t \in States(fit) /\ t = Run(s, p)

LEMMA Runs ==
    ASSUME NEW fit, NEW s \in States(fit), NEW p \in Seq(AllSteps(fit))
    PROVE  RunsTo(fit, s, p, Run(s, p))
BY RunTypes DEF RunsTo

LEMMA RunNothing ==
    ASSUME NEW fit, NEW s \in States(fit), NEW p, p = <<>>
    PROVE  RunsTo(fit, s, p, s)
<1>1. PICK A : A = AllSteps(fit)
  OBVIOUS
<1>a. p \in Seq(A) /\ Len(p) = 0
  BY <1>1
<1>2. PICK g : IsPath(g, fit, s, p)
  BY <1>1, <1>a, RunIs
<1> QED
  BY <1>1, <1>a, <1>2 DEF IsPath, RunsTo

LEMMA RunOne ==
    ASSUME NEW fit, NEW s \in States(fit), NEW x \in AllSteps(fit), NEW p, p = <<x>>
    PROVE  RunsTo(fit, s, p, Do(s, x))
<1>1. PICK A : A = AllSteps(fit)
  OBVIOUS
<1>2. p \in Seq(A) /\ Len(p) = 1 /\ p[1] = x
  BY <1>1
<1>3. p \in Seq(AllSteps(fit))
  BY <1>1, <1>2
<1>4. PICK g : IsPath(g, fit, s, p)
  BY <1>3, RunIs
<1>5. 1 \in 1..Len(p) /\ 1 - 1 = 0
  BY <1>2
<1>6. g[1] = Do(g[1 - 1], p[1])
  BY <1>4, <1>5 DEF IsPath
<1>7. Do(s, x) \in States(fit)
  BY DoTyped
<1> QED
  BY <1>2, <1>3, <1>4, <1>5, <1>6, <1>7 DEF IsPath, RunsTo

LEMMA RunJoin ==
    ASSUME NEW fit, NEW s, NEW m, NEW t, NEW u, NEW v, NEW c,
           RunsTo(fit, s, u, m), RunsTo(fit, m, v, t), c = u \o v
    PROVE  RunsTo(fit, s, c, t)
<1> DEFINE n == Len(u)
           l == Len(v)
<1>a. /\ s \in States(fit) /\ u \in Seq(AllSteps(fit)) /\ m \in States(fit) /\ m = Run(s, u)
      /\ v \in Seq(AllSteps(fit)) /\ t \in States(fit) /\ t = Run(m, v)
  BY DEF RunsTo
<1>1. /\ c \in Seq(AllSteps(fit)) /\ n \in Nat /\ l \in Nat /\ Len(c) = n + l
      /\ \A k \in 1..n : c[k] = u[k]
      /\ \A k \in 1..l : c[n + k] = v[k]
  BY <1>a
<1>2. PICK f : IsPath(f, fit, s, u)
  BY <1>a, RunIs
<1>4. PICK g : IsPath(g, fit, m, v)
  BY <1>a, RunIs
<1>5. PICK h : IsPath(h, fit, s, c)
  BY <1>a, <1>1, RunIs
<1> HIDE DEF n, l
<1>6. \A k \in 0..n : h[k] = f[k]
  <2> DEFINE bad == {k \in 0..n : h[k] # f[k]}
  <2>1. CASE bad = {}
    BY <2>1
  <2>2. CASE bad # {}
    <3>1. \E j \in bad : \A k \in bad : j <= k
      <4>1. bad \subseteq Nat
        BY <1>1
      <4> HIDE DEF bad
      <4> QED
        BY <2>2, <4>1, Least
    <3>2. PICK j \in bad : \A k \in bad : j <= k
      BY <3>1
    <3>3. j \in 1..n /\ j - 1 \in 0..n /\ j \in 1..Len(c)
      BY <1>1, <1>2, <1>5, <3>2 DEF IsPath
    <3>4. j - 1 \notin bad
      <4> HIDE DEF bad
      <4> QED
        BY <3>2, <3>3
    <3>5. h[j-1] = f[j-1]
      BY <3>3, <3>4
    <3>6. h[j] = Do(h[j-1], c[j]) /\ f[j] = Do(f[j-1], u[j])
      BY <1>2, <1>5, <3>3 DEF IsPath, n
    <3> QED
      BY <1>1, <3>2, <3>3, <3>5, <3>6
  <2> QED
    BY <2>1, <2>2
<1>7. \A k \in 0..l : h[n + k] = g[k]
  <2> DEFINE bad == {k \in 0..l : h[n + k] # g[k]}
  <2>1. CASE bad = {}
    BY <2>1
  <2>2. CASE bad # {}
    <3>1. \E j \in bad : \A k \in bad : j <= k
      <4>1. bad \subseteq Nat
        BY <1>1
      <4> HIDE DEF bad
      <4> QED
        BY <2>2, <4>1, Least
    <3>2. PICK j \in bad : \A k \in bad : j <= k
      BY <3>1
    <3>3. j # 0
      <4>1. h[n + 0] = f[n] /\ g[0] = f[n]
        BY <1>a, <1>1, <1>2, <1>4, <1>6 DEF IsPath, n
      <4> QED
        BY <3>2, <4>1
    <3>4. j \in 1..l /\ j - 1 \in 0..l /\ n + j \in 1..Len(c) /\ (n + j) - 1 = n + (j - 1)
      BY <1>1, <3>2, <3>3
    <3>5. j - 1 \notin bad
      <4> HIDE DEF bad
      <4> QED
        BY <3>2, <3>4
    <3>6. h[n + (j-1)] = g[j-1]
      BY <3>4, <3>5
    <3>7. h[n + j] = Do(h[(n + j) - 1], c[n + j])
      BY <1>5, <3>4 DEF IsPath
    <3>8. g[j] = Do(g[j-1], v[j]) /\ c[n + j] = v[j]
      BY <1>1, <1>4, <3>4 DEF IsPath, l
    <3> QED
      BY <3>2, <3>4, <3>6, <3>7, <3>8
  <2> QED
    BY <2>1, <2>2
<1>8. h[n + l] = g[l]
  <2>1. l \in 0..l
    BY <1>1
  <2> QED
    BY <1>7, <2>1
<1> QED
  BY <1>a, <1>1, <1>4, <1>5, <1>8 DEF IsPath, RunsTo, l

\* A program whose steps stay in S.
LEMMA RunStays ==
    ASSUME NEW S, NEW now \in S, NEW A, NEW p \in Seq(A), \A x \in A : \A was \in S : Do(was, x) \in S
    PROVE  Run(now, p) \in S
<1>1. Len(p) \in 0..Len(p)
  OBVIOUS
<1>2. \A x \in A : \A k \in Nat : \A was \in S : Stepped(was, x, k, NoFault) \in S
  BY DoIs
<1> QED
  BY <1>1, <1>2, AfterStays DEF Run

\* What a step does.
LEMMA DoRegister ==
    ASSUME NEW fit, NEW was \in States(fit), NEW x \in RegSteps
    PROVE  /\ Do(was, x).regs = [was.regs EXCEPT ![x.reg] = (was.regs[x.reg] \ x.mask) \cup (x.val \cap x.mask)]
           /\ Do(was, x).tuner = was.tuner /\ Do(was, x).missed = was.missed /\ Do(was, x).ir = was.ir
<1>1. x.do \in {"write", "mask"}
  BY DEF RegSteps
<1> DEFINE new == (was.regs[x.reg] \ x.mask) \cup (x.val \cap x.mask)
<1>2. Do(was, x) = [was EXCEPT !.regs[x.reg] = new]
  BY <1>1 DEF Do, Apply
<1> HIDE DEF new
<1>3. was = [regs |-> was.regs, tuner |-> was.tuner, missed |-> was.missed, ir |-> was.ir]
  BY DEF States
<1>4. Do(was, x) = [regs |-> [was.regs EXCEPT ![x.reg] = new], tuner |-> was.tuner, missed |-> was.missed, ir |-> was.ir]
  BY <1>2, <1>3
<1> QED
  BY <1>4 DEF new

LEMMA DoWord ==
    ASSUME NEW fit, NEW was \in States(fit), NEW word \in {"probe", "init", "exit", "set"}
    PROVE  /\ Do(was, Tuner(word)).regs = was.regs /\ Do(was, Tuner(word)).ir = was.ir
           /\ Hears(was) =>
                /\ Do(was, Tuner(word)).missed = was.missed
                /\ Do(was, Tuner(word)).tuner = IF word = "init" THEN "ready"
                                                ELSE IF word = "exit" THEN "standby" ELSE was.tuner
<1>1. PICK x : x = Tuner(word)
  OBVIOUS
<1>2. x.do = word
  BY <1>1 DEF Tuner
<1>3. was = [regs |-> was.regs, tuner |-> was.tuner, missed |-> was.missed, ir |-> was.ir]
  BY DEF States
<1>4. CASE ~Hears(was)
  <2>1. Do(was, x) = [was EXCEPT !.missed = TRUE]
    BY <1>2, <1>4 DEF Do, Apply
  <2> QED
    BY <1>1, <1>3, <1>4, <2>1
<1>5. CASE Hears(was)
  <2>1. Do(was, x) = [was EXCEPT !.tuner = IF word = "init" THEN "ready"
                                          ELSE IF word = "exit" THEN "standby" ELSE was.tuner]
    BY <1>2, <1>5 DEF Do, Apply
  <2> QED
    BY <1>1, <1>3, <2>1
<1> QED
  BY <1>4, <1>5

LEMMA DoIr ==
    ASSUME NEW fit, NEW was \in States(fit), NEW x \in IrSteps
    PROVE  /\ Do(was, x).regs = was.regs /\ Do(was, x).tuner = was.tuner /\ Do(was, x).missed = was.missed
           /\ Do(was, x).ir = IF x.do = "clear" /\ was.ir > 0 THEN OFF
                              ELSE IF x.do = "start" /\ was.ir = OFF THEN 0 ELSE was.ir
<1>1. x.do \in {"read", "clear", "start"}
  BY DEF IrSteps
<1>2. was = [regs |-> was.regs, tuner |-> was.tuner, missed |-> was.missed, ir |-> was.ir]
  BY DEF States
<1>3. Do(was, x) = [was EXCEPT !.ir = IF x.do = "clear" /\ was.ir > 0 THEN OFF
                                     ELSE IF x.do = "start" /\ was.ir = OFF THEN 0 ELSE was.ir]
  BY <1>1, <1>2 DEF Do, Apply
<1> QED
  BY <1>2, <1>3

-----------------------------------------------------------------------------
(***************************************************************************)
(* Steps in which nothing fails.                                           *)
(***************************************************************************)
LEMMA NoneFailed ==
    ASSUME TypeOK, NEW f, NEW so_far, Note(f, so_far), faults' = faults
    PROVE  f = NoFault
<1>1. faults \in Int
  BY DeviceAssumption DEF TypeOK
<1> QED
  BY <1>1 DEF Note

LEMMA NoFaultIs ==
    NoFault.how = "none" /\ NoFault.at = 0 /\ ~Reported(NoFault)
BY DEF NoFault, Reported

\* The states in which the others' bits are those of now.
Beside(op, fit, now) ==
    {s \in States(fit) : \A r \in RegNames : s.regs[r] \cap Others[op][r] = now.regs[r] \cap Others[op][r]}

LEMMA OthersKept ==
    ASSUME NEW op, NEW fit, NEW now \in States(fit), NEW p \in Seq(CallSteps(op, fit) \cup IrSteps)
    PROVE  Run(now, p) \in Beside(op, fit, now)
<1> DEFINE S == Beside(op, fit, now)
<1>1. now \in S
  BY DEF Beside
<1>2. ASSUME NEW was \in S, NEW x \in Own(op)
      PROVE  Do(was, x) \in S
  <2>1. x \in RegSteps /\ x.reg \in RegNames /\ x.mask \cap Others[op][x.reg] = {}
    BY DEF Own, RegSteps
  <2>2. was \in States(fit) /\ was.regs \in [RegNames -> Byte]
    BY DEF Beside, States
  <2>3. Do(was, x) \in States(fit)
    BY <2>1, <2>2, DoTyped DEF AllSteps, Spoken
  <2>4. Do(was, x).regs = [was.regs EXCEPT ![x.reg] = (was.regs[x.reg] \ x.mask) \cup (x.val \cap x.mask)]
    BY <2>1, <2>2, DoRegister
  <2>5. ASSUME NEW r \in RegNames
        PROVE  Do(was, x).regs[r] \cap Others[op][r] = now.regs[r] \cap Others[op][r]
    <3>1. was.regs[r] \cap Others[op][r] = now.regs[r] \cap Others[op][r]
      BY DEF Beside
    <3>2. CASE r = x.reg
      <4>1. Do(was, x).regs[r] = (was.regs[r] \ x.mask) \cup (x.val \cap x.mask)
        BY <2>2, <2>4, <3>2
      <4> QED
        BY <2>1, <3>1, <3>2, <4>1
    <3>3. CASE r # x.reg
      BY <2>2, <2>4, <3>1, <3>3
    <3> QED
      BY <3>2, <3>3
  <2> QED
    BY <2>3, <2>5 DEF Beside
<1>3. ASSUME NEW was \in S, NEW x \in Sayable(fit) \cup IrSteps
      PROVE  Do(was, x) \in S
  <2>1. was \in States(fit)
    BY DEF Beside
  <2>2. Do(was, x) \in States(fit)
    BY <2>1, DoTyped DEF AllSteps, Spoken
  <2>3. Do(was, x).regs = was.regs
    <3>1. CASE x \in IrSteps
      BY <2>1, <3>1, DoIr
    <3>2. CASE x \in Sayable(fit)
      <4>1. PICK word \in {"probe", "init", "exit", "set"} : x = Tuner(word)
        BY <3>2 DEF Sayable, Tuner
      <4> QED
        BY <2>1, <4>1, DoWord
    <3> QED
      BY <3>1, <3>2
  <2> QED
    BY <2>2, <2>3 DEF Beside
<1> HIDE DEF S
<1>4. PICK A : A = CallSteps(op, fit) \cup IrSteps
  OBVIOUS
<1>5. \A x \in A : \A was \in S : Do(was, x) \in S
  BY <1>2, <1>3, <1>4 DEF CallSteps
<1>6. Run(now, p) \in S
  BY <1>1, <1>4, <1>5, RunStays
<1> QED
  BY <1>6 DEF S

BitsKept(op) ==
    \A r \in RegNames : regs'[r] = regs[r] \/ regs'[r] \cap Others[op][r] = regs[r] \cap Others[op][r]

LEMMA CallKeepsBits ==
    ASSUME TypeOK, NEW op, NEW p \in Seq(CallSteps(op, fitted) \cup IrSteps), Become(Run(Now, p))
    PROVE  BitsKept(op)
<1>1. Now \in States(fitted) /\ Now.regs = regs
  BY NowTyped DEF Now
<1>2. Run(Now, p) \in Beside(op, fitted, Now)
  BY <1>1, OthersKept
<1>3. regs' = Run(Now, p).regs
  BY DEF Become
<1> QED
  BY <1>1, <1>2, <1>3 DEF Beside, BitsKept

LEMMA CallsKeepBits ==
    ASSUME TypeOK, NEW op, NEW p \in Seq(CallSteps(op, fitted)), NEW ds, Calls(op, p, ds), faults' = faults
    PROVE  call' = op /\ BitsKept(op)
<1>1. PICK f \in Outcomes(p) : Become(After(Now, p, Len(p), f)) /\ Note(f, clean)
  BY DEF Calls
<1>2. f = NoFault
  BY <1>1, NoneFailed
<1>3. Become(Run(Now, p))
  BY <1>1, <1>2 DEF Run
<1>4. p \in Seq(CallSteps(op, fitted) \cup IrSteps)
  <2>1. PICK A, B : A = CallSteps(op, fitted) /\ B = CallSteps(op, fitted) \cup IrSteps
    OBVIOUS
  <2>2. A \subseteq B /\ p \in Seq(A)
    BY <2>1
  <2>3. p \in Seq(B)
    BY <2>2, Widen
  <2> QED
    BY <2>1, <2>3
<1> QED
  BY <1>3, <1>4, CallKeepsBits DEF Calls

\* A query that nothing disturbs.
LEMMA QueryRuns ==
    ASSUME TypeOK, NEW buf_len, IrQuery(buf_len), faults' = faults
    PROVE  \E code \in BOOLEAN, len \in CodeLengths \cup {0} :
             /\ code <=> ir > 0
             /\ len = IF ir > 0 THEN ir ELSE 0
             /\ Become(Run(Now, QueryProgram(code, len, buf_len)))
             /\ code /\ Fits(len, buf_len) => answer' = len
             /\ code /\ ~Fits(len, buf_len) => answer' = IF rc_active THEN -1 ELSE 1
<1>1. PICK code \in BOOLEAN, len \in CodeLengths \cup {0} :
        \E f \in Outcomes(QueryProgram(code, len, buf_len)) :
            Query(QueryProgram(code, len, buf_len), code, len, buf_len, f)
  BY IrQueryIs
<1>2. PICK p : p = QueryProgram(code, len, buf_len)
  OBVIOUS
<1>3. PICK f \in Outcomes(p) : Query(p, code, len, buf_len, f)
  BY <1>1, <1>2
<1>4. f = NoFault
  <2>1. Note(f, clean)
    BY <1>3 DEF Query
  <2> QED
    BY <2>1, NoneFailed
<1>5. f.how = "none" /\ ~Reported(f)
  BY <1>4, NoFaultIs
<1>6. /\ code <=> ir > 0
      /\ len = IF ir > 0 THEN ir ELSE 0
      /\ Become(After(Now, p, Len(p), f))
      /\ answer' = IF ~code THEN 0 ELSE IF Fits(len, buf_len) THEN len ELSE IF rc_active THEN -1 ELSE 1
  BY <1>3, <1>5 DEF Query
<1>7. Become(Run(Now, p))
  BY <1>4, <1>6 DEF Run
<1> QED
  BY <1>2, <1>6, <1>7

\* Calls that share a register leave each other's bits alone, for any tuner, any codes
\* and buffers, and whether or not the block selects a register.
THEOREM OwnBitsOnly == Spec => OwnBits
<1>1. TypeOK /\ [Next]_vars =>
        [opened /\ opened' /\ faults' = faults =>
           \A r \in RegNames :
              regs'[r] = regs[r] \/ regs'[r] \cap Others[call'][r] = regs[r] \cap Others[call'][r]]_vars
  <2> SUFFICES ASSUME TypeOK, Next, opened, opened', faults' = faults
               PROVE  BitsKept(call')
    BY DEF BitsKept
  <2>0. tuner_type \in {fitted, "unknown"}
    BY DEF TypeOK
  <2>1. CASE Open \/ SwiftBringUp
    BY <2>1 DEF Open, SwiftBringUp
  <2>2. CASE Close
    BY <2>2 DEF Close, NoDevice
  <2>3. CASE SetGain
    <3>1. Words(tuner_type, "set") \in Seq(CallSteps("gain", fitted))
      BY <2>0, WordsAre
    <3> QED
      BY <2>3, <3>1, CallsKeepBits DEF SetGain
  <2>4. CASE SetSampleRate
    <3>1. PICK p : p = Words(tuner_type, "set") \o <<Write("1:01", \h14), Write("1:01", \h10)>>
      OBVIOUS
    <3>2. p \in Seq(CallSteps("rate", fitted))
      BY <2>0, <3>1, RateIs
    <3> QED
      BY <2>4, <3>1, <3>2, CallsKeepBits DEF SetSampleRate
  <2>5. ASSUME NEW on \in 0..2, DirectSampling(on)
        PROVE  BitsKept(call')
    <3>1. PICK p : p = IF on = 0 THEN LeaveDirect(tuner_type) ELSE EnterDirect(tuner_type, on)
      OBVIOUS
    <3>2. p \in Seq(CallSteps("direct", fitted))
      BY <2>0, <3>1, DirectIs
    <3> QED
      BY <2>5, <3>1, <3>2, CallsKeepBits DEF DirectSampling
  <2>6. ASSUME NEW on \in BOOLEAN, SetBiasTee(on)
        PROVE  BitsKept(call')
    <3>1. BiasTee(on) \in Seq(CallSteps("bias", fitted))
      BY SettersAre
    <3> QED
      BY <2>6, <3>1, CallsKeepBits DEF SetBiasTee
  <2>7. ASSUME NEW on \in BOOLEAN, SetTestMode(on)
        PROVE  BitsKept(call')
    <3>1. <<Write("0:19", IF on THEN 3 ELSE 5)>> \in Seq(CallSteps("testmode", fitted))
      BY SettersAre
    <3> QED
      BY <2>7, <3>1, CallsKeepBits DEF SetTestMode
  <2>8. ASSUME NEW on \in BOOLEAN, SetAgcMode(on)
        PROVE  BitsKept(call')
    <3>1. <<Write("0:19", IF on THEN \h25 ELSE 5)>> \in Seq(CallSteps("agc", fitted))
      BY SettersAre
    <3> QED
      BY <2>8, <3>1, CallsKeepBits DEF SetAgcMode
  <2>9. ASSUME NEW buf_len \in BufferSizes, IrQuery(buf_len)
        PROVE  BitsKept(call')
    <3>1. PICK p : p \in Seq(Own("ir") \cup IrSteps) /\ Become(Run(Now, p))
      BY <2>9, QueryRuns, QueryIs
    <3>2. PICK A, B : A = Own("ir") \cup IrSteps /\ B = CallSteps("ir", fitted) \cup IrSteps
      OBVIOUS
    <3>3. A \subseteq B /\ p \in Seq(A)
      BY <3>1, <3>2 DEF CallSteps
    <3>4. p \in Seq(B)
      BY <3>3, Widen
    <3>5. call' = "ir"
      BY <2>9, IrQueryIs
    <3> QED
      BY <3>1, <3>2, <3>4, <3>5, CallKeepsBits
  <2>10. ASSUME NEW n \in CodeLengths, Signal(n)
         PROVE  BitsKept(call')
    BY <2>10 DEF Signal, BitsKept
  <2> QED
    BY <2>1, <2>2, <2>3, <2>4, <2>5, <2>6, <2>7, <2>8, <2>9, <2>10 DEF Next
<1> QED
  BY <1>1, DeviceTypes, PTL DEF Spec, OwnBits

-----------------------------------------------------------------------------
(***************************************************************************)
(* Codes.                                                                  *)
(***************************************************************************)
\* Steps that keep a code.
Keepers(fit) == Spoken(fit) \cup Listens

LEMMA CodeStays ==
    ASSUME NEW fit, NEW now \in States(fit), now.ir > 0, NEW p \in Seq(Keepers(fit))
    PROVE  Run(now, p) \in States(fit) /\ Run(now, p).ir = now.ir
<1> DEFINE S == {s \in States(fit) : s.ir = now.ir}
<1>1. ASSUME NEW was \in S, NEW x \in Keepers(fit)
      PROVE  Do(was, x) \in S
  <2>1. was \in States(fit) /\ x \in AllSteps(fit) /\ was.ir = now.ir
    BY DEF Keepers, AllSteps, Listens, IrSteps
  <2>2. Do(was, x) \in States(fit)
    BY <2>1, DoTyped
  <2>3. CASE x \in RegSteps
    BY <2>1, <2>2, <2>3, DoRegister
  <2>4. CASE x \in Sayable(fit)
    <3>1. PICK word \in {"probe", "init", "exit", "set"} : x = Tuner(word)
      BY <2>4 DEF Sayable, Tuner
    <3> QED
      BY <2>1, <2>2, <3>1, DoWord
  <2>5. CASE x \in Listens
    <3>1. x \in IrSteps /\ x.do # "clear"
      BY <2>5 DEF Listens, IrSteps
    <3> QED
      BY <2>1, <2>2, <3>1, DoIr DEF OFF
  <2> QED
    BY <2>3, <2>4, <2>5 DEF Keepers, Spoken
<1>2. now \in S
  OBVIOUS
<1> HIDE DEF S
<1>3. PICK A : A = Keepers(fit)
  OBVIOUS
<1>4. \A x \in A : \A was \in S : Do(was, x) \in S
  BY <1>1, <1>3
<1>5. Run(now, p) \in S
  BY <1>2, <1>3, <1>4, RunStays
<1> QED
  BY <1>5 DEF S

\* What a step does to the receiver, whatever fails.
LEMMA ApplyIr ==
    ASSUME NEW fit, NEW was \in States(fit), NEW x \in AllSteps(fit), NEW base
    PROVE  /\ x \in Spoken(fit) => Apply(was, x, base).ir = was.ir
           /\ x \in IrSteps =>
                Apply(was, x, base).ir = IF x.do = "clear" /\ was.ir > 0 THEN OFF
                                         ELSE IF x.do = "start" /\ was.ir = OFF THEN 0 ELSE was.ir
<1>1. was = [regs |-> was.regs, tuner |-> was.tuner, missed |-> was.missed, ir |-> was.ir]
  BY DEF States
<1>2. CASE x \in RegSteps
  <2>1. x.do \in {"write", "mask"}
    BY <1>2 DEF RegSteps
  <2> DEFINE new == (base \ x.mask) \cup (x.val \cap x.mask)
  <2>2. Apply(was, x, base) = [was EXCEPT !.regs[x.reg] = new]
    BY <2>1 DEF Apply
  <2> HIDE DEF new
  <2>3. Apply(was, x, base) = [regs |-> [was.regs EXCEPT ![x.reg] = new], tuner |-> was.tuner,
                               missed |-> was.missed, ir |-> was.ir]
    BY <1>1, <2>2
  <2>4. x \notin IrSteps
    BY <2>1 DEF IrSteps
  <2> QED
    BY <2>3, <2>4
<1>3. CASE x \in Sayable(fit)
  <2>1. x.do \in {"probe", "init", "exit", "set"}
    BY <1>3 DEF Sayable
  <2>2. x \notin IrSteps
    BY <2>1 DEF IrSteps
  <2>3. CASE ~Hears(was)
    <3>1. Apply(was, x, base) = [was EXCEPT !.missed = TRUE]
      BY <2>1, <2>3 DEF Apply
    <3> QED
      BY <1>1, <2>2, <3>1
  <2>4. CASE Hears(was)
    <3>1. Apply(was, x, base) = [was EXCEPT !.tuner = IF x.do = "init" THEN "ready"
                                                      ELSE IF x.do = "exit" THEN "standby" ELSE was.tuner]
      BY <2>1, <2>4 DEF Apply
    <3> QED
      BY <1>1, <2>2, <3>1
  <2> QED
    BY <2>3, <2>4
<1>4. CASE x \in IrSteps
  <2>1. x.do \in {"read", "clear", "start"}
    BY <1>4 DEF IrSteps
  <2>2. Apply(was, x, base) = [was EXCEPT !.ir = IF x.do = "clear" /\ was.ir > 0 THEN OFF
                                                 ELSE IF x.do = "start" /\ was.ir = OFF THEN 0 ELSE was.ir]
    BY <1>1, <2>1 DEF Apply
  <2>3. x \notin Spoken(fit)
    BY <2>1 DEF Spoken, RegSteps, Sayable
  <2> QED
    BY <1>1, <2>2, <2>3
<1> QED
  BY <1>2, <1>3, <1>4 DEF AllSteps, Spoken

LEMMA SteppedIr ==
    ASSUME NEW fit, NEW was \in States(fit), NEW x \in AllSteps(fit), NEW k, NEW f
    PROVE  /\ x \in Spoken(fit) => Stepped(was, x, k, f).ir = was.ir
           /\ was.ir = 0 => Stepped(was, x, k, f).ir = 0
           /\ was.ir = OFF => Stepped(was, x, k, f).ir \in {OFF, 0}
           /\ x = [do |-> "start"] /\ was.ir \in {OFF, 0} /\ f.how # "crash" /\ ~(f.how = "lost" /\ f.at = k)
                => Stepped(was, x, k, f).ir = 0
<1>0. x \in Spoken(fit) \/ x \in IrSteps
  BY DEF AllSteps
<1>1. x = [do |-> "start"] => x \in IrSteps /\ x.do = "start"
  BY DEF IrSteps
<1>2. PICK base : \/ Stepped(was, x, k, f) = was /\ (f.how = "crash" \/ (f.how = "lost" /\ f.at = k))
                  \/ Stepped(was, x, k, f) = Apply(was, x, base)
  BY Zenon DEF Stepped
<1>3. CASE Stepped(was, x, k, f) = was /\ (f.how = "crash" \/ (f.how = "lost" /\ f.at = k))
  BY <1>3
<1>4. CASE Stepped(was, x, k, f) = Apply(was, x, base)
  <2>1. PICK new : new = Apply(was, x, base)
    OBVIOUS
  <2>2. /\ x \in Spoken(fit) => new.ir = was.ir
        /\ x \in IrSteps => new.ir = IF x.do = "clear" /\ was.ir > 0 THEN OFF
                                     ELSE IF x.do = "start" /\ was.ir = OFF THEN 0 ELSE was.ir
    BY <2>1, ApplyIr
  <2> QED
    BY <1>0, <1>1, <1>4, <2>1, <2>2 DEF OFF
<1> QED
  BY <1>2, <1>3, <1>4

\* A program without a query, whatever fails.
LEMMA OthersKeepCode ==
    ASSUME TypeOK, NEW now \in {Now, [Now EXCEPT !.missed = FALSE]}, NEW p \in Seq(Spoken(fitted)),
           NEW f \in Outcomes(p), Become(After(now, p, Len(p), f))
    PROVE  ir' = ir
<1> DEFINE S == {s \in States(fitted) : s.ir = ir}
<1>1. now \in S
  <2>1. Now.ir = ir /\ [Now EXCEPT !.missed = FALSE].ir = ir
    BY DEF Now
  <2> QED
    BY <2>1, NowTyped
<1>2. f.base \in Byte
  BY OutcomeIs
<1>3. ASSUME NEW x \in Spoken(fitted), NEW k \in Nat, NEW was \in S
      PROVE  Stepped(was, x, k, f) \in S
  <2>1. was \in States(fitted) /\ was.ir = ir /\ x \in AllSteps(fitted)
    BY DEF AllSteps
  <2>2. Stepped(was, x, k, f) \in States(fitted)
    BY <1>2, <2>1, SteppedTyped DEF AllSteps
  <2>3. Stepped(was, x, k, f).ir = was.ir
    BY <2>1, SteppedIr
  <2> QED
    BY <2>1, <2>2, <2>3
<1> HIDE DEF S
<1>4. PICK A : A = Spoken(fitted)
  OBVIOUS
<1>5. \A x \in A : \A k \in Nat : \A was \in S : Stepped(was, x, k, f) \in S
  BY <1>3, <1>4
<1>6. p \in Seq(A) /\ Len(p) \in 0..Len(p)
  BY <1>4
<1>7. After(now, p, Len(p), f) \in S
  BY <1>1, <1>5, <1>6, AfterStays
<1> QED
  BY <1>7 DEF S, Become

LEMMA CallsKeepCode ==
    ASSUME TypeOK, NEW op, NEW o, NEW p \in Seq(CallSteps(o, fitted)), NEW ds, Calls(op, p, ds)
    PROVE  ir' = ir /\ (rc_active' => rc_active)
<1>1. PICK f \in Outcomes(p) : Become(After(Now, p, Len(p), f)) /\ Fields(f, tuner_type, ds, rc_active)
  BY DEF Calls
<1>2. p \in Seq(Spoken(fitted))
  <2>1. PICK A, B : A = CallSteps(o, fitted) /\ B = Spoken(fitted)
    OBVIOUS
  <2>2. A \subseteq B /\ p \in Seq(A)
    BY <2>1 DEF CallSteps, Own, Spoken
  <2>3. p \in Seq(B)
    BY <2>2, Widen
  <2> QED
    BY <2>1, <2>3
<1>3. ir' = ir
  BY <1>1, <1>2, OthersKeepCode
<1>4. rc_active' => rc_active
  BY <1>1, Zenon DEF Fields, NoDevice
<1> QED
  BY <1>3, <1>4

\* A receiver that hands its code over is started again.
LEMMA RefreshStarts ==
    ASSUME NEW fit, NEW s \in States(fit), s.ir > 0
    PROVE  \E t : RunsTo(fit, s, IrRefresh, t) /\ t.ir = 0
<1>1. PICK x, y : x = [do |-> "clear"] /\ y = [do |-> "start"]
  OBVIOUS
<1>2. x \in IrSteps /\ y \in IrSteps /\ x \in AllSteps(fit) /\ y \in AllSteps(fit)
  BY <1>1 DEF AllSteps, IrSteps
<1>3. PICK u, v, c : u = <<x>> /\ v = <<y>> /\ c = u \o v
  OBVIOUS
<1>4. PICK m, t : m = Do(s, x) /\ t = Do(m, y)
  OBVIOUS
<1>5. RunsTo(fit, s, u, m)
  BY <1>2, <1>3, <1>4, RunOne
<1>6. m \in States(fit)
  BY <1>5 DEF RunsTo
<1>7. RunsTo(fit, m, v, t)
  BY <1>2, <1>3, <1>4, <1>6, RunOne
<1>8. RunsTo(fit, s, c, t)
  BY <1>3, <1>5, <1>7, RunJoin
<1>9. m.ir = OFF
  BY <1>1, <1>2, <1>4, DoIr
<1>10. t.ir = 0
  BY <1>1, <1>2, <1>4, <1>6, <1>9, DoIr
<1>11. IrRefresh = c
  BY <1>1, <1>3 DEF IrRefresh
<1> QED
  BY <1>8, <1>10, <1>11

LEMMA Regroup ==
    ASSUME NEW B, NEW u \in Seq(B), NEW v \in Seq(B), NEW w \in Seq(B),
           NEW x, Joined(x, u, v), NEW y, Joined(y, v, w), NEW c, Joined(c, u, y)
    PROVE  Joined(c, x, w)
BY SMTT(30) DEF Joined

LEMMA QueryOrder ==
    ASSUME NEW A, NEW B, A \subseteq B, NEW s \in Seq(A), NEW r \in Seq(A), NEW v \in Seq(B),
           NEW p, p = s \o r \o r \o r
    PROVE  Joined(s \o r \o (r \o (r \o v)), p, v)
<1>0. PICK c : c = s \o r \o (r \o (r \o v))
  OBVIOUS
<1>1. s \in Seq(B) /\ r \in Seq(B)
  BY Widen
<1>2. s \o r \in Seq(B) /\ r \o v \in Seq(B) /\ s \o r \o r \in Seq(B)
  BY <1>1
<1>3. PICK a, b, d, e : a = s \o r /\ b = r \o v /\ d = a \o r /\ e = r \o b
  OBVIOUS
<1>4. a \in Seq(B) /\ b \in Seq(B) /\ d \in Seq(B)
  BY <1>2, <1>3
<1>5. Joined(b, r, v) /\ Joined(d, a, r) /\ Joined(e, r, b) /\ Joined(c, a, e) /\ Joined(p, d, r)
  BY <1>0, <1>3 DEF Joined
<1>6. Joined(c, d, b)
  BY <1>1, <1>4, <1>5, Regroup
<1>7. Joined(c, p, v)
  BY <1>1, <1>4, <1>5, <1>6, Regroup
<1> QED
  BY <1>0, <1>7

LEMMA QueryKeepsCode ==
    ASSUME TypeOK, ir > 0, NEW buf_len, IrQuery(buf_len), faults' = faults
    PROVE  \/ ir' = 0 /\ answer' = ir
           \/ ir' = ir /\ answer' = IF rc_active THEN -1 ELSE 1
<1>1. PICK code \in BOOLEAN, len \in CodeLengths \cup {0} :
             /\ code <=> ir > 0
             /\ len = IF ir > 0 THEN ir ELSE 0
             /\ Become(Run(Now, QueryProgram(code, len, buf_len)))
             /\ code /\ Fits(len, buf_len) => answer' = len
             /\ code /\ ~Fits(len, buf_len) => answer' = IF rc_active THEN -1 ELSE 1
  BY QueryRuns
<1>2. code /\ len = ir
  BY <1>1
<1>3. PICK A, B : A = Keepers(fitted) /\ B = AllSteps(fitted)
  OBVIOUS
<1>4. A \subseteq B
  BY <1>3 DEF Keepers, AllSteps, Listens, IrSteps
<1>5. QuerySetUp \in Seq(A) /\ IrRead \in Seq(A) /\ KeepUnfit \in Seq(A)
  <2>1. PICK C : C = Own("ir") \cup Listens
    OBVIOUS
  <2>2. C \subseteq A
    BY <1>3, <2>1 DEF Keepers, Own, Spoken
  <2>3. PICK s \in Seq(C) : s = IrSetUp
    BY <2>1, IrSetUpIs
  <2>4. s \in Seq(A)
    BY <2>2, Widen
  <2>5. [do |-> "read"] \in A
    BY <1>3 DEF Keepers, Listens
  <2> QED
    BY <2>3, <2>4, <2>5 DEF QuerySetUp, IrRead, KeepUnfit
<1>6. PICK s \in Seq(A), r \in Seq(A), k \in Seq(A) : s = QuerySetUp /\ r = IrRead /\ k = KeepUnfit
  BY <1>5
<1>7. Now \in States(fitted) /\ Now.ir = ir
  BY NowTyped DEF Now
<1>8. CASE Fits(len, buf_len)
  <2>1. PICK u \in Seq(A) : u = s \o r \o r \o r
    <3>1. s \o r \o r \o r \in Seq(A)
      OBVIOUS
    <3> QED
      BY <3>1
  <2>2. PICK m : m = Run(Now, u)
    OBVIOUS
  <2>3. m \in States(fitted) /\ m.ir = ir
    BY <1>3, <1>7, <2>2, CodeStays
  <2>4. u \in Seq(B)
    BY <1>4, Widen
  <2>5. RunsTo(fitted, Now, u, m)
    BY <1>3, <1>7, <2>2, <2>4, Runs
  <2>6. PICK t : RunsTo(fitted, m, IrRefresh, t) /\ t.ir = 0
    BY <2>3, RefreshStarts, ir > 0
  <2>7. PICK v, c : v = IrRefresh /\ c = u \o v
    OBVIOUS
  <2>8. RunsTo(fitted, Now, c, t)
    BY <2>5, <2>6, <2>7, RunJoin
  <2>9. c = QueryProgram(code, len, buf_len)
    <3>1. QueryProgram(code, len, buf_len) = s \o r \o (r \o (r \o v))
      BY <1>2, <1>6, <1>8, <2>7 DEF QueryProgram
    <3>2. v \in Seq(B)
      BY <1>3, <2>6, <2>7 DEF RunsTo
    <3>3. PICK d : d = QueryProgram(code, len, buf_len)
      OBVIOUS
    <3>4. d = u \o v
      <4>1. Joined(s \o r \o (r \o (r \o v)), u, v)
        BY <1>4, <2>1, <3>2, QueryOrder
      <4> QED
        BY <3>1, <3>3, <4>1 DEF Joined
    <3> QED
      BY <2>7, <3>3, <3>4
  <2> QED
    BY <1>1, <1>2, <1>8, <2>6, <2>8, <2>9 DEF RunsTo, Become
<1>9. CASE ~Fits(len, buf_len)
  <2>1. PICK c : c = QueryProgram(code, len, buf_len)
    OBVIOUS
  <2>2. c = s \o r \o (r \o k)
    BY <1>2, <1>6, <1>9, <2>1 DEF QueryProgram
  <2>3. c \in Seq(A)
    BY <2>2
  <2>4. Run(Now, c).ir = ir
    BY <1>3, <1>7, <2>3, CodeStays
  <2> QED
    BY <1>1, <1>2, <1>9, <2>1, <2>4 DEF Become
<1> QED
  BY <1>8, <1>9

LEMMA QueryCounts ==
    ASSUME TypeOK, NEW buf_len, IrQuery(buf_len)
    PROVE  faults' = faults \/ faults' > faults
<1>1. PICK f : Note(f, clean)
  BY IrQueryIs DEF Query
<1>2. faults \in Int
  BY DeviceAssumption DEF TypeOK
<1> QED
  BY <1>1, <1>2 DEF Note

\* Another call than a query, whatever fails, leaves the receiver alone.
Still == ir' = ir /\ (rc_active' => rc_active)

LEMMA OthersKeepReceiver ==
    ASSUME TypeOK, Next
    PROVE  \/ Still
           \/ \E buf_len \in BufferSizes : IrQuery(buf_len)
           \/ \E n \in CodeLengths : Signal(n)
<1>0. tuner_type \in {fitted, "unknown"}
  BY DEF TypeOK
<1>1. CASE Open
  <2>1. PICK seen \in {fitted, "unknown"} : \E f \in Outcomes(OpenProgram(seen)) :
          /\ Become(After([Now EXCEPT !.missed = FALSE], OpenProgram(seen), Len(OpenProgram(seen)), f))
          /\ Fields(f, seen, IF Known(seen) THEN 0 ELSE 1, FALSE)
    BY <1>1 DEF Open
  <2>2. PICK p : p = OpenProgram(seen)
    OBVIOUS
  <2>3. p \in Seq(Spoken(fitted))
    BY <2>2, OpenIs
  <2>4. PICK now : now = [Now EXCEPT !.missed = FALSE]
    OBVIOUS
  <2>5. PICK f \in Outcomes(p) : /\ Become(After(now, p, Len(p), f))
                                 /\ Fields(f, seen, IF Known(seen) THEN 0 ELSE 1, FALSE)
    BY <2>1, <2>2, <2>4
  <2>6. now \in {Now, [Now EXCEPT !.missed = FALSE]}
    BY <2>4
  <2>7. ir' = ir
    BY <2>3, <2>5, <2>6, OthersKeepCode
  <2>8. ~rc_active'
    BY <2>5, Zenon DEF Fields, NoDevice
  <2> QED
    BY <2>7, <2>8 DEF Still
<1>2. CASE Close
  <2>1. CloseProgram \in Seq(Spoken(fitted))
    BY <1>0, CloseIs
  <2>2. PICK p : p = CloseProgram
    OBVIOUS
  <2>3. PICK f \in Outcomes(p) : Become(After(Now, p, Len(p), f))
    BY <1>2, <2>2 DEF Close, CloseProgram
  <2>4. ir' = ir
    BY <2>1, <2>2, <2>3, OthersKeepCode
  <2>5. ~rc_active'
    BY <1>2, Zenon DEF Close, NoDevice
  <2> QED
    BY <2>4, <2>5 DEF Still
<1>3. CASE SwiftBringUp
  <2>1. SwiftProgram \in Seq(Spoken(fitted))
    BY SwiftIs
  <2>2. PICK p : p = SwiftProgram
    OBVIOUS
  <2>3. PICK now : now = [Now EXCEPT !.missed = FALSE]
    OBVIOUS
  <2>4. PICK f \in Outcomes(p) : Become(After(now, p, Len(p), f))
    BY <1>3, <2>2, <2>3 DEF SwiftBringUp, SwiftProgram
  <2>5. now \in {Now, [Now EXCEPT !.missed = FALSE]}
    BY <2>3
  <2>6. ir' = ir
    BY <2>1, <2>2, <2>4, <2>5, OthersKeepCode
  <2>7. ~rc_active'
    BY <1>3, Zenon DEF SwiftBringUp, NoDevice
  <2> QED
    BY <2>6, <2>7 DEF Still
<1>4. CASE SetGain
  <2>1. Words(tuner_type, "set") \in Seq(CallSteps("gain", fitted))
    BY <1>0, WordsAre
  <2> QED
    BY <1>4, <2>1, CallsKeepCode DEF SetGain, Still
<1>5. CASE SetSampleRate
  <2>1. PICK p : p = Words(tuner_type, "set") \o <<Write("1:01", \h14), Write("1:01", \h10)>>
    OBVIOUS
  <2>2. p \in Seq(CallSteps("rate", fitted))
    BY <1>0, <2>1, RateIs
  <2> QED
    BY <1>5, <2>1, <2>2, CallsKeepCode DEF SetSampleRate, Still
<1>6. ASSUME NEW on \in 0..2, DirectSampling(on)
      PROVE  Still
  <2>1. PICK p : p = IF on = 0 THEN LeaveDirect(tuner_type) ELSE EnterDirect(tuner_type, on)
    OBVIOUS
  <2>2. p \in Seq(CallSteps("direct", fitted))
    BY <1>0, <2>1, DirectIs
  <2> QED
    BY <1>6, <2>1, <2>2, CallsKeepCode DEF DirectSampling, Still
<1>7. ASSUME NEW on \in BOOLEAN, SetBiasTee(on) \/ SetTestMode(on) \/ SetAgcMode(on)
      PROVE  Still
  <2>1. /\ BiasTee(on) \in Seq(CallSteps("bias", fitted))
        /\ <<Write("0:19", IF on THEN 3 ELSE 5)>> \in Seq(CallSteps("testmode", fitted))
        /\ <<Write("0:19", IF on THEN \h25 ELSE 5)>> \in Seq(CallSteps("agc", fitted))
    BY SettersAre
  <2>2. CASE SetBiasTee(on)
    BY <2>1, <2>2, CallsKeepCode DEF SetBiasTee, Still
  <2>3. CASE SetTestMode(on)
    BY <2>1, <2>3, CallsKeepCode DEF SetTestMode, Still
  <2>4. CASE SetAgcMode(on)
    BY <2>1, <2>4, CallsKeepCode DEF SetAgcMode, Still
  <2> QED
    BY <1>7, <2>2, <2>3, <2>4
<1> QED
  BY <1>1, <1>2, <1>3, <1>4, <1>5, <1>6, <1>7 DEF Next

LEMMA OnlyQueriesAsk ==
    ASSUME Next, call' = "ir"
    PROVE  \E buf_len \in BufferSizes : IrQuery(buf_len)
<1>1. ~Open /\ ~Close /\ ~SwiftBringUp
  BY Zenon DEF Open, Close, SwiftBringUp
<1>2. ~SetGain /\ ~SetSampleRate /\ ~\E on \in 0..2 : DirectSampling(on)
  BY Zenon DEF SetGain, SetSampleRate, DirectSampling, Calls
<1>3. ~\E on \in BOOLEAN : SetBiasTee(on) \/ SetTestMode(on) \/ SetAgcMode(on)
  BY Zenon DEF SetBiasTee, SetTestMode, SetAgcMode, Calls
<1>4. ~\E n \in CodeLengths : Signal(n)
  BY Zenon DEF Signal
<1> QED
  BY <1>1, <1>2, <1>3, <1>4, Zenon DEF Next

\* A code leaves the receiver only in a query, and if nothing fails in that, only in one
\* that hands it over and with the receiver started again: whatever else is called, and
\* fails.  A query that keeps it because its buffer is too small answers -1, or 1 if it
\* has set the receiver up as well.
THEOREM CodesKept == Spec => CodeKept
<1> DEFINE Unlost ==
             ir > 0 =>
               \/ call' # "ir" /\ ir' = ir
               \/ call' = "ir" /\ ir' = 0 /\ answer' = ir
               \/ call' = "ir" /\ ir' = ir /\ answer' = IF rc_active THEN -1 ELSE 1
               \/ call' = "ir" /\ faults' > faults
<1>1. TypeOK /\ [Next]_vars => [Unlost]_vars
  <2> SUFFICES ASSUME TypeOK, Next, ir > 0
               PROVE  Unlost
    OBVIOUS
  <2>1. ~\E n \in CodeLengths : Signal(n)
    BY DEF Signal
  <2>2. CASE call' # "ir"
    <3>1. ~\E buf_len \in BufferSizes : IrQuery(buf_len)
      BY <2>2, IrQueryIs
    <3> QED
      BY <2>1, <2>2, <3>1, OthersKeepReceiver DEF Still
  <2>3. CASE call' = "ir"
    <3>1. PICK buf_len \in BufferSizes : IrQuery(buf_len)
      BY <2>3, OnlyQueriesAsk
    <3>2. faults' = faults \/ faults' > faults
      BY <3>1, QueryCounts
    <3>3. CASE faults' = faults
      BY <2>3, <3>1, <3>3, QueryKeepsCode
    <3> QED
      BY <2>3, <3>2, <3>3
  <2> QED
    BY <2>2, <2>3
<1> QED
  BY <1>1, DeviceTypes, PTL DEF Spec, CodeKept

\* The set-up ends with the start of the receiver.
LEMMA SetUpEnds ==
    /\ Len(IrSetUp) = 7 /\ IrSetUp[7] = [do |-> "start"]
<1>1. PICK x1, x2, x3, x4, x5, x6, x7 :
        /\ x1 = Mask(Usbb("DEMOD_CTL"), 0, 4) /\ x2 = Mask(Usbb("DEMOD_CTL"), 0, 8)
        /\ x3 = Mask("USB_CTRL", \h20, \h20) /\ x4 = Mask(Usbb("GPD"), 0, 8)
        /\ x5 = Mask(Usbb("GPOE"), 8, 8) /\ x6 = Mask(Usbb("GPO"), 8, 8) /\ x7 = [do |-> "start"]
  OBVIOUS
<1>2. IrSetUp = <<x1, x2, x3, x4, x5, x6, x7>>
  BY <1>1 DEF IrSetUp
<1>3. Len(<<x1, x2, x3, x4, x5, x6, x7>>) = 7 /\ <<x1, x2, x3, x4, x5, x6, x7>>[7] = x7
  OBVIOUS
<1> QED
  BY <1>1, <1>2, <1>3

\* A query in which the receiver listens, or the set-up is made up to its end, leaves the
\* receiver listening.
LEMMA ReceiverListens ==
    ASSUME NEW fit, NEW now \in States(fit), now.ir \in {OFF, 0}, NEW p \in Seq(AllSteps(fit)), NEW n \in 0..Len(p),
           NEW f, f.base \in Byte,
           now.ir = OFF => /\ 7 <= n /\ p[7] = [do |-> "start"]
                           /\ f.how # "crash" /\ ~(f.how = "lost" /\ f.at = 7)
    PROVE  After(now, p, n, f).ir = 0
<1> DEFINE S == {s \in States(fit) : s.ir \in {OFF, 0}}
<1>1. n \in Nat /\ \A k \in 1..n : p[k] \in AllSteps(fit)
  OBVIOUS
<1>2. \A k \in 1..n : \A was \in S : Stepped(was, p[k], k, f) \in S
  BY <1>1, SteppedTyped, SteppedIr DEF AllSteps
<1>3. now \in S
  OBVIOUS
<1>4. PICK g : IsRun(g, S, now, p, n, f)
  <2> HIDE DEF S
  <2> QED
    BY <1>1, <1>2, <1>3, AfterRuns
<1>5. \A k \in 0..n : g[k] \in States(fit) /\ g[k].ir \in {OFF, 0}
  BY <1>4 DEF IsRun
<1>6. \A k \in 1..n : g[k] = Stepped(g[k-1], p[k], k, f) /\ k - 1 \in 0..n
  BY <1>4 DEF IsRun
<1>7. \A k \in 1..n : g[k-1].ir = 0 => g[k].ir = 0
  BY <1>1, <1>5, <1>6, SteppedIr
<1>8. PICK from \in 0..n : g[from].ir = 0
  <2>1. CASE now.ir = 0
    BY <1>4, <2>1 DEF IsRun
  <2>2. CASE now.ir = OFF
    <3>1. 7 \in 1..n /\ 7 - 1 \in 0..n /\ 7 \in 0..n
      BY <2>2
    <3>2. g[7] = Stepped(g[7-1], p[7], 7, f) /\ g[7-1] \in States(fit) /\ g[7-1].ir \in {OFF, 0}
      BY <1>5, <1>6, <3>1
    <3>3. p[7] \in AllSteps(fit)
      BY <1>1, <3>1
    <3>4. Stepped(g[7-1], p[7], 7, f).ir = 0
      BY <2>2, <3>2, <3>3, SteppedIr
    <3> QED
      BY <3>1, <3>2, <3>4
  <2> QED
    BY <2>1, <2>2
<1>9. \A k \in from..n : g[k].ir = 0
  <2> DEFINE bad == {k \in from..n : g[k].ir # 0}
  <2>1. CASE bad = {}
    BY <2>1
  <2>2. CASE bad # {}
    <3>1. \E m \in bad : \A k \in bad : m <= k
      <4>1. bad \subseteq Nat
        OBVIOUS
      <4> HIDE DEF bad
      <4> QED
        BY <2>2, <4>1, Least
    <3>2. PICK m \in bad : \A k \in bad : m <= k
      BY <3>1
    <3>3. m \in 1..n /\ m - 1 \in from..n /\ g[m].ir # 0
      BY <1>8, <3>2
    <3>4. m - 1 \notin bad
      <4> HIDE DEF bad
      <4> QED
        BY <3>2, <3>3
    <3> QED
      BY <1>7, <3>3, <3>4
  <2> QED
    BY <2>1, <2>2
<1>10. After(now, p, n, f) = g[n] /\ n \in from..n
  BY <1>1, <1>4 DEF IsRun
<1> QED
  BY <1>9, <1>10

LEMMA FirstSteps ==
    ASSUME NEW B, NEW u \in Seq(B), NEW v \in Seq(B)
    PROVE  /\ Len(u \o v) = Len(u) + Len(v) /\ Len(v) \in Nat /\ u \o v \in Seq(B)
           /\ \A k \in 1..Len(u) : (u \o v)[k] = u[k]
OBVIOUS

LEMMA SeventhStep ==
    ASSUME NEW B, NEW s \in Seq(B), Len(s) = 7, NEW r \in Seq(B), Len(r) = 1, NEW rest \in Seq(B)
    PROVE  Len(s \o r \o rest) >= 8 /\ (s \o r \o rest)[7] = s[7]
<1>1. /\ Len(s \o r) = Len(s) + Len(r) /\ s \o r \in Seq(B)
      /\ \A k \in 1..Len(s) : (s \o r)[k] = s[k]
  BY FirstSteps
<1>2. PICK a : a = s \o r
  OBVIOUS
<1>3. a \in Seq(B) /\ Len(a) = 8 /\ a[7] = s[7]
  BY <1>1, <1>2
<1>4. Len(a \o rest) = Len(a) + Len(rest) /\ \A k \in 1..Len(a) : (a \o rest)[k] = a[k]
  BY <1>3, FirstSteps, Zenon
<1> QED
  BY <1>2, <1>3, <1>4

\* A query that takes the receiver for set up, and does not find a code, leaves it listening.
LEMMA QueryListens ==
    ASSUME TypeOK, ir \in {OFF, 0}, ir = OFF => ~rc_active, NEW buf_len, IrQuery(buf_len), rc_active'
    PROVE  ir' = 0
<1>1. PICK code \in BOOLEAN, len \in CodeLengths \cup {0} :
        \E f \in Outcomes(QueryProgram(code, len, buf_len)) :
            Query(QueryProgram(code, len, buf_len), code, len, buf_len, f)
  BY IrQueryIs
<1>2. PICK p : p = QueryProgram(code, len, buf_len)
  OBVIOUS
<1>3. PICK f \in Outcomes(p) : Query(p, code, len, buf_len, f)
  BY <1>1, <1>2
<1> DEFINE looks == Len(QuerySetUp) + 1
           stops == Reported(f) /\ f.at \notin {looks, looks + 1}
           n     == IF stops THEN f.at ELSE Len(p)
<1>4. PICK A : A = AllSteps(fitted)
  OBVIOUS
<1>5. p \in Seq(A) /\ QuerySetUp \in Seq(A)
  <2>1. PICK B : B = Own("ir") \cup IrSteps
    OBVIOUS
  <2>2. B \subseteq A
    BY <1>4, <2>1 DEF Own, AllSteps, Spoken
  <2>3. p \in Seq(B) /\ QuerySetUp \in Seq(B)
    BY <1>2, <2>1, QueryIs
  <2>4. PICK s : s = QuerySetUp
    OBVIOUS
  <2>5. p \in Seq(A) /\ s \in Seq(A)
    BY <2>2, <2>3, <2>4, Widen
  <2> QED
    BY <2>4, <2>5
<1>6. f.base \in Byte /\ f.at \in 0..Len(p)
  BY <1>5, OutcomeIs
<1>7. n \in 0..Len(p)
  BY <1>5, <1>6
<1>8. /\ Become(After(Now, p, n, f))
      /\ Fields(f, tuner_type, direct_sampling, rc_active \/ Active(stops, f.at, looks))
  BY <1>3 DEF Query
<1>9. f.how # "crash" /\ (rc_active \/ ~stops \/ f.at > looks)
  <2>1. PICK rc \in BOOLEAN : rc = (rc_active \/ Active(stops, f.at, looks))
    BY DEF Active
  <2>2. Fields(f, tuner_type, direct_sampling, rc)
    BY <1>8, <2>1
  <2>3. f.how # "crash" /\ rc
    BY <2>2, rc_active', Zenon DEF Fields, NoDevice
  <2> QED
    BY <2>1, <2>3 DEF Active
<1>10. ir = OFF => 7 <= n /\ p[7] = [do |-> "start"] /\ ~(f.how = "lost" /\ f.at = 7)
  <2> SUFFICES ASSUME ir = OFF
               PROVE  7 <= n /\ p[7] = [do |-> "start"] /\ ~(f.how = "lost" /\ f.at = 7)
    OBVIOUS
  <2>1. PICK s \in Seq(A) : s = QuerySetUp
    BY <1>5
  <2>2. Len(s) = 7 /\ s[7] = [do |-> "start"] /\ looks = 8
    <3>1. s = IrSetUp
      BY <2>1, Zenon DEF QuerySetUp
    <3>2. looks = Len(s) + 1
      BY <2>1
    <3> HIDE DEF looks
    <3> QED
      BY <3>1, <3>2, SetUpEnds
  <2>3. PICK rest : /\ rest \in Seq(A)
                    /\ p = s \o IrRead \o rest
    <3>1. PICK rest : rest = (IF ~code THEN <<>>
                              ELSE IrRead \o (IF Fits(len, buf_len) THEN IrRead \o IrRefresh ELSE KeepUnfit))
      OBVIOUS
    <3>2. p = s \o IrRead \o rest
      BY <1>2, <2>1, <3>1 DEF QueryProgram
    <3>3. IrRead \in Seq(A) /\ IrRefresh \in Seq(A) /\ KeepUnfit \in Seq(A)
      <4>1. [do |-> "read"] \in A /\ [do |-> "clear"] \in A /\ [do |-> "start"] \in A
        BY <1>4 DEF AllSteps, IrSteps
      <4> QED
        BY <4>1 DEF IrRead, IrRefresh, KeepUnfit
    <3>4. rest \in Seq(A)
      <4>1. PICK r \in Seq(A), h \in Seq(A), k \in Seq(A) : r = IrRead /\ h = IrRefresh /\ k = KeepUnfit
        BY <3>3
      <4>2. <<>> \in Seq(A) /\ r \o (r \o h) \in Seq(A) /\ r \o k \in Seq(A)
        OBVIOUS
      <4> QED
        BY <3>1, <4>1, <4>2
    <3> QED
      BY <3>2, <3>4
  <2>4. Len(p) >= 8 /\ p[7] = s[7]
    <3>1. PICK r \in Seq(A) : r = IrRead /\ Len(r) = 1
      <4>1. PICK x \in A : x = [do |-> "read"]
        BY <1>4 DEF AllSteps, IrSteps
      <4>2. <<x>> \in Seq(A) /\ Len(<<x>>) = 1
        OBVIOUS
      <4> QED
        BY <4>1, <4>2 DEF IrRead
    <3>2. p = s \o r \o rest
      BY <2>3, <3>1
    <3>3. s \in Seq(A) /\ r \in Seq(A) /\ rest \in Seq(A) /\ Len(s) = 7 /\ Len(r) = 1
      BY <2>2, <2>3, <3>1
    <3>4. Len(s \o r \o rest) >= 8 /\ (s \o r \o rest)[7] = s[7]
      BY <3>3, SeventhStep, Zenon
    <3> QED
      BY <3>2, <3>4, Zenon
  <2>5. 7 <= n
    BY <1>6, <1>9, <2>2, <2>4
  <2>6. ~(f.how = "lost" /\ f.at = 7)
    BY <1>9, <2>2 DEF Reported
  <2> QED
    BY <2>2, <2>4, <2>5, <2>6
<1> HIDE DEF n
<1>11. Now \in States(fitted) /\ Now.ir = ir
  BY NowTyped DEF Now
<1>12. After(Now, p, n, f).ir = 0
  BY <1>4, <1>5, <1>6, <1>7, <1>9, <1>10, <1>11, ReceiverListens
<1> QED
  BY <1>8, <1>12 DEF Become

\* Whatever fails, no query takes a receiver for set up that is not, and that no later query
\* of the session would start; only the refresh after a code can, when it fails.
THEOREM ReceiversStart == Spec => ReceiverStarts
<1>1. TypeOK /\ [Next]_vars =>
        [rc_active' /\ ir' = OFF => (rc_active /\ ir = OFF) \/ (ir > 0 /\ faults' > faults)]_vars
  <2> SUFFICES ASSUME TypeOK, Next, rc_active', ir' = OFF, ~(rc_active /\ ir = OFF)
               PROVE  ir > 0 /\ faults' > faults
    OBVIOUS
  <2>1. ~\E n \in CodeLengths : Signal(n)
    BY DeviceAssumption DEF Signal, OFF
  <2>2. PICK buf_len \in BufferSizes : IrQuery(buf_len)
    <3>1. ~Still
      BY Zenon DEF Still
    <3> QED
      BY <2>1, <3>1, OthersKeepReceiver
  <2>3. ir \in {OFF, 0} \/ ir > 0
    <3>1. ir \in {OFF, 0} \cup CodeLengths
      BY DEF TypeOK
    <3>2. \A n \in CodeLengths : n > 0
      BY DeviceAssumption
    <3> QED
      BY <3>1, <3>2
  <2>4. CASE ir \in {OFF, 0}
    <3>1. ir = OFF => ~rc_active
      BY Zenon
    <3>2. ir' = 0
      BY <2>2, <2>4, <3>1, QueryListens
    <3> QED
      BY <3>2 DEF OFF
  <2>5. CASE ir > 0
    <3>1. faults' = faults \/ faults' > faults
      BY <2>2, QueryCounts
    <3>2. faults' = faults => ir' = ir \/ ir' = 0
      BY <2>2, <2>5, QueryKeepsCode
    <3> QED
      BY <2>5, <3>1, <3>2 DEF OFF
  <2> QED
    BY <2>3, <2>4, <2>5
<1> QED
  BY <1>1, DeviceTypes, PTL DEF Spec, ReceiverStarts

-----------------------------------------------------------------------------
(***************************************************************************)
(* The registers and the tuner after a program in which nothing fails.     *)
(***************************************************************************)
LEMMA ValuesAre ==
    /\ Value(BitsOf[0]) = 0 /\ Value(BitsOf[1]) = 1
    /\ Value(BitsOf[\h1a]) = \h1a /\ Value(BitsOf[\h1b]) = \h1b /\ Value(BitsOf[\h4d]) = \h4d
    /\ Value(BitsOf[\h80]) = \h80 /\ Value(BitsOf[\h90]) = \h90
<1>1. ASSUME NEW n \in 0..255
      PROVE  Value(BitsOf[n]) = Sum8(BitsOf[n])
  <2>1. BitsOf[n] \in SUBSET (0..7)
    BY BitsAre DEF Byte
  <2> QED
    BY <2>1, ValueIs
<1>2. /\ Sum8(BitsOf[0]) = 0 /\ Sum8(BitsOf[1]) = 1
      /\ Sum8(BitsOf[\h1a]) = \h1a /\ Sum8(BitsOf[\h1b]) = \h1b /\ Sum8(BitsOf[\h4d]) = \h4d
  BY BitsAre DEF Sum8
<1>3. Sum8(BitsOf[\h80]) = \h80 /\ Sum8(BitsOf[\h90]) = \h90
  BY BitsAre DEF Sum8
<1>4. /\ 0 \in 0..255 /\ 1 \in 0..255 /\ \h1a \in 0..255 /\ \h1b \in 0..255 /\ \h4d \in 0..255 /\ \h80 \in 0..255
      /\ \h90 \in 0..255
  OBVIOUS
<1> QED
  BY <1>1, <1>2, <1>3, <1>4

LEMMA BitsHere ==
    /\ 3 \in BitsOf[\h18] /\ 3 \notin BitsOf[\h10] /\ 3 \notin BitsOf[\h14]
    /\ 7 \in BitsOf[\he8] /\ 7 \notin BitsOf[\h20]
    /\ 0 \in BitsOf[1] /\ 0 \notin BitsOf[0]
BY BitsAre

\* t is s with the byte v in the register r.
Put(s, t, r, v) ==
    /\ t.regs = [s.regs EXCEPT ![r] = BitsOf[v]]
    /\ t.tuner = s.tuner /\ t.missed = s.missed

\* c is the program e and the step x.
Extended(c, e, x) == c = e \o <<x>>

LEMMA AddWrite ==
    ASSUME NEW fit, NEW s, NEW u, NEW m, RunsTo(fit, s, u, m), NEW r \in RegNames, NEW v \in 0..255,
           NEW c, Extended(c, u, Write(r, v))
    PROVE  \E t : RunsTo(fit, s, c, t) /\ Put(m, t, r, v)
<1>1. PICK x, p : x = Write(r, v) /\ p = <<x>>
  OBVIOUS
<1>2. /\ x \in RegSteps /\ x \in AllSteps(fit) /\ x.reg = r /\ x.val = BitsOf[v] /\ x.mask = 0..7
  BY <1>1, WriteIs, SMTT(90) DEF AllSteps, Spoken
<1>3. m \in States(fit) /\ m.regs \in [RegNames -> Byte]
  BY DEF RunsTo, States
<1>4. PICK t : t = Do(m, x)
  OBVIOUS
<1>5. RunsTo(fit, m, p, t)
  BY <1>1, <1>2, <1>3, <1>4, RunOne
<1>6. RunsTo(fit, s, c, t)
  <2>1. c = u \o p
    BY <1>1 DEF Extended
  <2> QED
    BY <1>5, <2>1, RunJoin
<1>7. /\ t.regs = [m.regs EXCEPT ![r] = (m.regs[r] \ (0..7)) \cup (BitsOf[v] \cap (0..7))]
      /\ t.tuner = m.tuner /\ t.missed = m.missed
  BY <1>2, <1>3, <1>4, DoRegister
<1>8. (m.regs[r] \ (0..7)) \cup (BitsOf[v] \cap (0..7)) = BitsOf[v]
  <2>1. m.regs[r] \in Byte /\ BitsOf[v] \in Byte
    BY <1>3, BitsAre
  <2> QED
    BY <2>1 DEF Byte
<1> QED
  BY <1>6, <1>7, <1>8 DEF Put

\* t is s with the bits k of the register r those of v.
PutBits(s, t, r, v, k) ==
    /\ t.regs = [s.regs EXCEPT ![r] = (s.regs[r] \ BitsOf[k]) \cup (BitsOf[v] \cap BitsOf[k])]
    /\ t.tuner = s.tuner /\ t.missed = s.missed

LEMMA AddMask ==
    ASSUME NEW fit, NEW s, NEW u, NEW m, RunsTo(fit, s, u, m), NEW r \in RegNames, NEW v \in 0..255, NEW k \in 0..255,
           NEW c, Extended(c, u, Mask(r, v, k))
    PROVE  \E t : RunsTo(fit, s, c, t) /\ PutBits(m, t, r, v, k)
<1>1. PICK x, p : x = Mask(r, v, k) /\ p = <<x>>
  OBVIOUS
<1>2. /\ x \in RegSteps /\ x \in AllSteps(fit) /\ x.reg = r /\ x.val = BitsOf[v] /\ x.mask = BitsOf[k]
  <2>1. x \in RegSteps /\ x.reg = r /\ x.val = BitsOf[v] /\ x.mask = BitsOf[k]
    <3>1. BitsOf[v] \in Byte /\ BitsOf[k] \in Byte
      BY BitsAre
    <3> QED
      BY <1>1, <3>1 DEF Mask, RegSteps
  <2> QED
    BY <2>1 DEF AllSteps, Spoken
<1>3. m \in States(fit)
  BY DEF RunsTo
<1>4. PICK t : t = Do(m, x)
  OBVIOUS
<1>5. RunsTo(fit, m, p, t)
  BY <1>1, <1>2, <1>3, <1>4, RunOne
<1>6. RunsTo(fit, s, c, t)
  <2>1. c = u \o p
    BY <1>1 DEF Extended
  <2> QED
    BY <1>5, <2>1, RunJoin
<1>7. /\ t.regs = [m.regs EXCEPT ![x.reg] = (m.regs[x.reg] \ x.mask) \cup (x.val \cap x.mask)]
      /\ t.tuner = m.tuner /\ t.missed = m.missed
  BY <1>2, <1>3, <1>4, DoRegister
<1> QED
  BY <1>2, <1>6, <1>7 DEF PutBits

\* The tuner has heard the word.
Said(word, was) == IF word = "init" THEN "ready" ELSE IF word = "exit" THEN "standby" ELSE was

Told(s, t, word) == t.regs = s.regs /\ t.missed = s.missed /\ t.tuner = Said(word, s.tuner)

LEMMA AddTuner ==
    ASSUME NEW fit, NEW s, NEW u, NEW m, RunsTo(fit, s, u, m), Hears(m),
           NEW word, Tuner(word) \in Sayable(fit), NEW c, Extended(c, u, Tuner(word))
    PROVE  \E t : RunsTo(fit, s, c, t) /\ Told(m, t, word)
<1>1. PICK x, p : x = Tuner(word) /\ p = <<x>>
  OBVIOUS
<1>2. x \in AllSteps(fit)
  BY <1>1 DEF AllSteps, Spoken
<1>3. m \in States(fit) /\ word \in {"probe", "init", "exit", "set"}
  BY DEF RunsTo, Sayable, Tuner
<1>4. PICK t : t = Do(m, x)
  OBVIOUS
<1>5. RunsTo(fit, m, p, t)
  BY <1>1, <1>2, <1>3, <1>4, RunOne
<1>6. RunsTo(fit, s, c, t)
  <2>1. c = u \o p
    BY <1>1 DEF Extended
  <2> QED
    BY <1>5, <2>1, RunJoin
<1>7. Told(m, t, word)
  BY <1>1, <1>3, <1>4, DoWord DEF Said, Told
<1> QED
  BY <1>6, <1>7

\* A word through the repeater, for a tuner that may be unknown.
Heard(s, t, type, word) ==
    /\ t.missed = s.missed
    /\ t.tuner = IF Known(type) THEN Said(word, s.tuner) ELSE s.tuner
    /\ t.regs = IF Known(type) THEN [s.regs EXCEPT !["1:01"] = BitsOf[\h10]] ELSE s.regs

LEMMA WordRuns ==
    ASSUME NEW fit, NEW m \in States(fit), 7 \in m.regs["DEMOD_CTL"],
           NEW type, type \in {fit, "unknown"}, NEW word \in {"init", "exit", "set"}
    PROVE  \E t : RunsTo(fit, m, Words(type, word), t) /\ Heard(m, t, type, word)
<1>a. "1:01" \in RegNames /\ "DEMOD_CTL" \in RegNames /\ \h18 \in 0..255 /\ \h10 \in 0..255
  BY RegNamesAre
<1>b. m \in States(fit) /\ m.regs \in [RegNames -> Byte]
  BY DEF States
<1>1. CASE ~Known(type)
  <2>1. PICK p : p = <<>>
    OBVIOUS
  <2>2. RunsTo(fit, m, p, m)
    BY <1>b, <2>1, RunNothing
  <2>3. p = Words(type, word)
    BY <1>1, <2>1 DEF Words
  <2> QED
    BY <1>1, <2>2, <2>3 DEF Heard
<1>2. CASE Known(type)
  <2>1. PICK p, q, r, n : /\ p = <<>> /\ Extended(q, p, Write("1:01", \h18))
                          /\ Extended(r, q, Tuner(word)) /\ Extended(n, r, Write("1:01", \h10))
    BY DEF Extended
  <2>2. RunsTo(fit, m, p, m)
    BY <1>b, <2>1, RunNothing
  <2>3. PICK a : RunsTo(fit, m, q, a) /\ Put(m, a, "1:01", \h18)
    BY <1>a, <2>1, <2>2, AddWrite
  <2>4. Hears(a)
    BY <1>a, <1>b, <2>3, BitsHere DEF Put, Hears
  <2>5. Tuner(word) \in Sayable(fit)
    BY <1>2, SayIs
  <2>6. PICK b : RunsTo(fit, m, r, b) /\ Told(a, b, word)
    BY <2>1, <2>3, <2>4, <2>5, AddTuner
  <2>7. PICK t : RunsTo(fit, m, n, t) /\ Put(b, t, "1:01", \h10)
    BY <1>a, <2>1, <2>6, AddWrite
  <2>8. n = Words(type, word)
    <3>1. PICK x, y, z : x = Write("1:01", \h18) /\ y = Tuner(word) /\ z = Write("1:01", \h10)
      OBVIOUS
    <3>2. Words(type, word) = <<x>> \o <<y>> \o <<z>>
      BY <1>2, <3>1 DEF Words, Bracket, Repeater
    <3>3. n = <<>> \o <<x>> \o <<y>> \o <<z>>
      BY <2>1, <3>1 DEF Extended
    <3> QED
      BY <3>2, <3>3
  <2>10. Heard(m, t, type, word)
    BY <1>2, <1>a, <1>b, <2>3, <2>6, <2>7 DEF Heard, Put, Told
  <2> QED
    BY <2>7, <2>8, <2>10
<1> QED
  BY <1>1, <1>2
LEMMA AddWord ==
    ASSUME NEW fit, NEW s, NEW u, NEW m, RunsTo(fit, s, u, m), 7 \in m.regs["DEMOD_CTL"],
           NEW type, type \in {fit, "unknown"}, NEW word \in {"init", "exit", "set"},
           NEW c, Joined(c, u, Words(type, word))
    PROVE  \E t : RunsTo(fit, s, c, t) /\ Heard(m, t, type, word)
<1>1. m \in States(fit)
  BY DEF RunsTo
<1>2. PICK t : RunsTo(fit, m, Words(type, word), t) /\ Heard(m, t, type, word)
  BY <1>1, WordRuns
<1> QED
  BY <1>2, RunJoin DEF Joined


-----------------------------------------------------------------------------
(***************************************************************************)
(* The mode of the demodulator and of the tuner.                           *)
(***************************************************************************)
\* ModeAgrees, of a state of the chip.
QuadratureIn(s, type) ==
    /\ Value(s.regs["1:b1"]) = IF type \in R82xx THEN \h1a ELSE \h1b
    /\ Value(s.regs["1:15"]) = IF type \in R82xx THEN 1 ELSE 0
    /\ type \in R82xx => Value(s.regs["0:08"]) = \h4d
    /\ Value(s.regs["0:06"]) = \h80
    /\ Known(type) => s.tuner = "ready"
DirectIn(s, ds) ==
    /\ Value(s.regs["1:b1"]) = \h1a /\ Value(s.regs["1:15"]) = 0 /\ Value(s.regs["0:08"]) = \h4d
    /\ Value(s.regs["0:06"]) = IF ds = 2 THEN \h90 ELSE \h80
    /\ s.tuner # "ready"
ModeIn(s, type, ds) == IF ds = 0 THEN QuadratureIn(s, type) ELSE DirectIn(s, ds)
Idle(s) == ~s.missed /\ 3 \notin s.regs["1:01"] /\ 7 \in s.regs["DEMOD_CTL"]

LEMMA TwoWrites ==
    ASSUME NEW A, NEW e \in Seq(A), NEW x1 \in A, NEW x2 \in A,
           NEW c1, Extended(c1, e, x1), NEW c2, Extended(c2, c1, x2)
    PROVE  c2 = e \o <<x1, x2>> /\ c2 \in Seq(A)
<1>1. c1 = Append(e, x1) /\ c1 \in Seq(A)
  BY DEF Extended
<1>2. c2 = Append(c1, x2) /\ c2 \in Seq(A)
  BY <1>1 DEF Extended
<1> QED
  BY <1>1, <1>2

LEMMA FourWrites ==
    ASSUME NEW A, NEW e \in Seq(A), NEW x1 \in A, NEW x2 \in A, NEW x3 \in A, NEW x4 \in A,
           NEW c1, Extended(c1, e, x1), NEW c2, Extended(c2, c1, x2),
           NEW c3, Extended(c3, c2, x3), NEW c4, Extended(c4, c3, x4)
    PROVE  c4 = e \o <<x1, x2, x3, x4>>
<1>1. c1 = Append(e, x1) /\ c1 \in Seq(A)
  BY DEF Extended
<1>2. c2 = Append(c1, x2) /\ c2 \in Seq(A)
  BY <1>1 DEF Extended
<1>3. c3 = Append(c2, x3) /\ c3 \in Seq(A)
  BY <1>2 DEF Extended
<1>4. c4 = Append(c3, x4)
  BY <1>3 DEF Extended
<1> QED
  BY <1>1, <1>2, <1>3, <1>4

\* What a word with the tuner leaves as it was.
SameMode(s, t) ==
    /\ t.missed = s.missed
    /\ \A r \in RegNames \ {"1:01"} : t.regs[r] = s.regs[r]

\* The repeater is off after a word, or there was none.
LEMMA WordLeaves ==
    ASSUME NEW fit, NEW s \in States(fit), NEW t, NEW type, NEW word, Heard(s, t, type, word)
    PROVE  /\ SameMode(s, t)
           /\ 3 \notin s.regs["1:01"] => 3 \notin t.regs["1:01"]
           /\ ~Known(type) => t.regs["1:01"] = s.regs["1:01"]
<1>1. s.regs \in [RegNames -> Byte] /\ "1:01" \in RegNames
  BY RegNamesAre DEF States
<1> QED
  BY <1>1, BitsHere DEF Heard, SameMode

\* rtlsdr_set_direct_sampling with on > 0.
LEMMA EnterRuns ==
    ASSUME NEW fit, NEW s \in States(fit), NEW type, type \in {fit, "unknown"}, NEW on \in {1, 2},
           7 \in s.regs["DEMOD_CTL"], Known(type) \/ s.tuner # "ready"
    PROVE  \E t : /\ RunsTo(fit, s, EnterDirect(type, on), t)
                  /\ t.missed = s.missed /\ DirectIn(t, on)
                  /\ 7 \in t.regs["DEMOD_CTL"]
                  /\ 3 \notin s.regs["1:01"] => 3 \notin t.regs["1:01"]
<1> DEFINE last == IF on > 1 THEN \h90 ELSE \h80
<1>1. /\ "1:b1" \in RegNames /\ "1:15" \in RegNames /\ "0:08" \in RegNames /\ "0:06" \in RegNames
      /\ "1:01" \in RegNames /\ "DEMOD_CTL" \in RegNames
      /\ \h1a \in 0..255 /\ 0 \in 0..255 /\ \h4d \in 0..255 /\ last \in 0..255
  BY RegNamesAre
<1> HIDE DEF last
<1>2. PICK w : w = Words(type, "exit")
  OBVIOUS
<1>4. PICK m : RunsTo(fit, s, w, m) /\ Heard(s, m, type, "exit")
  BY <1>2, WordRuns
<1>5. PICK x1, x2, x3, x4 : /\ x1 = Write("1:b1", \h1a) /\ x2 = Write("1:15", 0) /\ x3 = Write("0:08", \h4d)
                            /\ x4 = Write("0:06", last)
  OBVIOUS
<1>6. PICK c1, c2, c3, c4 : Extended(c1, w, x1) /\ Extended(c2, c1, x2) /\ Extended(c3, c2, x3) /\ Extended(c4, c3, x4)
  BY DEF Extended
<1>7. PICK t1 : RunsTo(fit, s, c1, t1) /\ Put(m, t1, "1:b1", \h1a)
  BY <1>1, <1>4, <1>5, <1>6, AddWrite
<1>8. PICK t2 : RunsTo(fit, s, c2, t2) /\ Put(t1, t2, "1:15", 0)
  BY <1>1, <1>5, <1>6, <1>7, AddWrite
<1>9. PICK t3 : RunsTo(fit, s, c3, t3) /\ Put(t2, t3, "0:08", \h4d)
  BY <1>1, <1>5, <1>6, <1>8, AddWrite
<1>10. PICK t4 : RunsTo(fit, s, c4, t4) /\ Put(t3, t4, "0:06", last)
  BY <1>1, <1>5, <1>6, <1>9, AddWrite
<1>11. c4 = EnterDirect(type, on)
  <2>1. PICK A : A = AllSteps(fit)
    OBVIOUS
  <2>2. w \in Seq(A)
    BY <1>4, <2>1 DEF RunsTo
  <2>3. x1 \in A /\ x2 \in A /\ x3 \in A /\ x4 \in A
    BY <1>1, <1>5, <2>1, WriteIs, ZenonT(40) DEF AllSteps, Spoken
  <2>4. Extended(c1, w, x1) /\ Extended(c2, c1, x2) /\ Extended(c3, c2, x3) /\ Extended(c4, c3, x4)
    BY <1>6
  <2>5. c4 = w \o <<x1, x2, x3, x4>>
    BY <2>2, <2>3, <2>4, FourWrites
  <2> QED
    BY <1>2, <1>5, <2>5 DEF EnterDirect, last
<1>12. /\ m.regs \in [RegNames -> Byte] /\ t1.regs \in [RegNames -> Byte] /\ t2.regs \in [RegNames -> Byte]
       /\ t3.regs \in [RegNames -> Byte] /\ t4.regs \in [RegNames -> Byte]
  BY <1>4, <1>7, <1>8, <1>9, <1>10 DEF RunsTo, States
<1>13. /\ t4.regs["1:b1"] = BitsOf[\h1a] /\ t4.regs["1:15"] = BitsOf[0] /\ t4.regs["0:08"] = BitsOf[\h4d]
       /\ t4.regs["0:06"] = BitsOf[last]
       /\ t4.regs["1:01"] = m.regs["1:01"] /\ t4.regs["DEMOD_CTL"] = m.regs["DEMOD_CTL"]
       /\ t4.tuner = m.tuner /\ t4.missed = m.missed
  BY <1>1, <1>7, <1>8, <1>9, <1>10, <1>12 DEF Put
<1>14. /\ SameMode(s, m) /\ (3 \notin s.regs["1:01"] => 3 \notin m.regs["1:01"]) /\ m.tuner # "ready"
  <2>1. m.tuner # "ready"
    BY <1>4 DEF Heard, Said
  <2> QED
    BY <1>4, <2>1, WordLeaves
<1>15. Value(BitsOf[last]) = IF on = 2 THEN \h90 ELSE \h80
  BY ValuesAre DEF last
<1> QED
  BY <1>1, <1>10, <1>11, <1>13, <1>14, <1>15, ValuesAre DEF DirectIn, SameMode

\* rtlsdr_set_direct_sampling with 0.
LEMMA LeaveRuns ==
    ASSUME NEW fit, NEW s \in States(fit), NEW type, type \in {fit, "unknown"}, NEW ds, ModeIn(s, type, ds), Idle(s)
    PROVE  \E t : RunsTo(fit, s, LeaveDirect(type), t) /\ QuadratureIn(t, type) /\ Idle(t)
<1>1. /\ "1:b1" \in RegNames /\ "1:15" \in RegNames /\ "0:08" \in RegNames /\ "0:06" \in RegNames
      /\ "1:01" \in RegNames /\ "DEMOD_CTL" \in RegNames
      /\ \h1b \in 0..255 /\ 1 \in 0..255 /\ \hcd \in 0..255 /\ \h80 \in 0..255
  BY RegNamesAre
<1>2. /\ type \in R82xx => Value(s.regs["1:b1"]) = \h1a /\ Value(s.regs["0:08"]) = \h4d
      /\ type \notin R82xx => Value(s.regs["1:15"]) = 0
      /\ ~s.missed /\ 3 \notin s.regs["1:01"] /\ 7 \in s.regs["DEMOD_CTL"]
  BY DEF ModeIn, QuadratureIn, DirectIn, Idle
<1>3. PICK w : w = Words(type, "init")
  OBVIOUS
<1>4. PICK m : RunsTo(fit, s, w, m) /\ Heard(s, m, type, "init")
  BY <1>2, <1>3, WordRuns
<1>5. SameMode(s, m) /\ 3 \notin m.regs["1:01"] /\ (Known(type) => m.tuner = "ready")
  BY <1>2, <1>4, WordLeaves DEF Heard, Said
<1>6. m.regs \in [RegNames -> Byte]
  BY <1>4 DEF RunsTo, States
<1>7. PICK x, y : x = Write("0:06", \h80) /\ y = Words(type, "set")
  OBVIOUS
<1>8. ASSUME NEW c, NEW n, RunsTo(fit, s, c, n), SameMode(s, m), n.missed = m.missed, n.tuner = m.tuner,
             n.regs["1:01"] = m.regs["1:01"], n.regs["DEMOD_CTL"] = m.regs["DEMOD_CTL"],
             Value(n.regs["1:b1"]) = IF type \in R82xx THEN \h1a ELSE \h1b,
             Value(n.regs["1:15"]) = IF type \in R82xx THEN 1 ELSE 0,
             type \in R82xx => Value(n.regs["0:08"]) = \h4d,
             (c \o <<x>>) \o y = LeaveDirect(type)
      PROVE  \E t : RunsTo(fit, s, LeaveDirect(type), t) /\ QuadratureIn(t, type) /\ Idle(t)
  <2>1. PICK d, e : Extended(d, c, x) /\ Joined(e, d, y)
    BY DEF Extended, Joined
  <2>2. PICK k : RunsTo(fit, s, d, k) /\ Put(n, k, "0:06", \h80)
    <3>1. RunsTo(fit, s, c, n)
      BY <1>8
    <3>2. Extended(d, c, Write("0:06", \h80))
      BY <1>7, <2>1
    <3>3. "0:06" \in RegNames /\ \h80 \in 0..255
      BY <1>1
    <3> QED
      BY <3>1, <3>2, <3>3, AddWrite
  <2>3. n.regs \in [RegNames -> Byte] /\ k.regs \in [RegNames -> Byte] /\ k \in States(fit)
    BY <1>8, <2>2 DEF RunsTo, States
  <2>4. /\ k.regs["0:06"] = BitsOf[\h80]
        /\ \A r \in RegNames \ {"0:06"} : k.regs[r] = n.regs[r]
        /\ k.tuner = n.tuner /\ k.missed = n.missed
    BY <1>1, <2>2, <2>3 DEF Put
  <2>5. 7 \in k.regs["DEMOD_CTL"] /\ ~k.missed /\ 3 \notin k.regs["1:01"]
    BY <1>1, <1>2, <1>5, <1>8, <2>4 DEF SameMode
  <2>6. PICK t : RunsTo(fit, s, e, t) /\ Heard(k, t, type, "set")
    BY <1>7, <2>1, <2>2, <2>5, AddWord
  <2>7. SameMode(k, t) /\ 3 \notin t.regs["1:01"] /\ t.tuner = k.tuner
    BY <2>3, <2>5, <2>6, WordLeaves DEF Heard, Said
  <2>8. Idle(t)
    BY <1>1, <2>5, <2>7 DEF Idle, SameMode
  <2>9. /\ t.regs["1:b1"] = n.regs["1:b1"] /\ t.regs["1:15"] = n.regs["1:15"] /\ t.regs["0:08"] = n.regs["0:08"]
        /\ t.regs["0:06"] = BitsOf[\h80]
    BY <1>1, <2>4, <2>7 DEF SameMode
  <2>10. QuadratureIn(t, type)
    BY <1>5, <1>8, <2>4, <2>7, <2>9, ValuesAre DEF QuadratureIn
  <2>11. e = LeaveDirect(type)
    BY <1>8, <2>1 DEF Extended, Joined
  <2> QED
    BY <2>6, <2>8, <2>10, <2>11
<1>9. CASE type \in R82xx
  <2>1. PICK z, c : z = Write("1:15", 1) /\ Extended(c, w, z)
    BY DEF Extended
  <2>2. PICK n : RunsTo(fit, s, c, n) /\ Put(m, n, "1:15", 1)
    BY <1>1, <1>4, <2>1, AddWrite
  <2>3. /\ n.regs["1:15"] = BitsOf[1]
        /\ n.regs["1:b1"] = s.regs["1:b1"] /\ n.regs["0:08"] = s.regs["0:08"]
        /\ n.regs["1:01"] = m.regs["1:01"] /\ n.regs["DEMOD_CTL"] = m.regs["DEMOD_CTL"]
        /\ n.missed = m.missed /\ n.tuner = m.tuner
    BY <1>1, <1>5, <1>6, <2>2 DEF Put, SameMode
  <2>4. (c \o <<x>>) \o y = LeaveDirect(type)
    BY <1>3, <1>7, <1>9, <2>1 DEF LeaveDirect, Extended
  <2> QED
    BY <1>2, <1>5, <1>8, <1>9, <2>2, <2>3, <2>4, ValuesAre, SMTT(30)
<1>10. CASE type \notin R82xx
  <2>1. PICK z1, z2, b, c : z1 = Write("0:08", \hcd) /\ z2 = Write("1:b1", \h1b) /\ Extended(b, w, z1) /\ Extended(c, b, z2)
    BY DEF Extended
  <2>2. PICK k : RunsTo(fit, s, b, k) /\ Put(m, k, "0:08", \hcd)
    BY <1>1, <1>4, <2>1, AddWrite
  <2>3. PICK n : RunsTo(fit, s, c, n) /\ Put(k, n, "1:b1", \h1b)
    BY <1>1, <2>1, <2>2, AddWrite
  <2>4. k.regs \in [RegNames -> Byte]
    BY <2>2 DEF RunsTo, States
  <2>5. /\ n.regs["1:b1"] = BitsOf[\h1b] /\ n.regs["1:15"] = s.regs["1:15"]
        /\ n.regs["1:01"] = m.regs["1:01"] /\ n.regs["DEMOD_CTL"] = m.regs["DEMOD_CTL"]
        /\ n.missed = m.missed /\ n.tuner = m.tuner
    BY <1>1, <1>5, <1>6, <2>2, <2>3, <2>4 DEF Put, SameMode
  <2>6. c = w \o <<z1, z2>>
    <3>1. PICK A : A = AllSteps(fit)
      OBVIOUS
    <3>2. w \in Seq(A)
      BY <1>4, <3>1 DEF RunsTo
    <3>3. z1 \in A /\ z2 \in A
      <4>1. z1 \in RegSteps
        BY <1>1, <2>1, WriteIs
      <4>2. z2 \in RegSteps
        BY <1>1, <2>1, WriteIs
      <4> QED
        BY <3>1, <4>1, <4>2 DEF AllSteps, Spoken
    <3>4. Extended(b, w, z1) /\ Extended(c, b, z2)
      BY <2>1
    <3> QED
      BY <3>2, <3>3, <3>4, TwoWrites
  <2>7. (c \o <<x>>) \o y = LeaveDirect(type)
    BY <1>3, <1>7, <1>10, <2>1, <2>6 DEF LeaveDirect
  <2> QED
    BY <1>2, <1>5, <1>8, <1>10, <2>3, <2>5, <2>7, ValuesAre, SMTT(30)
<1> QED
  BY <1>9, <1>10

\* The gains and the sample rate.
LEMMA GainRuns ==
    ASSUME NEW fit, NEW s \in States(fit), NEW type, type \in {fit, "unknown"}, NEW ds, ModeIn(s, type, ds), Idle(s)
    PROVE  \E t : RunsTo(fit, s, Words(type, "set"), t) /\ ModeIn(t, type, ds) /\ Idle(t)
<1>1. ~s.missed /\ 3 \notin s.regs["1:01"] /\ 7 \in s.regs["DEMOD_CTL"]
  BY DEF Idle
<1>2. PICK t : RunsTo(fit, s, Words(type, "set"), t) /\ Heard(s, t, type, "set")
  BY <1>1, WordRuns
<1>3. SameMode(s, t) /\ 3 \notin t.regs["1:01"] /\ t.tuner = s.tuner
  BY <1>1, <1>2, WordLeaves DEF Heard, Said
<1>4. /\ t.regs["1:b1"] = s.regs["1:b1"] /\ t.regs["1:15"] = s.regs["1:15"] /\ t.regs["0:08"] = s.regs["0:08"]
      /\ t.regs["0:06"] = s.regs["0:06"] /\ t.regs["DEMOD_CTL"] = s.regs["DEMOD_CTL"] /\ t.missed = s.missed
  BY <1>3, RegNamesAre DEF SameMode
<1>5. ModeIn(t, type, ds) /\ Idle(t)
  BY <1>1, <1>3, <1>4 DEF ModeIn, QuadratureIn, DirectIn, Idle
<1> QED
  BY <1>2, <1>5

LEMMA RateRuns ==
    ASSUME NEW fit, NEW s \in States(fit), NEW type, type \in {fit, "unknown"}, NEW ds, ModeIn(s, type, ds), Idle(s)
    PROVE  \E t : /\ RunsTo(fit, s, Words(type, "set") \o <<Write("1:01", \h14), Write("1:01", \h10)>>, t)
                  /\ ModeIn(t, type, ds) /\ Idle(t)
<1>1. PICK w : w = Words(type, "set")
  OBVIOUS
<1>2. PICK m : RunsTo(fit, s, w, m) /\ ModeIn(m, type, ds) /\ Idle(m)
  BY <1>1, GainRuns
<1>3. PICK x, y, b, c : x = Write("1:01", \h14) /\ y = Write("1:01", \h10) /\ Extended(b, w, x) /\ Extended(c, b, y)
  BY DEF Extended
<1>4. "1:01" \in RegNames /\ \h14 \in 0..255 /\ \h10 \in 0..255
  BY RegNamesAre
<1>5. PICK k : RunsTo(fit, s, b, k) /\ Put(m, k, "1:01", \h14)
  BY <1>2, <1>3, <1>4, AddWrite
<1>6. PICK t : RunsTo(fit, s, c, t) /\ Put(k, t, "1:01", \h10)
  BY <1>3, <1>4, <1>5, AddWrite
<1>7. m.regs \in [RegNames -> Byte] /\ k.regs \in [RegNames -> Byte]
  BY <1>2, <1>5 DEF RunsTo, States
<1>8. /\ t.regs["1:b1"] = m.regs["1:b1"] /\ t.regs["1:15"] = m.regs["1:15"] /\ t.regs["0:08"] = m.regs["0:08"]
      /\ t.regs["0:06"] = m.regs["0:06"] /\ t.regs["DEMOD_CTL"] = m.regs["DEMOD_CTL"] /\ t.missed = m.missed
      /\ t.tuner = m.tuner /\ t.regs["1:01"] = BitsOf[\h10]
  BY <1>4, <1>5, <1>6, <1>7, RegNamesAre DEF Put
<1>9. ModeIn(t, type, ds) /\ Idle(t)
  BY <1>2, <1>8, BitsHere DEF ModeIn, QuadratureIn, DirectIn, Idle
<1>10. c = w \o <<x, y>>
  <2>1. PICK A : A = AllSteps(fit)
    OBVIOUS
  <2>2. w \in Seq(A)
    BY <1>2, <2>1 DEF RunsTo
  <2>3. x \in A /\ y \in A
    <3>1. x \in RegSteps
      BY <1>3, <1>4, WriteIs
    <3>2. y \in RegSteps
      BY <1>3, <1>4, WriteIs
    <3> QED
      BY <2>1, <3>1, <3>2 DEF AllSteps, Spoken
  <2>4. Extended(b, w, x) /\ Extended(c, b, y)
    BY <1>3
  <2> QED
    BY <2>2, <2>3, <2>4, TwoWrites
<1> QED
  BY <1>1, <1>3, <1>6, <1>9, <1>10

\* What the calls that are not about the mode leave alone.
ModeRegs == {"1:01", "1:15", "1:b1", "0:06", "0:08"}

LEMMA ModeIsOthers ==
    ASSUME NEW op \in {"bias", "testmode", "agc", "ir"}
    PROVE  /\ \A r \in ModeRegs : Others[op][r] = 0..7
           /\ 7 \in Others[op]["DEMOD_CTL"]
<1>1. op \in DOMAIN Owned /\ ModeRegs \subseteq RegNames /\ "DEMOD_CTL" \in RegNames
  BY OwnedAre, RegNamesAre DEF ModeRegs
<1>2. \A r \in RegNames : Others[op][r] = {b \in 0..7 : \A x \in Owned[op] : x[1] = r => b \notin BitsOf[x[2]]}
  BY <1>1 DEF Others
<1>3. \A x \in Owned[op] : x[1] \notin ModeRegs /\ (x[1] = "DEMOD_CTL" => x[2] = 12)
  <2>1. CASE op = "ir"
    BY <2>1 DEF Owned, ModeRegs, Usbb, UsbbName
  <2>2. CASE op # "ir"
    BY <2>2 DEF Owned, ModeRegs
  <2> QED
    BY <2>1, <2>2
<1>4. 7 \notin BitsOf[12]
  BY BitsAre
<1> QED
  BY <1>1, <1>2, <1>3, <1>4

\* t is in the mode of s.
Framed(s, t) ==
    /\ \A r \in ModeRegs : t.regs[r] = s.regs[r]
    /\ 7 \in s.regs["DEMOD_CTL"] => 7 \in t.regs["DEMOD_CTL"]
    /\ t.tuner = s.tuner /\ t.missed = s.missed

LEMMA FrameRuns ==
    ASSUME NEW fit, NEW s \in States(fit), NEW op \in {"bias", "testmode", "agc", "ir"},
           NEW p \in Seq(Own(op) \cup IrSteps)
    PROVE  Run(s, p) \in States(fit) /\ Framed(s, Run(s, p))
<1> DEFINE S == {u \in States(fit) : Framed(s, u)}
<1>1. s \in S
  BY DEF Framed
<1>2. ASSUME NEW was \in S, NEW x \in Own(op)
      PROVE  Do(was, x) \in S
  <2>1. x \in RegSteps /\ x.reg \in RegNames /\ x.mask \in Byte /\ x.mask \cap Others[op][x.reg] = {}
    BY DEF Own, RegSteps
  <2>2. was \in States(fit) /\ was.regs \in [RegNames -> Byte] /\ Framed(s, was)
    BY DEF States
  <2>3. Do(was, x) \in States(fit)
    BY <2>1, <2>2, DoTyped DEF AllSteps, Spoken
  <2>4. /\ Do(was, x).regs = [was.regs EXCEPT ![x.reg] = (was.regs[x.reg] \ x.mask) \cup (x.val \cap x.mask)]
        /\ Do(was, x).tuner = was.tuner /\ Do(was, x).missed = was.missed
    BY <2>1, <2>2, DoRegister
  <2>5. ASSUME NEW r \in ModeRegs
        PROVE  Do(was, x).regs[r] = was.regs[r]
    <3>1. r \in RegNames
      BY RegNamesAre DEF ModeRegs
    <3>2. CASE r = x.reg
      <4>1. x.mask = {}
        BY <2>1, <3>2, ModeIsOthers DEF Byte
      <4> QED
        BY <2>2, <2>4, <3>1, <3>2, <4>1
    <3> QED
      BY <2>2, <2>4, <3>1, <3>2
  <2>6. 7 \in was.regs["DEMOD_CTL"] => 7 \in Do(was, x).regs["DEMOD_CTL"]
    <3>1. CASE x.reg = "DEMOD_CTL"
      <4>1. 7 \notin x.mask
        BY <2>1, <3>1, ModeIsOthers
      <4> QED
        BY <2>2, <2>4, <3>1, <4>1, RegNamesAre
    <3> QED
      BY <2>2, <2>4, <3>1, RegNamesAre
  <2> QED
    BY <2>2, <2>3, <2>4, <2>5, <2>6 DEF Framed
<1>3. ASSUME NEW was \in S, NEW x \in IrSteps
      PROVE  Do(was, x) \in S
  <2>1. was \in States(fit) /\ Framed(s, was)
    OBVIOUS
  <2>2. Do(was, x) \in States(fit)
    BY <2>1, DoTyped DEF AllSteps
  <2>3. Do(was, x).regs = was.regs /\ Do(was, x).tuner = was.tuner /\ Do(was, x).missed = was.missed
    BY <2>1, DoIr
  <2> QED
    BY <2>1, <2>2, <2>3 DEF Framed
<1> HIDE DEF S
<1>4. PICK A : A = Own(op) \cup IrSteps
  OBVIOUS
<1>5. \A x \in A : \A was \in S : Do(was, x) \in S
  BY <1>2, <1>3, <1>4
<1>6. Run(s, p) \in S
  BY <1>1, <1>4, <1>5, RunStays
<1> QED
  BY <1>6 DEF S

LEMMA FrameKeepsMode ==
    ASSUME NEW s, NEW t, Framed(s, t), NEW type, NEW ds, ModeIn(s, type, ds), Idle(s)
    PROVE  ModeIn(t, type, ds) /\ Idle(t)
<1>1. /\ t.regs["1:01"] = s.regs["1:01"] /\ t.regs["1:15"] = s.regs["1:15"] /\ t.regs["1:b1"] = s.regs["1:b1"]
      /\ t.regs["0:06"] = s.regs["0:06"] /\ t.regs["0:08"] = s.regs["0:08"]
      /\ t.tuner = s.tuner /\ t.missed = s.missed
      /\ 7 \in s.regs["DEMOD_CTL"] => 7 \in t.regs["DEMOD_CTL"]
  BY DEF Framed, ModeRegs
<1> QED
  BY <1>1 DEF ModeIn, QuadratureIn, DirectIn, Idle

\* rtlsdr_close.
Quiet(s) ==
    /\ 0 \notin s.regs["GPO"] /\ 0 \in s.regs["GPOE"]
    /\ 7 \notin s.regs["DEMOD_CTL"] /\ 3 \notin s.regs["1:01"]
    /\ s.tuner # "ready" /\ ~s.missed

LEMMA BiasOff ==
    ASSUME NEW fit, NEW s \in States(fit)
    PROVE  \E t : /\ RunsTo(fit, s, BiasTee(FALSE), t)
                  /\ 0 \notin t.regs["GPO"] /\ 0 \in t.regs["GPOE"]
                  /\ t.regs["DEMOD_CTL"] = s.regs["DEMOD_CTL"] /\ t.regs["1:01"] = s.regs["1:01"]
                  /\ t.tuner = s.tuner /\ t.missed = s.missed
<1>1. "GPD" \in RegNames /\ "GPOE" \in RegNames /\ "GPO" \in RegNames /\ "DEMOD_CTL" \in RegNames /\ "1:01" \in RegNames
        /\ 0 \in 0..255 /\ 1 \in 0..255
  BY RegNamesAre
<1>2. PICK c0, c1, c2, c3 : /\ c0 = <<>> /\ Extended(c1, c0, Mask("GPD", 0, 1)) /\ Extended(c2, c1, Mask("GPOE", 1, 1))
                            /\ Extended(c3, c2, Mask("GPO", 0, 1))
  BY DEF Extended
<1>3. RunsTo(fit, s, c0, s)
  BY <1>2, RunNothing
<1>4. PICK t1 : RunsTo(fit, s, c1, t1) /\ PutBits(s, t1, "GPD", 0, 1)
  BY <1>1, <1>2, <1>3, AddMask, ZenonT(40)
<1>5. PICK t2 : RunsTo(fit, s, c2, t2) /\ PutBits(t1, t2, "GPOE", 1, 1)
  BY <1>1, <1>2, <1>4, AddMask, ZenonT(40)
<1>6. PICK t3 : RunsTo(fit, s, c3, t3) /\ PutBits(t2, t3, "GPO", 0, 1)
  BY <1>1, <1>2, <1>5, AddMask, ZenonT(40)
<1>7. c3 = BiasTee(FALSE)
  <2>1. PICK x, y, z : x = Mask("GPD", 0, 1) /\ y = Mask("GPOE", 1, 1) /\ z = Mask("GPO", 0, 1)
    OBVIOUS
  <2>2. 2 ^ 0 = 1
    OBVIOUS
  <2>3. BiasTee(FALSE) = <<x, y>> \o <<z>>
    BY <2>1, <2>2 DEF BiasTee, GpioOutput, GpioBit
  <2>4. PICK A : A = {x, y, z}
    OBVIOUS
  <2>5. c0 \in Seq(A) /\ x \in A /\ y \in A /\ Extended(c1, c0, x) /\ Extended(c2, c1, y) /\ Extended(c3, c2, z)
    BY <1>2, <2>1, <2>4
  <2>6. c2 = c0 \o <<x, y>>
    BY <2>5, TwoWrites
  <2>7. c0 \o <<x, y>> = <<x, y>>
    BY <1>2
  <2> QED
    BY <2>3, <2>5, <2>6, <2>7 DEF Extended
<1>8. s.regs \in [RegNames -> Byte] /\ t1.regs \in [RegNames -> Byte] /\ t2.regs \in [RegNames -> Byte]
        /\ t3.regs \in [RegNames -> Byte]
  BY <1>4, <1>5, <1>6 DEF RunsTo, States
<1>9. /\ t3.regs["DEMOD_CTL"] = s.regs["DEMOD_CTL"] /\ t3.regs["1:01"] = s.regs["1:01"]
      /\ t3.tuner = s.tuner /\ t3.missed = s.missed
  BY <1>1, <1>4, <1>5, <1>6, <1>8 DEF PutBits
<1>10. 0 \in t3.regs["GPOE"] /\ 0 \notin t3.regs["GPO"]
  BY <1>1, <1>4, <1>5, <1>6, <1>8, BitsHere DEF PutBits
<1> QED
  BY <1>6, <1>7, <1>9, <1>10

LEMMA CloseRuns ==
    ASSUME NEW fit, NEW s \in States(fit), NEW type, type = fit, type = tuner_type, Idle(s)
    PROVE  \E t : RunsTo(fit, s, CloseProgram, t) /\ Quiet(t)
<1>1. "DEMOD_CTL" \in RegNames /\ "GPO" \in RegNames /\ "GPOE" \in RegNames /\ "1:01" \in RegNames /\ \h20 \in 0..255
  BY RegNamesAre
<1>2. PICK m : /\ RunsTo(fit, s, BiasTee(FALSE), m)
               /\ 0 \notin m.regs["GPO"] /\ 0 \in m.regs["GPOE"]
               /\ m.regs["DEMOD_CTL"] = s.regs["DEMOD_CTL"] /\ m.regs["1:01"] = s.regs["1:01"]
               /\ m.tuner = s.tuner /\ m.missed = s.missed
  BY BiasOff
<1>3. m \in States(fit) /\ 7 \in m.regs["DEMOD_CTL"] /\ 3 \notin m.regs["1:01"] /\ ~m.missed
  BY <1>2 DEF RunsTo, Idle
<1>4. PICK w, d, c : w = Words(type, "exit") /\ Extended(d, w, Write("DEMOD_CTL", \h20)) /\ c = BiasTee(FALSE) \o d
  BY DEF Extended
<1>5. PICK k : RunsTo(fit, m, w, k) /\ Heard(m, k, type, "exit")
  BY <1>3, <1>4, WordRuns
<1>6. PICK t : RunsTo(fit, m, d, t) /\ Put(k, t, "DEMOD_CTL", \h20)
  BY <1>1, <1>4, <1>5, AddWrite
<1>7. RunsTo(fit, s, c, t)
  BY <1>2, <1>4, <1>6, RunJoin
<1>8. c = CloseProgram
  BY <1>4 DEF CloseProgram, DeinitBaseband, Extended
<1>9. SameMode(m, k) /\ 3 \notin k.regs["1:01"]
  BY <1>3, <1>5, WordLeaves
<1>10. k.regs \in [RegNames -> Byte] /\ t.regs \in [RegNames -> Byte]
  BY <1>5, <1>6 DEF RunsTo, States
<1>11. /\ t.regs["GPO"] = m.regs["GPO"] /\ t.regs["GPOE"] = m.regs["GPOE"] /\ t.regs["DEMOD_CTL"] = BitsOf[\h20]
       /\ t.regs["1:01"] = k.regs["1:01"] /\ ~t.missed /\ t.tuner = k.tuner
  BY <1>1, <1>3, <1>6, <1>9, <1>10 DEF Put, SameMode
<1>12. k.tuner # "ready"
  <2>1. CASE Known(type)
    BY <1>5, <2>1 DEF Heard, Said
  <2>2. CASE ~Known(type)
    BY <1>3, <1>5, <2>2 DEF Heard, States
  <2> QED
    BY <2>1, <2>2
<1>13. Quiet(t)
  BY <1>2, <1>9, <1>11, <1>12, BitsHere DEF Quiet
<1> QED
  BY <1>7, <1>8, <1>13

\* rtlsdr_open: the baseband is initialised and the repeater is on when the tuners are looked for.
Before(s, t) ==
    /\ Hears(t) /\ t.tuner = s.tuner /\ t.missed = s.missed
    /\ t.regs["1:15"] = BitsOf[0] /\ t.regs["0:06"] = BitsOf[\h80] /\ t.regs["1:b1"] = BitsOf[\h1b]

LEMMA BeforeRuns ==
    ASSUME NEW fit, NEW s \in States(fit)
    PROVE  \E t : RunsTo(fit, s, BeforeProbing, t) /\ Before(s, t)
<1>1. /\ "DEMOD_CTL" \in RegNames /\ "1:01" \in RegNames /\ "1:15" \in RegNames /\ "0:19" \in RegNames
      /\ "0:06" \in RegNames /\ "1:b1" \in RegNames
      /\ \he8 \in 0..255 /\ \h14 \in 0..255 /\ \h10 \in 0..255 /\ 0 \in 0..255 /\ 5 \in 0..255 /\ \h80 \in 0..255
      /\ \h1b \in 0..255 /\ \h18 \in 0..255
  BY RegNamesAre
<1>2. PICK c0, c1, c2, c3, c4, c5, c6, c7, c8 :
        /\ c0 = <<>>                                /\ Extended(c1, c0, Write("DEMOD_CTL", \he8))
        /\ Extended(c2, c1, Write("1:01", \h14))    /\ Extended(c3, c2, Write("1:01", \h10))
        /\ Extended(c4, c3, Write("1:15", 0))       /\ Extended(c5, c4, Write("0:19", 5))
        /\ Extended(c6, c5, Write("0:06", \h80))    /\ Extended(c7, c6, Write("1:b1", \h1b))
        /\ Extended(c8, c7, Write("1:01", \h18))
  BY DEF Extended
<1>3. RunsTo(fit, s, c0, s)
  BY <1>2, RunNothing
<1>4. PICK t1 : RunsTo(fit, s, c1, t1) /\ Put(s, t1, "DEMOD_CTL", \he8)
  BY <1>1, <1>2, <1>3, AddWrite
<1>5. PICK t2 : RunsTo(fit, s, c2, t2) /\ Put(t1, t2, "1:01", \h14)
  BY <1>1, <1>2, <1>4, AddWrite
<1>6. PICK t3 : RunsTo(fit, s, c3, t3) /\ Put(t2, t3, "1:01", \h10)
  BY <1>1, <1>2, <1>5, AddWrite
<1>7. PICK t4 : RunsTo(fit, s, c4, t4) /\ Put(t3, t4, "1:15", 0)
  BY <1>1, <1>2, <1>6, AddWrite
<1>8. PICK t5 : RunsTo(fit, s, c5, t5) /\ Put(t4, t5, "0:19", 5)
  BY <1>1, <1>2, <1>7, AddWrite
<1>9. PICK t6 : RunsTo(fit, s, c6, t6) /\ Put(t5, t6, "0:06", \h80)
  BY <1>1, <1>2, <1>8, AddWrite
<1>10. PICK t7 : RunsTo(fit, s, c7, t7) /\ Put(t6, t7, "1:b1", \h1b)
  BY <1>1, <1>2, <1>9, AddWrite
<1>11. PICK t8 : RunsTo(fit, s, c8, t8) /\ Put(t7, t8, "1:01", \h18)
  BY <1>1, <1>2, <1>10, AddWrite
<1>12. c8 = BeforeProbing
  <2>1. PICK x : x = Write("DEMOD_CTL", \he8)
    OBVIOUS
  <2>2. c1 = <<x>>
    BY <1>2, <2>1 DEF Extended
  <2>3. c7 = BasebandSteps
    BY <1>2, <2>1, <2>2 DEF BasebandSteps, Extended
  <2> QED
    BY <1>2, <2>3, InitBasebandIs DEF BeforeProbing, Repeater, Extended
<1>13. /\ s.regs \in [RegNames -> Byte] /\ t1.regs \in [RegNames -> Byte] /\ t2.regs \in [RegNames -> Byte]
       /\ t3.regs \in [RegNames -> Byte] /\ t4.regs \in [RegNames -> Byte] /\ t5.regs \in [RegNames -> Byte]
       /\ t6.regs \in [RegNames -> Byte] /\ t7.regs \in [RegNames -> Byte] /\ t8.regs \in [RegNames -> Byte]
  BY <1>4, <1>5, <1>6, <1>7, <1>8, <1>9, <1>10, <1>11 DEF RunsTo, States
<1>14. /\ t4.regs["DEMOD_CTL"] = BitsOf[\he8] /\ t4.regs["1:15"] = BitsOf[0]
       /\ t4.tuner = s.tuner /\ t4.missed = s.missed
  BY <1>1, <1>4, <1>5, <1>6, <1>7, <1>13 DEF Put
<1>15. /\ t8.regs["DEMOD_CTL"] = t4.regs["DEMOD_CTL"] /\ t8.regs["1:15"] = t4.regs["1:15"]
       /\ t8.regs["0:06"] = BitsOf[\h80] /\ t8.regs["1:b1"] = BitsOf[\h1b] /\ t8.regs["1:01"] = BitsOf[\h18]
       /\ t8.tuner = t4.tuner /\ t8.missed = t4.missed
  BY <1>1, <1>8, <1>9, <1>10, <1>11, <1>13 DEF Put
<1>16. Before(s, t8)
  BY <1>14, <1>15, BitsHere DEF Before, Hears
<1> QED
  BY <1>11, <1>12, <1>16

\* Looking for the tuners, and the reset on the way, leave all that as it is.
LEMMA ProbingRuns ==
    ASSUME NEW fit, NEW s \in States(fit), Hears(s), NEW p \in Seq(Lookup)
    PROVE  Run(s, p) \in States(fit) /\ Framed(s, Run(s, p))
<1> DEFINE S == {u \in States(fit) : Framed(s, u)}
<1>1. s \in S
  BY DEF Framed
<1>2. ASSUME NEW was \in S, NEW x \in RegSteps, x.reg \in {"GPO", "GPOE", "GPD"}
      PROVE  Do(was, x) \in S
  <2>1. was \in States(fit) /\ was.regs \in [RegNames -> Byte] /\ Framed(s, was)
    BY DEF States
  <2>2. Do(was, x) \in States(fit)
    BY <2>1, DoTyped DEF AllSteps, Spoken
  <2>3. /\ Do(was, x).regs = [was.regs EXCEPT ![x.reg] = (was.regs[x.reg] \ x.mask) \cup (x.val \cap x.mask)]
        /\ Do(was, x).tuner = was.tuner /\ Do(was, x).missed = was.missed
    BY <2>1, DoRegister
  <2>4. \A r \in ModeRegs \cup {"DEMOD_CTL"} : r \in RegNames /\ r # x.reg
    BY <1>2, RegNamesAre DEF ModeRegs
  <2>5. \A r \in ModeRegs \cup {"DEMOD_CTL"} : Do(was, x).regs[r] = was.regs[r]
    BY <2>1, <2>3, <2>4
  <2> QED
    BY <2>1, <2>2, <2>3, <2>5 DEF Framed
<1>3. ASSUME NEW was \in S, NEW x, x = Tuner("probe")
      PROVE  Do(was, x) \in S
  <2>1. was \in States(fit) /\ Framed(s, was)
    OBVIOUS
  <2>2. Hears(was)
    BY <2>1 DEF Framed, Hears, ModeRegs
  <2>3. Do(was, x) \in States(fit)
    <3>1. x \in AllSteps(fit)
      BY <1>3, SayIs DEF AllSteps, Spoken
    <3> QED
      BY <2>1, <3>1, DoTyped
  <2>4. Do(was, x).regs = was.regs /\ Do(was, x).missed = was.missed /\ Do(was, x).tuner = was.tuner
    BY <1>3, <2>1, <2>2, DoWord
  <2> QED
    BY <2>1, <2>3, <2>4 DEF Framed
<1> HIDE DEF S
<1>4. PICK A : A = Lookup
  OBVIOUS
<1>5. \A x \in A : \A was \in S : Do(was, x) \in S
  BY <1>2, <1>3, <1>4 DEF Lookup
<1>6. Run(s, p) \in S
  BY <1>1, <1>4, <1>5, RunStays
<1> QED
  BY <1>6 DEF S

\* The demodulator is set up for the tuner that was seen.
LEMMA SetUpRuns ==
    ASSUME NEW fit, NEW b, NEW s \in States(fit), NEW m, Before(b, m), Framed(m, s)
    PROVE  \E t : /\ RunsTo(fit, s, SetUp(fit), t)
                  /\ t.missed = b.missed /\ 7 \in t.regs["DEMOD_CTL"]
                  /\ ModeIn(t, fit, IF Known(fit) THEN 0 ELSE 1)
<1>1. /\ "1:b1" \in RegNames /\ "1:15" \in RegNames /\ "0:08" \in RegNames /\ "0:06" \in RegNames
      /\ "1:01" \in RegNames /\ "DEMOD_CTL" \in RegNames
      /\ \h1a \in 0..255 /\ \h4d \in 0..255 /\ 1 \in 0..255
  BY RegNamesAre
<1>2. /\ 3 \in s.regs["1:01"] /\ 7 \in s.regs["DEMOD_CTL"] /\ s.missed = b.missed
      /\ s.regs["1:15"] = BitsOf[0] /\ s.regs["0:06"] = BitsOf[\h80] /\ s.regs["1:b1"] = BitsOf[\h1b]
  BY DEF Before, Framed, Hears, ModeRegs
<1>3. s.regs \in [RegNames -> Byte]
  BY DEF States
<1>4. CASE fit \in R82xx
  <2>1. PICK x1, x2, x3, x4 : /\ x1 = Write("1:b1", \h1a) /\ x2 = Write("0:08", \h4d) /\ x3 = Write("1:15", 1)
                              /\ x4 = Tuner("init")
    OBVIOUS
  <2>2. PICK c0, c1, c2, c3, c4 : /\ c0 = <<>> /\ Extended(c1, c0, x1) /\ Extended(c2, c1, x2) /\ Extended(c3, c2, x3)
                                  /\ Extended(c4, c3, x4)
    BY DEF Extended
  <2>3. RunsTo(fit, s, c0, s)
    BY <2>2, RunNothing
  <2>4. PICK t1 : RunsTo(fit, s, c1, t1) /\ Put(s, t1, "1:b1", \h1a)
    BY <1>1, <2>1, <2>2, <2>3, AddWrite
  <2>5. PICK t2 : RunsTo(fit, s, c2, t2) /\ Put(t1, t2, "0:08", \h4d)
    BY <1>1, <2>1, <2>2, <2>4, AddWrite
  <2>6. PICK t3 : RunsTo(fit, s, c3, t3) /\ Put(t2, t3, "1:15", 1)
    BY <1>1, <2>1, <2>2, <2>5, AddWrite
  <2>7. t1.regs \in [RegNames -> Byte] /\ t2.regs \in [RegNames -> Byte] /\ t3.regs \in [RegNames -> Byte]
    BY <2>4, <2>5, <2>6 DEF RunsTo, States
  <2>8. /\ t3.regs["1:b1"] = BitsOf[\h1a] /\ t3.regs["0:08"] = BitsOf[\h4d] /\ t3.regs["1:15"] = BitsOf[1]
        /\ t3.regs["0:06"] = BitsOf[\h80] /\ 3 \in t3.regs["1:01"] /\ 7 \in t3.regs["DEMOD_CTL"]
        /\ t3.missed = b.missed
    BY <1>1, <1>2, <1>3, <2>4, <2>5, <2>6, <2>7 DEF Put
  <2>9. Known(fit)
    BY <1>4 DEF Known, R82xx
  <2>10. Hears(t3) /\ Tuner("init") \in Sayable(fit)
    BY <2>8, <2>9, SayIs DEF Hears
  <2>11. PICK t4 : RunsTo(fit, s, c4, t4) /\ Told(t3, t4, "init")
    BY <2>1, <2>2, <2>6, <2>10, AddTuner
  <2>12. c4 = SetUp(fit)
    <3>1. PICK A : A = AllSteps(fit)
      OBVIOUS
    <3>2. c0 \in Seq(A)
      BY <2>2
    <3>a. x1 \in RegSteps
      BY <1>1, <2>1, WriteIs
    <3>b. x2 \in RegSteps
      BY <1>1, <2>1, WriteIs
    <3>3. x1 \in RegSteps /\ x2 \in RegSteps
      BY <3>a, <3>b
    <3>4. x3 \in RegSteps /\ x4 \in Sayable(fit)
      BY <1>1, <2>1, <2>10, WriteIs
    <3>5. x1 \in A /\ x2 \in A /\ x3 \in A /\ x4 \in A
      BY <3>1, <3>3, <3>4 DEF AllSteps, Spoken
    <3>6. Extended(c1, c0, x1) /\ Extended(c2, c1, x2) /\ Extended(c3, c2, x3) /\ Extended(c4, c3, x4)
      BY <2>2
    <3>7. c4 = c0 \o <<x1, x2, x3, x4>>
      BY <3>2, <3>5, <3>6, FourWrites
    <3>c. <<x1, x2, x3, x4>> \in Seq(A)
      BY <3>5
    <3>d. PICK e \in Seq(A) : e = <<x1, x2, x3, x4>>
      BY <3>c
    <3>e. <<>> \o e = e
      OBVIOUS
    <3>8. c4 = <<x1, x2, x3, x4>>
      BY <2>2, <3>7, <3>d, <3>e
    <3>9. SetUp(fit) = <<x1, x2, x3, x4>>
      BY <1>4, <2>1 DEF SetUp, R82xx, Known
    <3> QED
      BY <3>8, <3>9
  <2>13. ModeIn(t4, fit, 0)
    BY <1>4, <2>8, <2>11, ValuesAre DEF ModeIn, QuadratureIn, Told, Said
  <2> QED
    BY <2>8, <2>9, <2>11, <2>12, <2>13 DEF Told
<1>5. CASE ~Known(fit)
  <2>1. fit \notin R82xx /\ fit = "unknown"
    BY <1>5 DEF Known, R82xx
  <2>2. SetUp(fit) = EnterDirect(fit, 1)
    BY <1>5, <2>1 DEF SetUp
  <2>3. s.tuner # "ready"
    BY <1>5 DEF States
  <2>4. PICK t : /\ RunsTo(fit, s, EnterDirect(fit, 1), t)
                 /\ t.missed = s.missed /\ DirectIn(t, 1)
                 /\ 7 \in t.regs["DEMOD_CTL"]
    BY <1>2, <2>3, EnterRuns
  <2> QED
    BY <1>2, <1>5, <2>2, <2>4 DEF ModeIn
<1>6. CASE fit \notin R82xx /\ Known(fit)
  <2>1. PICK c, d : c = <<>> /\ Extended(d, c, Tuner("init"))
    BY DEF Extended
  <2>2. RunsTo(fit, s, c, s)
    BY <2>1, RunNothing
  <2>3. Hears(s) /\ Tuner("init") \in Sayable(fit)
    BY <1>2, <1>6, SayIs DEF Hears
  <2>4. PICK t : RunsTo(fit, s, d, t) /\ Told(s, t, "init")
    BY <2>1, <2>2, <2>3, AddTuner
  <2>5. d = SetUp(fit)
    <3>1. PICK x : x = Tuner("init")
      OBVIOUS
    <3>2. SetUp(fit) = <<x>>
      BY <1>6, <3>1 DEF SetUp
    <3> QED
      BY <2>1, <3>1, <3>2 DEF Extended
  <2>6. ModeIn(t, fit, 0)
    BY <1>2, <1>6, <2>4, ValuesAre DEF ModeIn, QuadratureIn, Told, Said
  <2> QED
    BY <1>2, <1>6, <2>4, <2>5, <2>6 DEF Told
<1> QED
  BY <1>4, <1>5, <1>6

LEMMA OpenRuns ==
    ASSUME NEW fit, NEW s \in States(fit), ~s.missed
    PROVE  \E t : /\ RunsTo(fit, s, OpenProgram(fit), t)
                  /\ ModeIn(t, fit, IF Known(fit) THEN 0 ELSE 1) /\ Idle(t)
<1>1. PICK p, q, u, c1, c2, c3 : /\ p = Probing(fit) /\ q = SetUp(fit) /\ u = BeforeProbing
                                 /\ c1 = u \o p /\ c2 = c1 \o q /\ Extended(c3, c2, Write("1:01", \h10))
  BY DEF Extended
<1>2. PICK b : RunsTo(fit, s, u, b) /\ Before(s, b)
  BY <1>1, BeforeRuns
<1>3. PICK m : m = Run(b, p)
  OBVIOUS
<1>4. RunsTo(fit, b, p, m) /\ Framed(b, m)
  <2>1. PICK A, B : A = Lookup /\ B = AllSteps(fit)
    OBVIOUS
  <2>2. A \subseteq B
    BY <2>1, SayIs DEF Lookup, AllSteps, Spoken
  <2>3. p \in Seq(A)
    BY <1>1, <2>1, ProbingIs
  <2>4. p \in Seq(B)
    BY <2>2, <2>3, Widen
  <2>5. b \in States(fit) /\ Hears(b)
    BY <1>2 DEF RunsTo, Before
  <2>6. m \in States(fit) /\ Framed(b, m)
    BY <1>3, <2>1, <2>3, <2>5, ProbingRuns
  <2> QED
    BY <1>3, <2>1, <2>4, <2>5, <2>6 DEF RunsTo
<1>5. RunsTo(fit, s, c1, m)
  BY <1>1, <1>2, <1>4, RunJoin
<1>6. m \in States(fit)
  BY <1>4 DEF RunsTo
<1>7. PICK k : /\ RunsTo(fit, m, q, k) /\ k.missed = s.missed /\ 7 \in k.regs["DEMOD_CTL"]
               /\ ModeIn(k, fit, IF Known(fit) THEN 0 ELSE 1)
  BY <1>1, <1>2, <1>4, <1>6, SetUpRuns
<1>8. RunsTo(fit, s, c2, k)
  BY <1>1, <1>5, <1>7, RunJoin
<1>9. "1:01" \in RegNames /\ \h10 \in 0..255
  BY RegNamesAre
<1>10. PICK t : RunsTo(fit, s, c3, t) /\ Put(k, t, "1:01", \h10)
  BY <1>1, <1>8, <1>9, AddWrite
<1>11. c3 = OpenProgram(fit)
  BY <1>1 DEF OpenProgram, Repeater, Extended
<1>12. k.regs \in [RegNames -> Byte] /\ t.regs \in [RegNames -> Byte]
  BY <1>8, <1>10 DEF RunsTo, States
<1>13. /\ t.regs["1:b1"] = k.regs["1:b1"] /\ t.regs["1:15"] = k.regs["1:15"] /\ t.regs["0:08"] = k.regs["0:08"]
       /\ t.regs["0:06"] = k.regs["0:06"] /\ t.regs["DEMOD_CTL"] = k.regs["DEMOD_CTL"]
       /\ t.regs["1:01"] = BitsOf[\h10] /\ t.tuner = k.tuner /\ t.missed = k.missed
  BY <1>9, <1>10, <1>12, RegNamesAre DEF Put
<1>14. ModeIn(t, fit, IF Known(fit) THEN 0 ELSE 1) /\ Idle(t)
  BY <1>7, <1>13, BitsHere DEF ModeIn, QuadratureIn, DirectIn, Idle
<1> QED
  BY <1>10, <1>11, <1>14

-----------------------------------------------------------------------------
(***************************************************************************)
(* What an open device keeps while nothing has failed since rtlsdr_open.   *)
(***************************************************************************)
ModeHolds == tuner_type = fitted /\ ModeIn(Now, tuner_type, direct_sampling) /\ Idle(Now)
Settled   == opened /\ clean => ModeHolds

\* A call of a device with these fields ends with the chip in t.
EndsIn(t, type, ds) ==
    /\ t \in States(fitted) /\ Become(t) /\ fitted' = fitted
    /\ tuner_type' = type /\ direct_sampling' = ds

LEMMA EndsSettled ==
    ASSUME NEW t, NEW ds, EndsIn(t, fitted, ds), ModeIn(t, fitted, ds), Idle(t)
    PROVE  ModeHolds'
<1>1. t = [regs |-> t.regs, tuner |-> t.tuner, missed |-> t.missed, ir |-> t.ir]
  BY DEF EndsIn, States
<1>2. Now' = t
  BY <1>1 DEF EndsIn, Become, Now
<1>3. fitted' = fitted /\ tuner_type' = fitted /\ direct_sampling' = ds
  BY DEF EndsIn
<1>4. ModeIn(Now', tuner_type', direct_sampling') /\ Idle(Now')
  BY <1>2, <1>3
<1> QED
  BY <1>3, <1>4 DEF ModeHolds, ModeIn, QuadratureIn, DirectIn, Idle

LEMMA StillClean ==
    ASSUME NEW f, NEW so_far, Note(f, so_far), clean'
    PROVE  f = NoFault /\ so_far /\ faults' = faults
BY DEF Note

LEMMA CallsEnd ==
    ASSUME NEW op, NEW p, NEW ds, Calls(op, p, ds), clean'
    PROVE  opened /\ clean /\ Become(Run(Now, p)) /\ fitted' = fitted /\ tuner_type' = tuner_type /\ direct_sampling' = ds
<1>1. PICK f : Become(After(Now, p, Len(p), f)) /\ Fields(f, tuner_type, ds, rc_active) /\ Note(f, clean)
  BY DEF Calls
<1>2. f = NoFault /\ clean
  BY <1>1, StillClean
<1>3. tuner_type' = tuner_type /\ direct_sampling' = ds
  BY <1>1, <1>2, NoFaultIs DEF Fields
<1> QED
  BY <1>1, <1>2, <1>3 DEF Run, Calls

\* A call whose program leaves the mode ds.
LEMMA CallsSettle ==
    ASSUME TypeOK, Settled, NEW op, NEW p, NEW ds, Calls(op, p, ds), clean',
           ModeHolds => \E t : RunsTo(fitted, Now, p, t) /\ ModeIn(t, fitted, ds) /\ Idle(t)
    PROVE  ModeHolds'
<1>1. opened /\ clean /\ Become(Run(Now, p)) /\ fitted' = fitted /\ tuner_type' = tuner_type /\ direct_sampling' = ds
  BY CallsEnd
<1>2. ModeHolds /\ tuner_type = fitted
  BY <1>1 DEF Settled, ModeHolds
<1>3. PICK t : RunsTo(fitted, Now, p, t) /\ ModeIn(t, fitted, ds) /\ Idle(t)
  BY <1>2
<1>4. EndsIn(t, fitted, ds)
  BY <1>1, <1>2, <1>3 DEF EndsIn, RunsTo
<1> QED
  BY <1>3, <1>4, EndsSettled

\* A call that leaves the mode alone.
LEMMA FrameEnds ==
    ASSUME TypeOK, NEW op \in {"bias", "testmode", "agc", "ir"}, NEW p \in Seq(Own(op) \cup IrSteps), ModeHolds
    PROVE  \E t : RunsTo(fitted, Now, p, t) /\ ModeIn(t, fitted, direct_sampling) /\ Idle(t)
<1>1. Now \in States(fitted)
  BY NowTyped
<1>2. PICK t : t = Run(Now, p)
  OBVIOUS
<1>3. t \in States(fitted) /\ Framed(Now, t)
  BY <1>1, <1>2, FrameRuns
<1>4. p \in Seq(AllSteps(fitted))
  <2>1. PICK A, B : A = Own(op) \cup IrSteps /\ B = AllSteps(fitted)
    OBVIOUS
  <2>2. A \subseteq B /\ p \in Seq(A)
    BY <2>1 DEF Own, AllSteps, Spoken
  <2>3. p \in Seq(B)
    BY <2>2, Widen
  <2> QED
    BY <2>1, <2>3
<1>5. RunsTo(fitted, Now, p, t)
  BY <1>1, <1>2, <1>3, <1>4 DEF RunsTo
<1>6. ModeIn(Now, fitted, direct_sampling) /\ Idle(Now)
  BY DEF ModeHolds
<1>7. ModeIn(t, fitted, direct_sampling) /\ Idle(t)
  BY <1>3, <1>6, FrameKeepsMode
<1> QED
  BY <1>5, <1>7

LEMMA DirectSettles ==
    ASSUME TypeOK, Settled, NEW on \in 0..2, DirectSampling(on), clean'
    PROVE  ModeHolds'
<1>1. PICK p : p = IF on = 0 THEN LeaveDirect(tuner_type) ELSE EnterDirect(tuner_type, on)
  OBVIOUS
<1>2. Calls("direct", p, on)
  BY <1>1 DEF DirectSampling
<1>3. ASSUME ModeHolds
      PROVE  \E t : RunsTo(fitted, Now, p, t) /\ ModeIn(t, fitted, on) /\ Idle(t)
  <2>1. /\ Now \in States(fitted) /\ tuner_type = fitted /\ Idle(Now)
        /\ ModeIn(Now, fitted, direct_sampling)
    BY <1>3, NowTyped DEF ModeHolds
  <2>2. CASE on = 0
    <3>1. PICK t : RunsTo(fitted, Now, LeaveDirect(fitted), t) /\ QuadratureIn(t, fitted) /\ Idle(t)
      BY <2>1, LeaveRuns
    <3> QED
      BY <1>1, <2>1, <2>2, <3>1 DEF ModeIn
  <2>3. CASE on \in {1, 2}
    <3>1. 7 \in Now.regs["DEMOD_CTL"] /\ (Known(fitted) \/ Now.tuner # "ready") /\ 3 \notin Now.regs["1:01"]
            /\ ~Now.missed
      BY <2>1 DEF Idle, States
    <3>2. PICK t : /\ RunsTo(fitted, Now, EnterDirect(fitted, on), t)
                   /\ t.missed = Now.missed /\ DirectIn(t, on)
                   /\ 7 \in t.regs["DEMOD_CTL"]
                   /\ 3 \notin Now.regs["1:01"] => 3 \notin t.regs["1:01"]
      BY <2>1, <2>3, <3>1, EnterRuns
    <3> QED
      BY <1>1, <2>1, <2>3, <3>1, <3>2 DEF ModeIn, Idle
  <2> QED
    BY <2>2, <2>3
<1> QED
  BY <1>2, <1>3, CallsSettle

LEMMA GainSettles ==
    ASSUME TypeOK, Settled, SetGain \/ SetSampleRate, clean'
    PROVE  ModeHolds'
<1>1. PICK u, v : /\ u = Words(tuner_type, "set")
                  /\ v = Words(tuner_type, "set") \o <<Write("1:01", \h14), Write("1:01", \h10)>>
  OBVIOUS
<1>2. ASSUME ModeHolds
      PROVE  /\ \E t : RunsTo(fitted, Now, u, t) /\ ModeIn(t, fitted, direct_sampling) /\ Idle(t)
             /\ \E t : RunsTo(fitted, Now, v, t) /\ ModeIn(t, fitted, direct_sampling) /\ Idle(t)
  <2>1. /\ Now \in States(fitted) /\ tuner_type = fitted /\ Idle(Now)
        /\ ModeIn(Now, fitted, direct_sampling)
    BY <1>2, NowTyped DEF ModeHolds
  <2>2. \E t : RunsTo(fitted, Now, Words(fitted, "set"), t) /\ ModeIn(t, fitted, direct_sampling) /\ Idle(t)
    BY <2>1, GainRuns
  <2>3. \E t : /\ RunsTo(fitted, Now, Words(fitted, "set") \o <<Write("1:01", \h14), Write("1:01", \h10)>>, t)
               /\ ModeIn(t, fitted, direct_sampling) /\ Idle(t)
    BY <2>1, RateRuns
  <2> QED
    BY <1>1, <2>1, <2>2, <2>3
<1>3. CASE SetGain
  <2>1. Calls("gain", u, direct_sampling)
    BY <1>1, <1>3 DEF SetGain
  <2> QED
    BY <1>2, <2>1, CallsSettle
<1>4. CASE SetSampleRate
  <2>1. Calls("rate", v, direct_sampling)
    BY <1>1, <1>4 DEF SetSampleRate
  <2> QED
    BY <1>2, <2>1, CallsSettle
<1> QED
  BY <1>3, <1>4

LEMMA FrameSettles ==
    ASSUME TypeOK, Settled, NEW op \in {"bias", "testmode", "agc"}, NEW p \in Seq(Own(op) \cup IrSteps),
           Calls(op, p, direct_sampling), clean'
    PROVE  ModeHolds'
<1>1. ModeHolds => \E t : RunsTo(fitted, Now, p, t) /\ ModeIn(t, fitted, direct_sampling) /\ Idle(t)
  BY FrameEnds
<1> QED
  BY <1>1, CallsSettle

LEMMA OwnSteps ==
    ASSUME NEW on \in BOOLEAN
    PROVE  /\ BiasTee(on) \in Seq(Own("bias") \cup IrSteps)
           /\ <<Write("0:19", IF on THEN 3 ELSE 5)>> \in Seq(Own("testmode") \cup IrSteps)
           /\ <<Write("0:19", IF on THEN \h25 ELSE 5)>> \in Seq(Own("agc") \cup IrSteps)
<1>1. (IF on THEN 3 ELSE 5) \in 0..255 /\ (IF on THEN \h25 ELSE 5) \in 0..255
  OBVIOUS
<1>2. Write("0:19", IF on THEN 3 ELSE 5) \in Own("testmode") \cup IrSteps
  BY <1>1, OwnedAre, RegNamesAre, MayWrite
<1>3. Write("0:19", IF on THEN \h25 ELSE 5) \in Own("agc") \cup IrSteps
  BY <1>1, OwnedAre, RegNamesAre, MayWrite
<1>4. BiasTee(on) \in Seq(Own("bias") \cup IrSteps)
  <2>1. PICK A, B : A = Own("bias") /\ B = Own("bias") \cup IrSteps
    OBVIOUS
  <2>2. PICK b \in Seq(A) : b = BiasTee(on)
    BY <2>1, BiasTeeIs
  <2>3. A \subseteq B
    BY <2>1
  <2>4. b \in Seq(B)
    BY <2>3, Widen
  <2> QED
    BY <2>1, <2>2, <2>4
<1> QED
  BY <1>2, <1>3, <1>4

LEMMA QuerySettles ==
    ASSUME TypeOK, Settled, NEW buf_len, IrQuery(buf_len), clean'
    PROVE  ModeHolds'
<1>1. PICK code \in BOOLEAN, len \in CodeLengths \cup {0} :
        \E f \in Outcomes(QueryProgram(code, len, buf_len)) :
            Query(QueryProgram(code, len, buf_len), code, len, buf_len, f)
  BY IrQueryIs
<1>2. PICK p : p = QueryProgram(code, len, buf_len)
  OBVIOUS
<1>3. PICK f \in Outcomes(p) : Query(p, code, len, buf_len, f)
  BY <1>1, <1>2
<1>4. f = NoFault /\ clean
  <2>1. Note(f, clean)
    BY <1>3 DEF Query
  <2> QED
    BY <2>1, StillClean
<1>5. f.how = "none" /\ ~Reported(f)
  BY <1>4, NoFaultIs
<1>6. Become(After(Now, p, Len(p), f))
  BY <1>3, <1>5 DEF Query
<1>7. tuner_type' = tuner_type /\ direct_sampling' = direct_sampling
  <2>1. PICK rc : Fields(f, tuner_type, direct_sampling, rc)
    BY <1>3 DEF Query
  <2> QED
    BY <1>5, <2>1 DEF Fields
<1>8. p \in Seq(Own("ir") \cup IrSteps)
  BY <1>2, QueryIs
<1>9. opened /\ fitted' = fitted
  BY IrQueryIs
<1>10. ModeHolds /\ tuner_type = fitted
  BY <1>4, <1>9 DEF Settled, ModeHolds
<1>11. PICK t : RunsTo(fitted, Now, p, t) /\ ModeIn(t, fitted, direct_sampling) /\ Idle(t)
  BY <1>8, <1>10, FrameEnds
<1>12. EndsIn(t, fitted, direct_sampling)
  BY <1>4, <1>6, <1>7, <1>9, <1>10, <1>11 DEF EndsIn, RunsTo, Run
<1> QED
  BY <1>11, <1>12, EndsSettled

\* rtlsdr_open sees the tuner of the dongle, whatever an earlier session left in the chip.
LEMMA OpenSettles ==
    ASSUME TypeOK, Open, clean'
    PROVE  ModeHolds'
<1>1. PICK seen \in {fitted, "unknown"} : \E f \in Outcomes(OpenProgram(seen)) :
        /\ Known(seen) <=> Sees(f)
        /\ Become(After([Now EXCEPT !.missed = FALSE], OpenProgram(seen), Len(OpenProgram(seen)), f))
        /\ Fields(f, seen, IF Known(seen) THEN 0 ELSE 1, FALSE)
        /\ Note(f, TRUE)
  BY DEF Open
<1>2. PICK p : p = OpenProgram(seen)
  OBVIOUS
<1>3. PICK s : s = [Now EXCEPT !.missed = FALSE]
  OBVIOUS
<1>4. PICK f : /\ Known(seen) <=> Sees(f)
               /\ Become(After(s, p, Len(p), f))
               /\ Fields(f, seen, IF Known(seen) THEN 0 ELSE 1, FALSE)
               /\ Note(f, TRUE)
  BY <1>1, <1>2, <1>3
<1>5. f = NoFault
  BY <1>4, StillClean
<1>6. Sees(f) <=> Known(fitted)
  <2>1. Now \in States(fitted)
    BY NowTyped
  <2>2. PICK t : RunsTo(fitted, Now, BeforeProbing, t) /\ Before(Now, t)
    BY <2>1, BeforeRuns
  <2>3. Hears(After(Now, BeforeProbing, Len(BeforeProbing), f))
    BY <1>5, <2>2 DEF RunsTo, Run, Before
  <2>4. f.how # "lost"
    BY <1>5, NoFaultIs
  <2> QED
    BY <2>3, <2>4 DEF Sees
<1>7. seen = fitted
  BY <1>4, <1>6 DEF Known
<1>8. s \in States(fitted) /\ ~s.missed
  BY <1>3, NowTyped DEF Now
<1>9. PICK ds : ds = IF Known(fitted) THEN 0 ELSE 1
  OBVIOUS
<1>10. PICK t : RunsTo(fitted, s, p, t) /\ ModeIn(t, fitted, ds) /\ Idle(t)
  BY <1>2, <1>7, <1>8, <1>9, OpenRuns
<1>11. EndsIn(t, fitted, ds)
  <2>1. tuner_type' = fitted /\ direct_sampling' = ds
    BY <1>4, <1>5, <1>7, <1>9, NoFaultIs DEF Fields
  <2>2. fitted' = fitted
    BY DEF Open
  <2> QED
    BY <1>4, <1>5, <1>10, <2>1, <2>2 DEF EndsIn, RunsTo, Run
<1> QED
  BY <1>10, <1>11, EndsSettled

LEMMA CloseQuiets ==
    ASSUME TypeOK, Settled, Close, clean'
    PROVE  Quiet(Now)'
<1>1. PICK p : p = CloseProgram
  OBVIOUS
<1>2. PICK f : Become(After(Now, p, Len(p), f)) /\ Note(f, clean)
  BY <1>1 DEF Close, CloseProgram
<1>3. f = NoFault /\ clean
  BY <1>2, StillClean
<1>4. ModeHolds
  BY <1>3 DEF Close, Settled
<1>5. Now \in States(fitted) /\ tuner_type = fitted /\ Idle(Now)
  BY <1>4, NowTyped DEF ModeHolds
<1>6. PICK t : RunsTo(fitted, Now, p, t) /\ Quiet(t)
  BY <1>1, <1>5, CloseRuns
<1>7. Become(t)
  BY <1>2, <1>3, <1>6 DEF RunsTo, Run
<1> QED
  BY <1>6, <1>7 DEF Quiet, Become, Now

LEMMA NextSettles ==
    ASSUME TypeOK, Settled, [Next]_vars
    PROVE  Settled'
<1>1. SUFFICES ASSUME opened', clean'
               PROVE  ModeHolds'
  BY DEF Settled
<1>2. CASE Open
  BY <1>1, <1>2, OpenSettles
<1>3. CASE Close \/ SwiftBringUp
  BY <1>1, <1>3 DEF Close, SwiftBringUp, NoDevice
<1>4. CASE SetGain \/ SetSampleRate
  BY <1>1, <1>4, GainSettles
<1>5. ASSUME NEW on \in 0..2, DirectSampling(on)
      PROVE  ModeHolds'
  BY <1>1, <1>5, DirectSettles
<1>6. ASSUME NEW on \in BOOLEAN, SetBiasTee(on) \/ SetTestMode(on) \/ SetAgcMode(on)
      PROVE  ModeHolds'
  <2>1. CASE SetBiasTee(on)
    BY <1>1, <2>1, OwnSteps, FrameSettles DEF SetBiasTee
  <2>2. CASE SetTestMode(on)
    BY <1>1, <2>2, OwnSteps, FrameSettles DEF SetTestMode
  <2>3. CASE SetAgcMode(on)
    BY <1>1, <2>3, OwnSteps, FrameSettles DEF SetAgcMode
  <2> QED
    BY <1>6, <2>1, <2>2, <2>3
<1>7. ASSUME NEW buf_len \in BufferSizes, IrQuery(buf_len)
      PROVE  ModeHolds'
  BY <1>1, <1>7, QuerySettles
<1>8. ASSUME NEW n \in CodeLengths, Signal(n)
      PROVE  ModeHolds'
  <2>1. opened /\ clean /\ dev' = dev /\ fitted' = fitted /\ regs' = regs /\ tuner' = tuner /\ missed' = missed
    BY <1>1, <1>8 DEF Signal
  <2>2. ModeHolds
    BY <2>1 DEF Settled
  <2> QED
    BY <2>1, <2>2 DEF ModeHolds, dev, ModeIn, QuadratureIn, DirectIn, Idle, Now
<1>9. CASE UNCHANGED vars
  BY <1>1, <1>9 DEF vars, dev, Settled, ModeHolds, ModeIn, QuadratureIn, DirectIn, Idle, Now
<1> QED
  BY <1>2, <1>3, <1>4, <1>5, <1>6, <1>7, <1>8, <1>9 DEF Next

LEMMA AlwaysSettled == Spec => [](TypeOK /\ Settled)
<1>1. Init => Settled
  BY DEF Init, Settled
<1> QED
  BY <1>1, DeviceTypes, NextSettles, PTL DEF Spec

\* Since rtlsdr_open, while nothing failed: the tuner that the dongle has was found, and no
\* word with it was lost because the repeater or the demodulator was off.
THEOREM TunerIsFound == Spec => []TunerFound
<1>1. Settled => TunerFound
  BY DEF Settled, ModeHolds, Idle, TunerFound, Now
<1> QED
  BY <1>1, AlwaysSettled, PTL

\* ... and the demodulator, the tuner and direct_sampling agree, whatever was called in
\* between and in whatever state an earlier session left the chip.
THEOREM ModeAlwaysAgrees == Spec => []ModeAgrees
<1>1. Settled => ModeAgrees
  <2> SUFFICES ASSUME Settled, opened, clean
               PROVE  Listening /\ IF direct_sampling = 0 THEN Quadrature ELSE Direct
    BY DEF ModeAgrees
  <2>1. ModeIn(Now, tuner_type, direct_sampling) /\ Idle(Now)
    BY DEF Settled, ModeHolds
  <2> QED
    BY <2>1 DEF ModeIn, QuadratureIn, DirectIn, Idle, Now, Listening, Quadrature, Demodulates, Direct
<1> QED
  BY <1>1, AlwaysSettled, PTL

\* After rtlsdr_close the antenna has no power, the tuner has heard that it should sleep, and
\* the demodulator is off.
THEOREM ClosesQuietly == Spec => []QuietAfterClose
<1>1. Init => QuietAfterClose
  BY DEF Init, QuietAfterClose
<1>2. TypeOK /\ Settled /\ QuietAfterClose /\ [Next]_vars => QuietAfterClose'
  <2> SUFFICES ASSUME TypeOK, Settled, QuietAfterClose, [Next]_vars, call' = "close", clean'
               PROVE  Quiet(Now)'
    BY DEF QuietAfterClose, Quiet, Now
  <2>1. CASE Close
    BY <2>1, CloseQuiets
  <2>2. CASE UNCHANGED vars
    BY <2>2 DEF vars, dev, QuietAfterClose, Quiet, Now
  <2>3. CASE Next /\ ~Close
    BY <2>3 DEF Next, Open, SwiftBringUp, SetGain, SetSampleRate, DirectSampling, SetBiasTee, SetTestMode,
                SetAgcMode, IrQuery, Signal, Calls
  <2> QED
    BY <2>1, <2>2, <2>3
<1> QED
  BY <1>1, <1>2, AlwaysSettled, PTL DEF Spec
-----------------------------------------------------------------------------
(***************************************************************************)
(* The numbers that the runs look at are cases of the theorems of          *)
(* RtlNumbersProofs.                                                       *)
(***************************************************************************)

\* The rates that a run looks at are in the two ranges.
LEMMA RatesAre ==
    ASSUME NEW rate \in Rates
    PROVE  rate \in Int /\ ((225001 <= rate /\ rate <= 300000) \/ (900001 <= rate /\ rate <= 3200000))
<1>1. CASE rate \in {225001 + 499 * n : n \in 0..150}
  <2>1. PICK n \in 0..150 : rate = 225001 + 499 * n
    BY <1>1
  <2> QED
    BY <2>1, SMTT(20)
<1>2. CASE rate \in {900001 + 4999 * n : n \in 0..460}
  <2>1. PICK n \in 0..460 : rate = 900001 + 4999 * n
    BY <1>2
  <2> QED
    BY <2>1, SMTT(20)
<1>3. CASE rate = 300000 \/ rate = 3200000
  BY <1>3, SMTT(20)
<1> QED
  BY <1>1, <1>2, <1>3 DEF Rates

LEMMA NotAtLimits ==
    ASSUME NEW rate \in Rates, rate \notin UNION AtLimits
    PROVE  (225033 <= rate /\ rate <= 299968) \/ (900033 <= rate /\ rate <= 3200000)
<1>1. \A S \in AtLimits : rate \notin S
  OBVIOUS
<1>2. 225001..225032 \in AtLimits /\ 299969..300000 \in AtLimits /\ 900001..900032 \in AtLimits
  BY SMTT(20) DEF AtLimits
<1>3. rate \notin 225001..225032 /\ rate \notin 299969..300000 /\ rate \notin 900001..900032
  BY <1>1, <1>2, SMTT(20)
<1> QED
  BY <1>3, RatesAre, SMTT(20)

\* rtlsdr_set_sample_rate: every rate that is accepted is the one that the chip makes of
\* the registers, and away from the limits also with a crystal that is 1 kHz off.
THEOREM RatesAlwaysExact == Spec => []RateExact
<1>1. RateExact
  <2>1. ASSUME NEW rate \in Rates \cup {900000}, Accepted(rate)
        PROVE  RealRate(Xtal28, rate) = rate
    <3>1. rate \in Int
      BY RatesAre, SMTT(20)
    <3> QED
      BY <2>1, <3>1, AcceptedRateIsExact
  <2>2. ASSUME NEW xtal \in {Xtal28 - 1000, Xtal28 - 1, Xtal28 + 1000}, NEW rate \in Rates \ UNION AtLimits
        PROVE  RealRate(xtal, rate) = rate
    <3>1. xtal \in Int /\ Xtal28 - 1000 <= xtal /\ xtal <= Xtal28 + 1000
      BY SMTT(20) DEF Xtal28
    <3>2. /\ rate \in Int
          /\ (225033 <= rate /\ rate <= 299968) \/ (900033 <= rate /\ rate <= 3200000)
      BY RatesAre, NotAtLimits, SMTT(20)
    <3> QED
      BY <3>1, <3>2, RateIsExactNearby, SMTT(20)
  <2> QED
    BY <2>1, <2>2 DEF RateExact
<1> QED
  BY <1>1, PTL

LEMMA FirWithIs ==
    ASSUME NEW v \in FirSamples, NEW w \in FirSamples, NEW coeff, coeff = FirWith(v, w)
    PROVE  /\ coeff \in [1..16 -> Int]
           /\ \A i \in 1..8 : Narrow(coeff[i], 128)
           /\ \A i \in 9..16 : Narrow(coeff[i], 2048)
<1>1. PICK a, b, c : a = SubSeq(fir_default, 1, 8) /\ b = <<v, w, w, v>> /\ c = SubSeq(fir_default, 13, 16)
  OBVIOUS
<1>2. Narrow(v, 2048) /\ Narrow(w, 2048)
  BY SMTT(20) DEF FirSamples, Narrow
<1>3. PICK d : d = fir_default
  OBVIOUS
<1>4. /\ \A i \in 1..16 : d[i] \in Int
      /\ \A i \in 1..8 : Narrow(d[i], 128)
      /\ \A i \in 13..16 : Narrow(d[i], 2048)
  BY <1>3, SMTT(30) DEF fir_default, Narrow
<1>5. /\ a \in Seq(Int) /\ Len(a) = 8 /\ c \in Seq(Int) /\ Len(c) = 4
      /\ \A i \in 1..8 : a[i] = d[i]
      /\ \A i \in 1..4 : c[i] = d[12 + i]
  <2>1. \A i \in 1..16 : d[i] \in Int
    BY <1>4
  <2>2. a = [i \in 1..8 |-> d[i]]
    BY <1>1, <1>3
  <2>3. a \in Seq(Int) /\ Len(a) = 8 /\ \A i \in 1..8 : a[i] = d[i]
    BY <2>1, <2>2
  <2>4. c = [i \in 1..4 |-> d[12 + i]]
    BY <1>1, <1>3
  <2>5. c \in Seq(Int) /\ Len(c) = 4 /\ \A i \in 1..4 : c[i] = d[12 + i]
    BY <2>1, <2>4
  <2> QED
    BY <2>3, <2>5
<1>6. b \in Seq(Int) /\ Len(b) = 4 /\ \A i \in 1..4 : Narrow(b[i], 2048)
  <2>1. b \in Seq(Int) /\ Len(b) = 4
    BY <1>1, <1>2 DEF Narrow
  <2>2. b[1] = v /\ b[2] = w /\ b[3] = w /\ b[4] = v
    BY <1>1
  <2> QED
    BY <1>2, <2>1, <2>2
<1>7. PICK x : Joined(x, a, b)
  BY DEF Joined
<1>8. Lies(Int, x, a, b, 8, 4)
  <2>1. PICK V : V = Int
    OBVIOUS
  <2>2. a \in Seq(V) /\ b \in Seq(V) /\ Len(a) = 8 /\ Len(b) = 4
    BY <1>5, <1>6, <2>1
  <2>3. Lies(V, x, a, b, 8, 4)
    BY <1>7, <2>2, Behind
  <2> QED
    BY <2>1, <2>3
<1>9. x \in Seq(Int) /\ Len(x) = 12
  BY <1>8 DEF Lies
<1>10. Joined(coeff, x, c)
  BY <1>1, <1>7 DEF Joined, FirWith
<1>11. Lies(Int, coeff, x, c, 12, 4)
  BY <1>5, <1>9, <1>10, Behind
<1>12. coeff \in [1..16 -> Int]
  <2>1. coeff \in Seq(Int) /\ Len(coeff) = 16
    BY <1>11 DEF Lies
  <2>2. PICK V : V = Int
    OBVIOUS
  <2>3. coeff \in Seq(V)
    BY <2>1, <2>2
  <2>4. 16 \in Nat
    OBVIOUS
  <2>5. coeff \in [1..16 -> V]
    BY <2>1, <2>3, <2>4, AsFunction
  <2> QED
    BY <2>2, <2>5
<1>13. \A i \in 1..8 : Narrow(coeff[i], 128)
  <2> TAKE i \in 1..8
  <2>1. i \in 1..8 /\ i \in 1..12
    OBVIOUS
  <2>2. coeff[i] = x[i]
    BY <1>11, <2>1 DEF Lies
  <2>3. x[i] = a[i]
    BY <1>8 DEF Lies
  <2>4. a[i] = d[i]
    BY <1>5
  <2>5. coeff[i] = d[i]
    BY <2>2, <2>3, <2>4
  <2>6. Narrow(d[i], 128)
    BY <1>4
  <2> QED
    BY <2>5, <2>6
<1>14. ASSUME NEW n \in 1..4
       PROVE  Narrow(coeff[8 + n], 2048) /\ Narrow(coeff[12 + n], 2048)
  <2>1. coeff[8 + n] = x[8 + n] /\ x[8 + n] = b[n]
    <3>1. 8 + n \in 1..12
      OBVIOUS
    <3>2. \A i \in 1..12 : coeff[i] = x[i]
      BY <1>11 DEF Lies
    <3>3. coeff[8 + n] = x[8 + n]
      BY <3>1, <3>2, Zenon
    <3>4. x[8 + n] = b[n]
      BY <1>8, Zenon DEF Lies
    <3> QED
      BY <3>3, <3>4
  <2>2. coeff[8 + n] = b[n] /\ Narrow(b[n], 2048)
    BY <1>6, <2>1
  <2>3. coeff[12 + n] = c[n]
    BY <1>11 DEF Lies
  <2>4. c[n] = d[12 + n]
    BY <1>5
  <2>5. 12 + n \in 13..16
    OBVIOUS
  <2>6. Narrow(d[12 + n], 2048)
    BY <1>4, <2>5
  <2>7. coeff[12 + n] = d[12 + n]
    BY <2>3, <2>4
  <2> QED
    BY <2>2, <2>6, <2>7
<1>15. \A i \in 9..16 : Narrow(coeff[i], 2048)
  <2> TAKE i \in 9..16
  <2>1. (i <= 12 /\ i - 8 \in 1..4 /\ 8 + (i - 8) = i) \/ (i - 12 \in 1..4 /\ 12 + (i - 12) = i)
    OBVIOUS
  <2> QED
    BY <1>14, <2>1
<1> QED
  BY <1>12, <1>13, <1>15

\* rtlsdr_set_if_freq, rtlsdr_set_sample_freq_correction and rtlsdr_set_fir: the demodulator
\* reads back what was computed.
THEOREM NumbersAlwaysExact == Spec => []NumbersExact
<1>1. IfExact
  <2>1. ASSUME NEW freq \in {7919 * n : n \in 0..1818}
        PROVE  Converted(IfRegisters(freq)) - freq \in -7..0
    <3>1. PICK n \in 0..1818 : freq = 7919 * n
      OBVIOUS
    <3>2. freq \in Nat /\ 2 * freq <= Xtal28
      BY <3>1, SMTT(30) DEF Xtal28
    <3> QED
      BY <3>2, IfIsExact, SMTT(20)
  <2> QED
    BY <2>1 DEF IfExact
<1>2. CorrectionExact
  BY CorrectionIsExact, Zenon DEF CorrectionExact
<1>3. FirExact
  <2>1. ASSUME NEW v \in FirSamples, NEW w \in FirSamples
        PROVE  Coefficients(Fir(FirWith(v, w))) = FirWith(v, w)
    <3>1. PICK coeff : coeff = FirWith(v, w)
      OBVIOUS
    <3>2. /\ coeff \in [1..16 -> Int]
          /\ \A i \in 1..8 : Narrow(coeff[i], 128)
          /\ \A i \in 9..16 : Narrow(coeff[i], 2048)
      BY <3>1, FirWithIs
    <3>3. Coefficients(Fir(coeff)) = coeff
      BY <3>2, FilterIsExact
    <3> QED
      BY <3>1, <3>3
  <2> QED
    BY <2>1, Zenon DEF FirExact
<1>4. NumbersExact
  BY <1>1, <1>2, <1>3 DEF NumbersExact
<1> QED
  BY <1>4, PTL

-----------------------------------------------------------------------------
(***************************************************************************)
(* The Swift class is a port: what it writes, and what it leaves.          *)
(***************************************************************************)

LEMMA Nest ==
    ASSUME NEW A, NEW u \in Seq(A), NEW v \in Seq(A), NEW w \in Seq(A),
           NEW x, Joined(x, u, v), NEW c, Joined(c, x, w), NEW y, Joined(y, v, w)
    PROVE  Joined(c, u, y)
<1>1. PICK e : Joined(e, u, y)
  BY DEF Joined
<1>2. Joined(e, x, w)
  BY <1>1, Regroup
<1> QED
  BY <1>1, <1>2 DEF Joined

LEMMA ThreeSteps ==
    ASSUME NEW A, NEW e \in Seq(A), NEW x1 \in A, NEW x2 \in A, NEW x3 \in A,
           NEW c1, Extended(c1, e, x1), NEW c2, Extended(c2, c1, x2), NEW c3, Extended(c3, c2, x3)
    PROVE  c3 = e \o (<<x1>> \o <<x2>> \o <<x3>>)
<1>1. PICK a, b, c : a = <<x1>> /\ b = <<x2>> /\ c = <<x3>>
  OBVIOUS
<1>2. a \in Seq(A) /\ b \in Seq(A) /\ c \in Seq(A)
  BY <1>1
<1>3. PICK ab, abc : Joined(ab, a, b) /\ Joined(abc, ab, c)
  BY DEF Joined
<1>4. ab \in Seq(A)
  BY <1>2, <1>3, ConcatProperties DEF Joined
<1>5. Joined(c1, e, a) /\ Joined(c2, c1, b) /\ Joined(c3, c2, c)
  BY <1>1 DEF Extended, Joined
<1>6. Joined(c2, e, ab)
  BY <1>2, <1>3, <1>5, Nest
<1>7. Joined(c3, e, abc)
  BY <1>2, <1>3, <1>4, <1>5, <1>6, Nest
<1> QED
  BY <1>1, <1>3, <1>7 DEF Joined

\* Demodulates, of a state of the chip.
DemodulatesIn(s, type) ==
    /\ Value(s.regs["1:b1"]) = IF type \in R82xx THEN \h1a ELSE \h1b
    /\ Value(s.regs["1:15"]) = IF type \in R82xx THEN 1 ELSE 0
    /\ type \in R82xx => Value(s.regs["0:08"]) = \h4d
    /\ Value(s.regs["0:06"]) = \h80

\* The Swift class after the probe: the set-up for the R820T, if that is what it has found.
LEMMA SwiftSetUpRuns ==
    ASSUME NEW fit, NEW s, NEW m, NEW p, RunsTo(fit, s, p, m), Before(s, m)
    PROVE  \E t : /\ RunsTo(fit, s, p \o R820TSteps, t)
                  /\ t.missed = s.missed /\ 7 \in t.regs["DEMOD_CTL"] /\ DemodulatesIn(t, "R820T")
<1>1. /\ "1:b1" \in RegNames /\ "1:15" \in RegNames /\ "0:08" \in RegNames /\ "0:06" \in RegNames
      /\ "DEMOD_CTL" \in RegNames
      /\ \h1a \in 0..255 /\ \h4d \in 0..255 /\ 1 \in 0..255
  BY RegNamesAre
<1>2. PICK x1, x2, x3 : x1 = Write("1:b1", \h1a) /\ x2 = Write("0:08", \h4d) /\ x3 = Write("1:15", 1)
  OBVIOUS
<1>3. PICK c1, c2, c3 : Extended(c1, p, x1) /\ Extended(c2, c1, x2) /\ Extended(c3, c2, x3)
  BY DEF Extended
<1>4. PICK t1 : RunsTo(fit, s, c1, t1) /\ Put(m, t1, "1:b1", \h1a)
  BY <1>1, <1>2, <1>3, AddWrite
<1>5. PICK t2 : RunsTo(fit, s, c2, t2) /\ Put(t1, t2, "0:08", \h4d)
  BY <1>1, <1>2, <1>3, <1>4, AddWrite
<1>6. PICK t3 : RunsTo(fit, s, c3, t3) /\ Put(t2, t3, "1:15", 1)
  BY <1>1, <1>2, <1>3, <1>5, AddWrite
<1>7. /\ m.regs \in [RegNames -> Byte] /\ t1.regs \in [RegNames -> Byte] /\ t2.regs \in [RegNames -> Byte]
      /\ t3.regs \in [RegNames -> Byte]
  BY <1>4, <1>5, <1>6 DEF RunsTo, States
<1>8. /\ t3.regs["1:b1"] = BitsOf[\h1a] /\ t3.regs["0:08"] = BitsOf[\h4d] /\ t3.regs["1:15"] = BitsOf[1]
      /\ t3.regs["0:06"] = m.regs["0:06"] /\ t3.regs["DEMOD_CTL"] = m.regs["DEMOD_CTL"]
      /\ t3.missed = m.missed
  BY <1>1, <1>4, <1>5, <1>6, <1>7 DEF Put
<1>9. /\ m.regs["0:06"] = BitsOf[\h80] /\ 7 \in m.regs["DEMOD_CTL"] /\ m.missed = s.missed
  BY DEF Before, Hears
<1>10. t3.missed = s.missed /\ 7 \in t3.regs["DEMOD_CTL"] /\ DemodulatesIn(t3, "R820T")
  BY <1>8, <1>9, ValuesAre DEF DemodulatesIn, R82xx
<1>11. c3 = p \o R820TSteps
  <2>1. PICK A : A = AllSteps(fit)
    OBVIOUS
  <2>2. p \in Seq(A)
    BY <2>1 DEF RunsTo
  <2>3. x1 \in RegSteps
    BY <1>1, <1>2, WriteIs
  <2>4. x2 \in RegSteps
    BY <1>1, <1>2, WriteIs
  <2>5. x3 \in RegSteps
    BY <1>1, <1>2, WriteIs
  <2>6. x1 \in A /\ x2 \in A /\ x3 \in A
    BY <2>1, <2>3, <2>4, <2>5 DEF AllSteps, Spoken
  <2>7. c3 = p \o (<<x1>> \o <<x2>> \o <<x3>>)
    BY <1>3, <2>2, <2>6, ThreeSteps
  <2> QED
    BY <1>2, <2>7 DEF R820TSteps
<1> QED
  BY <1>6, <1>10, <1>11

\* Without a fault RTLSDR.init leaves the demodulator as its tuner wants it, whatever an
\* earlier session left in the chip, and the probe is heard.
LEMMA SwiftRuns ==
    ASSUME NEW s \in States(fitted), ~s.missed
    PROVE  \E t : /\ RunsTo(fitted, s, SwiftProgram, t)
                  /\ DemodulatesIn(t, IF isMatchingTuner THEN fitted ELSE "unknown") /\ Idle(t)
<1>1. "1:01" \in RegNames /\ \h10 \in 0..255 /\ "probe" = "probe"
  BY RegNamesAre
<1>2. PICK u, p, q, c : /\ u = BeforeProbing /\ Extended(p, u, Tuner("probe"))
                        /\ q = p \o (IF isMatchingTuner THEN R820TSteps ELSE <<>>)
                        /\ Extended(c, q, Write("1:01", \h10))
  BY DEF Extended
<1>3. PICK b : RunsTo(fitted, s, u, b) /\ Before(s, b)
  BY <1>2, BeforeRuns
<1>4. Hears(b) /\ Tuner("probe") \in Sayable(fitted)
  BY <1>3, SayIs DEF Before
<1>5. PICK m : RunsTo(fitted, s, p, m) /\ Told(b, m, "probe")
  BY <1>2, <1>3, <1>4, AddTuner
<1>6. Before(s, m)
  BY <1>3, <1>5 DEF Before, Told, Said, Hears
<1>7. PICK k : /\ RunsTo(fitted, s, q, k) /\ k.missed = s.missed /\ 7 \in k.regs["DEMOD_CTL"]
               /\ DemodulatesIn(k, IF isMatchingTuner THEN fitted ELSE "unknown")
  <2>1. CASE isMatchingTuner
    <3>1. PICK k : /\ RunsTo(fitted, s, p \o R820TSteps, k)
                   /\ k.missed = s.missed /\ 7 \in k.regs["DEMOD_CTL"] /\ DemodulatesIn(k, "R820T")
      BY <1>5, <1>6, SwiftSetUpRuns
    <3> QED
      BY <1>2, <2>1, <3>1 DEF isMatchingTuner
  <2>2. CASE ~isMatchingTuner
    <3>1. PICK A : A = AllSteps(fitted)
      OBVIOUS
    <3>2. p \in Seq(A)
      BY <1>5, <3>1 DEF RunsTo
    <3>3. q = p
      BY <1>2, <2>2, <3>2
    <3>4. m.missed = s.missed /\ 7 \in m.regs["DEMOD_CTL"] /\ DemodulatesIn(m, "unknown")
      BY <1>6, ValuesAre DEF Before, Hears, DemodulatesIn, R82xx
    <3> QED
      BY <1>5, <2>2, <3>3, <3>4
  <2> QED
    BY <2>1, <2>2
<1>8. PICK t : RunsTo(fitted, s, c, t) /\ Put(k, t, "1:01", \h10)
  BY <1>1, <1>2, <1>7, AddWrite
<1>9. k.regs \in [RegNames -> Byte] /\ t.regs \in [RegNames -> Byte]
  BY <1>7, <1>8 DEF RunsTo, States
<1>10. /\ t.regs["1:b1"] = k.regs["1:b1"] /\ t.regs["1:15"] = k.regs["1:15"] /\ t.regs["0:08"] = k.regs["0:08"]
       /\ t.regs["0:06"] = k.regs["0:06"] /\ t.regs["DEMOD_CTL"] = k.regs["DEMOD_CTL"]
       /\ t.regs["1:01"] = BitsOf[\h10] /\ t.missed = k.missed
  BY <1>1, <1>8, <1>9, RegNamesAre DEF Put
<1>11. DemodulatesIn(t, IF isMatchingTuner THEN fitted ELSE "unknown")
  BY <1>7, <1>10 DEF DemodulatesIn
<1>12. Idle(t)
  BY <1>7, <1>10, BitsHere DEF Idle
<1>13. c = SwiftProgram
  <2>1. BeforeProbing = BasebandSteps \o Repeater(TRUE)
    BY InitBasebandIs DEF BeforeProbing
  <2>2. SwiftProgram = BasebandSteps \o Repeater(TRUE) \o <<Tuner("probe")>>
                               \o (IF isMatchingTuner THEN R820TSteps ELSE <<>>) \o Repeater(FALSE)
    BY SwiftIs
  <2> QED
    BY <1>2, <2>1, <2>2 DEF Extended, Repeater
<1> QED
  BY <1>8, <1>11, <1>12, <1>13

LEMMA SwiftAgrees ==
    ASSUME TypeOK, SwiftBringUp, clean'
    PROVE  (~missed /\ Listening /\ Demodulates(IF isMatchingTuner THEN fitted ELSE "unknown"))'
<1>1. PICK p, s : p = SwiftProgram /\ s = [Now EXCEPT !.missed = FALSE]
  OBVIOUS
<1>2. PICK f : Become(After(s, p, Len(p), f)) /\ Note(f, TRUE)
  BY <1>1 DEF SwiftBringUp, SwiftProgram
<1>3. f = NoFault
  BY <1>2, StillClean
<1>4. s \in States(fitted) /\ ~s.missed
  BY <1>1, NowTyped DEF Now
<1>5. PICK t : /\ RunsTo(fitted, s, p, t)
               /\ DemodulatesIn(t, IF isMatchingTuner THEN fitted ELSE "unknown") /\ Idle(t)
  BY <1>1, <1>4, SwiftRuns
<1>6. Become(t)
  BY <1>2, <1>3, <1>5 DEF RunsTo, Run
<1>7. fitted' = fitted
  BY DEF SwiftBringUp
<1>8. regs' = t.regs /\ missed' = t.missed
  BY <1>6 DEF Become
<1> QED
  BY <1>5, <1>7, <1>8 DEF Idle, DemodulatesIn, Demodulates, Listening, isMatchingTuner

LEMMA WritesListed ==
    ASSUME NEW V, NEW b \in Blocks, NEW a \in Int, NEW v \in Int
    PROVE  One(b, a, v) \in Seq(Listed(V))
BY DEF One, Listed

LEMMA RowListed ==
    ASSUME NEW V, NEW b \in Blocks, NEW a \in Int, NEW bytes \in Seq(V)
    PROVE  Row(b, a, bytes) \in Seq(Listed(V))
<1>1. Row(b, a, bytes) = [n \in 1..Len(bytes) |-> [at |-> <<b, a + n - 1>>, val |-> bytes[n]]]
  BY DEF Row
<1>2. \A n \in 1..Len(bytes) : [at |-> <<b, a + n - 1>>, val |-> bytes[n]] \in Listed(V)
  <2> TAKE n \in 1..Len(bytes)
  <2>1. a + n - 1 \in Int /\ bytes[n] \in V
    OBVIOUS
  <2> QED
    BY <2>1 DEF Listed
<1>3. PICK A : A = Listed(V)
  OBVIOUS
<1>4. [n \in 1..Len(bytes) |-> [at |-> <<b, a + n - 1>>, val |-> bytes[n]]] \in Seq(A)
  BY <1>2, <1>3
<1> QED
  BY <1>1, <1>3, <1>4

\* The filter that the Swift class writes is that of the C sources.
LEMMA SameFilter ==
    /\ ~FirTraps(firCoefficients)
    /\ setFirCoefficients(firCoefficients) = Fir(fir_default)
<1>1. firCoefficients = fir_default
  BY DEF firCoefficients, fir_default
<1>2. PICK d : d = firCoefficients
  OBVIOUS
<1>3. ~FirTraps(d)
  <2>1. \A i \in 1..8 : d[i] \in -128..127
    BY <1>2, SMTT(30) DEF firCoefficients
  <2>2. d[9] = 101 /\ d[11] = 215 /\ d[13] = 327 /\ d[15] = 404
    BY <1>2 DEF firCoefficients
  <2>3. \A i \in {9, 11, 13, 15} : ~(Pattern(d[i]) \div 16 > 255)
    BY <2>2, SMTT(30) DEF Pattern
  <2> QED
    BY <2>1, <2>3, Zenon DEF FirTraps
<1>4. d \in [1..16 -> Int]
  <2>1. d \in Seq(Int) /\ Len(d) = 16
    BY <1>2, SMTT(30) DEF firCoefficients
  <2>2. PICK V : V = Int
    OBVIOUS
  <2>3. d \in Seq(V) /\ 16 \in Nat
    BY <2>1, <2>2
  <2>4. d \in [1..16 -> V]
    BY <2>1, <2>3, AsFunction
  <2> QED
    BY <2>2, <2>4
<1>5. setFirCoefficients(d) = Fir(d)
  BY <1>3, <1>4, SwiftFilterIsC
<1> QED
  BY <1>1, <1>2, <1>3, <1>5, Zenon

\* For an R820T the Swift class writes to the chip what rtlsdr_open writes to it, in the same order.
LEMMA SameWrites == SwiftInit = COpen
<1>1. PICK fir, g : fir = Fir(fir_default) /\ g = 3570000
  BY SMTT(20)
<1>2. g \in Nat
  BY <1>1, SMTT(20)
<1>3. PICK bytes : bytes = IfRegisters(g)
  OBVIOUS
<1>4. setIFFrequency(g) = bytes
  BY <1>2, <1>3, SwiftIfIsC
<1>5. PICK V : V = {bytes[1], bytes[2], bytes[3]}
  OBVIOUS
<1>6. bytes \in Seq(V)
  <2>1. PICK x, y, z : bytes = <<x, y, z>>
    BY <1>3 DEF IfRegisters
  <2> QED
    BY <1>5, <2>1
<1>7. PICK A, b1, b0 : A = Listed(V) /\ b1 = "1" /\ b0 = "0"
  OBVIOUS
<1>8. b1 \in Blocks /\ b0 \in Blocks
  BY <1>7 DEF Blocks
<1>9. PICK b \in Seq(A) : b = Baseband(fir)
  <2>1. \A i \in 1..16 : fir_default[i] \in Int
    BY SMTT(30) DEF fir_default
  <2>2. Fir(fir_default) \in Seq(Int \cup V) /\ Len(Fir(fir_default)) = 20
    BY <2>1, FirBytes
  <2>3. fir \in Seq(Int \cup V) /\ Len(fir) <= 20
    BY <1>1, <2>2
  <2> QED
    BY <1>7, <2>3, BasebandIs DEF Makes
<1>10. initBaseband = b /\ CBaseband = b
  BY <1>1, <1>9, SameFilter DEF initBaseband, CBaseband, Baseband
<1>11. PICK u \in Seq(A), p \in Seq(A), q \in Seq(A), w \in Seq(A), d \in Seq(A) :
         /\ u = One(b1, \h01, \h18) /\ p = One(b1, \hb1, \h1a) /\ q = One(b0, \h08, \h4d)
         /\ w = One(b1, \h15, \h01) /\ d = One(b1, \h01, \h10)
  <2>1. PICK B : B = Seq(A)
    OBVIOUS
  <2>2. \A t \in Blocks : \A m \in Int : \A v \in Int : One(t, m, v) \in B
    BY <1>7, <2>1, WritesListed
  <2>3. \h01 \in Int /\ \h18 \in Int /\ \hb1 \in Int /\ \h1a \in Int /\ \h08 \in Int /\ \h4d \in Int
          /\ \h15 \in Int /\ \h10 \in Int
    OBVIOUS
  <2>4. One(b1, \h01, \h18) \in B /\ One(b1, \hb1, \h1a) \in B
    BY <1>8, <2>2, <2>3
  <2>5. One(b0, \h08, \h4d) \in B /\ One(b1, \h15, \h01) \in B /\ One(b1, \h01, \h10) \in B
    BY <1>8, <2>2, <2>3
  <2>6. PICK u \in B, p \in B, q \in B, w \in B, d \in B :
         /\ u = One(b1, \h01, \h18) /\ p = One(b1, \hb1, \h1a) /\ q = One(b0, \h08, \h4d)
         /\ w = One(b1, \h15, \h01) /\ d = One(b1, \h01, \h10)
    BY <2>4, <2>5
  <2> QED
    BY <2>1, <2>6
<1>12. PICK r \in Seq(A) : r = Row(b1, \h19, bytes)
  BY <1>6, <1>7, <1>8, RowListed
<1>13. COpen = b \o u \o p \o q \o r \o w \o d
  BY <1>1, <1>3, <1>7, <1>10, <1>11, <1>12, SMTT(20) DEF COpen
<1>14. RTLTunerR820T = p \o q \o r \o w
  <2>1. r = Row(b1, \h19, setIFFrequency(g))
    BY <1>4, <1>12
  <2> QED
    BY <1>1, <1>7, <1>11, <2>1, SMTT(20) DEF RTLTunerR820T
<1>15. setI2CRepeater(TRUE) = u /\ setI2CRepeater(FALSE) = d
  BY <1>7, <1>11 DEF setI2CRepeater
<1>16. SwiftInit = b \o u \o (p \o q \o r \o w) \o d
  BY <1>10, <1>14, <1>15 DEF SwiftInit
<1>17. PICK e \in Seq(A) : e = b \o u
  <2>1. PICK e : e = b \o u
    OBVIOUS
  <2>2. e \in Seq(A)
    BY <2>1, ConcatProperties
  <2> QED
    BY <2>1, <2>2
<1>18. PICK c1, c2, c3, c4, c5 : /\ Joined(c1, e, p) /\ Joined(c2, c1, q) /\ Joined(c3, c2, r) /\ Joined(c4, c3, w)
                                 /\ Joined(c5, c4, d)
  BY DEF Joined
<1>19. PICK s2, s3, s4, f, h : Joined(s2, p, q) /\ Joined(s3, s2, r) /\ Joined(s4, s3, w) /\ Joined(f, e, s4)
                                 /\ Joined(h, f, d)
  BY DEF Joined
<1>20. c5 = h
  <2>1. s2 \in Seq(A)
    BY <1>19, ConcatProperties DEF Joined
  <2>2. s3 \in Seq(A)
    BY <1>19, <2>1, ConcatProperties DEF Joined
  <2>3. Joined(c2, e, s2)
    BY <1>18, <1>19, Nest
  <2>4. Joined(c3, e, s3)
    BY <1>18, <1>19, <2>1, <2>3, Nest
  <2>5. Joined(c4, e, s4)
    BY <1>18, <1>19, <2>2, <2>4, Nest
  <2> QED
    BY <1>18, <1>19, <2>5 DEF Joined
<1>21. COpen = c5
  BY <1>13, <1>17, <1>18 DEF Joined
<1>22. SwiftInit = h
  BY <1>16, <1>17, <1>19 DEF Joined
<1> QED
  BY <1>20, <1>21, <1>22

\* RTLSDR.init leaves every register as rtlsdr_open leaves it, with the same filter and the
\* same intermediate frequency, and without a fault the probe is heard and the demodulator
\* is in the mode of the tuner found, whatever an earlier session left in the chip.
THEOREM PortAlwaysAgrees == Spec => []PortAgrees
<1> DEFINE Ported == /\ Left(SwiftInit) = Left(COpen)
                     /\ ~FirTraps(firCoefficients)
                     /\ \A v, w \in FirSamples : LET coeff == FirWith(v, w)
                                                 IN  FirTraps(coeff) \/ setFirCoefficients(coeff) = Fir(coeff)
                     /\ \A n \in 0..1818 : setIFFrequency(7919 * n) = IfRegisters(7919 * n)
           Brought == ~missed /\ Listening /\ Demodulates(IF isMatchingTuner THEN fitted ELSE "unknown")
           Agrees  == call = "swift" /\ clean => Brought
<1>1. Ported
  <2>1. Left(SwiftInit) = Left(COpen) /\ ~FirTraps(firCoefficients)
    BY SameWrites, SameFilter, Zenon
  <2>2. ASSUME NEW v \in FirSamples, NEW w \in FirSamples
        PROVE  FirTraps(FirWith(v, w)) \/ setFirCoefficients(FirWith(v, w)) = Fir(FirWith(v, w))
    <3>1. PICK coeff : coeff = FirWith(v, w)
      OBVIOUS
    <3>2. coeff \in [1..16 -> Int]
      BY <3>1, FirWithIs
    <3>3. FirTraps(coeff) \/ setFirCoefficients(coeff) = Fir(coeff)
      BY <3>2, SwiftFilterIsC
    <3> QED
      BY <3>1, <3>3
  <2>3. ASSUME NEW n \in 0..1818
        PROVE  setIFFrequency(7919 * n) = IfRegisters(7919 * n)
    <3>1. 7919 * n \in Nat
      BY SMTT(20)
    <3> QED
      BY <3>1, SwiftIfIsC, SMTT(20)
  <2> QED
    BY <2>1, <2>2, <2>3, SMTT(20)
<1>2. Init => Agrees
  BY DEF Init
<1>3. TypeOK /\ Agrees /\ [Next]_vars => Agrees'
  <2> SUFFICES ASSUME TypeOK, Agrees, [Next]_vars, call' = "swift", clean'
               PROVE  Brought'
    OBVIOUS
  <2>1. CASE SwiftBringUp
    BY <2>1, SwiftAgrees
  <2>2. CASE UNCHANGED vars
    BY <2>2 DEF vars, dev, Listening, Demodulates, isMatchingTuner
  <2>3. CASE Next /\ ~SwiftBringUp
    BY <2>3 DEF Next, Open, Close, SetGain, SetSampleRate, DirectSampling, SetBiasTee, SetTestMode,
                SetAgcMode, IrQuery, Signal, Calls
  <2> QED
    BY <2>1, <2>2, <2>3
<1>4. Ported /\ Agrees => PortAgrees
  BY SMTT(20) DEF PortAgrees
<1> HIDE DEF Ported, Agrees
<1> QED
  BY <1>1, <1>2, <1>3, <1>4, DeviceTypes, PTL DEF Spec
=============================================================================
