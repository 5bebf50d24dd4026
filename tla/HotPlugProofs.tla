---------------------------- MODULE HotPlugProofs ----------------------------
(***************************************************************************)
(* Proofs about HotPlug, for any devices and whatever may happen to them:  *)
(* the two threads never use rtlDeviceList at once, no device is forgotten *)
(* and the application ends for a device that went away or is held only.   *)
(***************************************************************************)
EXTENDS HotPlug, TLAPS

\* A thread that empties an iterator asked for its notification.  Between
\* IOIteratorNext and the release of a device it has a device in hand, and once
\* that is known to be a dongle it is one.
InHand(t) ==
    /\ at[t] \notin {"register", "idle", "returned"} => work[t] \in registered
    /\ at[t] \in ListSteps => dev[t] \in Devices
    /\ at[t] \in InitSteps \cup {"insert"} => dev[t] \in Rtl

Typed == TypeOK /\ \A t \in Threads : InHand(t)

LEMMA FollowSteps == \A s \in DOMAIN Follow : s \in InitSteps /\ Follow[s] \in InitSteps
  BY DEF Follow, InitSteps

LEMMA InitTyped == Init => Typed
  BY DEF Init, Typed, TypeOK, InHand, Kinds, Threads, ListSteps, InitSteps

\* What happens outside the application.
LEMMA WorldTyped ==
  ASSUME Typed, NEW d \in Devices, Plug(d) \/ Unplug(d) \/ Hold(d)
  PROVE  Typed'
<1>1. ASSUME NEW kind \in Kinds, Matches(kind, d)
      PROVE  /\ pending' \in [Kinds -> SUBSET Devices]
             /\ armed' \subseteq registered
             /\ posted' \subseteq registered
  <2>1. CASE kind \notin registered
    BY <1>1, <2>1 DEF Matches, Typed, TypeOK
  <2>2. CASE kind \in registered
    <3>1. pending' \in [Kinds -> SUBSET Devices]
      BY <1>1, <2>2 DEF Matches, Typed, TypeOK
    <3>2. armed' \subseteq registered /\ posted' \subseteq registered
      BY <1>1, <2>2 DEF Matches, Typed, TypeOK
    <3> QED
      BY <3>1, <3>2
  <2> QED
    BY <2>1, <2>2
<1>2. CASE Plug(d)
  BY <1>1, <1>2 DEF Plug, Typed, TypeOK, InHand, Kinds, rtlVars
<1>3. CASE Unplug(d)
  BY <1>1, <1>3 DEF Unplug, Typed, TypeOK, InHand, Kinds, rtlVars
<1>4. CASE Hold(d)
  BY <1>4 DEF Hold, Typed, TypeOK, InHand, kitVars, rtlVars
<1> QED
  BY <1>2, <1>3, <1>4

LEMMA DeliverTyped ==
  ASSUME Typed, NEW kind \in Kinds, Deliver(kind)
  PROVE  Typed'
  BY DEF Deliver, Typed, TypeOK, InHand, Threads, ListSteps, InitSteps, ioVars, rtlVars

LEMMA RegisterTyped ==
  ASSUME Typed, Register
  PROVE  Typed'
<1>1. work["main"] \in Kinds
  BY DEF Typed, TypeOK, Threads
<1>2. AlreadyThere(work["main"]) \subseteq Devices
  BY DEF AlreadyThere
<1> QED
  BY <1>1, <1>2
  DEF Register, Typed, TypeOK, InHand, Threads, ListSteps, InitSteps, ioVars, rtlVars

\* The loop over an iterator.
LEMMA IteratorTyped ==
  ASSUME Typed, NEW t \in Threads, IteratorNext(t) \/ IteratorEmpty(t)
  PROVE  Typed'
<1>1. CASE IteratorNext(t)
  <2>1. work[t] \in Kinds /\ pending[work[t]] \subseteq Devices
    BY DEF Typed, TypeOK
  <2>2. PICK d \in Devices : /\ dev' = [dev EXCEPT ![t] = d]
                             /\ pending' = [pending EXCEPT ![work[t]] = @ \ {d}]
    BY <1>1, <2>1 DEF IteratorNext
  <2>3. PICK step \in {"lookup", "next"} : at' = [at EXCEPT ![t] = step]
    BY <1>1 DEF IteratorNext, Go, Handler
  <2>4. pending' \in [Kinds -> SUBSET Devices] /\ dev' \in [Threads -> Devices \cup {None}]
    BY <2>1, <2>2 DEF Typed, TypeOK
  <2>5. \A u \in Threads : InHand(u)'
    BY <1>1, <2>2, <2>3 DEF IteratorNext, Typed, TypeOK, InHand, ListSteps, InitSteps
  <2> QED
    BY <1>1, <2>3, <2>4, <2>5
    DEF IteratorNext, Typed, TypeOK, ListSteps, InitSteps, ioVars, rtlVars
<1>2. CASE IteratorEmpty(t)
  <2>1. armed' \subseteq registered'
    BY <1>2 DEF IteratorEmpty, Typed, TypeOK, InHand
  <2>2. /\ at' \in [Threads -> {"register", "idle", "next", "returned"} \cup ListSteps]
        /\ work' \in [Threads -> Kinds]
    BY <1>2 DEF IteratorEmpty, Go, Typed, TypeOK, Kinds
  <2>3. at'[t] \in {"register", "idle", "returned"}
    BY <1>2 DEF IteratorEmpty, Go, Typed, TypeOK
  <2>4. \A u \in Threads \ {t} : at'[u] = at[u] /\ work'[u] = work[u]
    BY <1>2 DEF IteratorEmpty, Go, Typed, TypeOK
  <2>5. \A u \in Threads : InHand(u)'
    BY <1>2, <2>3, <2>4 DEF IteratorEmpty, Typed, InHand, ListSteps, InitSteps
  <2> QED
    BY <1>2, <2>1, <2>2, <2>5
    DEF IteratorEmpty, Typed, TypeOK, ioVars, rtlVars
<1> QED
  BY <1>1, <1>2

\* RTLSDR.initWithRegistryID and RTLSDR.init.
LEMMA InitDeviceTyped ==
  ASSUME Typed, NEW t \in Threads,
         Lookup(t) \/ GetService(t) \/ BringUp(t) \/ Open(t) \/ Close(t) \/ Insert(t)
  PROVE  Typed'
<1>1. CASE Lookup(t)
  BY <1>1
  DEF Lookup, Go, Again, Typed, TypeOK, InHand, ListSteps, InitSteps, ioVars, kitVars, rtlVars
<1>2. CASE GetService(t)
  BY <1>2
  DEF GetService, Crash, Go, Again, IsKnownRTL, Typed, TypeOK, InHand, ListSteps, InitSteps,
      ioVars, kitVars, rtlVars
<1>3. CASE BringUp(t)
  <2>1. at[t] \in InitSteps /\ Follow[at[t]] \in InitSteps
    BY <1>3, FollowSteps DEF BringUp
  <2> QED
    BY <1>3, <2>1
    DEF BringUp, Crash, Go, Typed, TypeOK, InHand, ListSteps, InitSteps,
        ioVars, kitVars, rtlVars
<1>4. CASE Open(t)
  BY <1>4
  DEF Open, Go, Typed, TypeOK, InHand, ListSteps, InitSteps, ioVars, kitVars
<1>5. CASE Close(t)
  BY <1>5
  DEF Close, Go, Typed, TypeOK, InHand, ListSteps, InitSteps, ioVars, kitVars
<1>6. CASE Insert(t)
  BY <1>6
  DEF Insert, Go, Again, Typed, TypeOK, InHand, ListSteps, InitSteps, ioVars, kitVars
<1> QED
  BY <1>1, <1>2, <1>3, <1>4, <1>5, <1>6

LEMMA NextTyped == Typed /\ [Next]_vars => Typed'
<1> SUFFICES ASSUME Typed, [Next]_vars PROVE Typed'
  OBVIOUS
<1>1. ASSUME NEW t \in Threads, Handle(t) PROVE Typed'
  BY <1>1, IteratorTyped, InitDeviceTyped DEF Handle
<1>2. CASE Main
  BY <1>1, <1>2, RegisterTyped DEF Main, Threads
<1>3. CASE Queue
  BY <1>1, <1>3, DeliverTyped DEF Queue, Threads
<1>4. CASE UNCHANGED vars
  BY <1>4 DEF Typed, TypeOK, InHand, vars, ioVars, kitVars, rtlVars
<1> QED
  BY <1>2, <1>3, <1>4, WorldTyped DEF Next

\* Devices stay devices: every variable of the USB manager, of IOKit and of the
\* Swift class keeps its type, and only dongles are opened and listed.
THEOREM DevicesTypeCorrect == Spec => []TypeOK
<1>1. Spec => []Typed
  BY InitTyped, NextTyped, PTL DEF Spec
<1> QED
  BY <1>1, PTL DEF Typed
-----------------------------------------------------------------------------
(***************************************************************************)
(* The right to handle added devices is a token.  It is with the thread    *)
(* that empties the iterator, then with the armed iterator, then with the  *)
(* notification, and there is only one.                                    *)
(***************************************************************************)
Handling(t) == work[t] = "added" /\ at[t] \notin {"idle", "returned"}

OneToken ==
    /\ ~("added" \in armed /\ "added" \in posted)
    /\ \A t \in Threads : Handling(t) => "added" \notin armed /\ "added" \notin posted
    /\ ~(Handling("main") /\ Handling("queue"))

\* rtlDeviceList is used for added devices only, and main goes on to those removed.
ForAdded ==
    /\ \A t \in Threads : at[t] \in ListSteps => work[t] = "added"
    /\ at["queue"] # "register"

Token == Typed /\ OneToken /\ ForAdded

LEMMA InitToken == Init => Token
<1>1. Init => OneToken /\ ForAdded
  BY DEF Init, OneToken, Handling, ForAdded, Threads, ListSteps, InitSteps
<1> QED
  BY <1>1, InitTyped DEF Token

\* The world moves the token from the armed iterator to the notification.
LEMMA WorldToken ==
  ASSUME Token, NEW d \in Devices, Plug(d) \/ Unplug(d) \/ Hold(d)
  PROVE  OneToken' /\ ForAdded'
<1>1. UNCHANGED <<at, work>>
  BY DEF Plug, Unplug, Hold
<1>2. ~("added" \in armed' /\ "added" \in posted')
  BY DEF Plug, Unplug, Hold, Matches, Token, OneToken, kitVars
<1>3. "added" \in armed' \/ "added" \in posted' => "added" \in armed \/ "added" \in posted
  BY DEF Plug, Unplug, Hold, Matches, kitVars
<1> QED
  BY <1>1, <1>2, <1>3 DEF Token, OneToken, Handling, ForAdded

LEMMA DeliverToken ==
  ASSUME Token, NEW kind \in Kinds, Deliver(kind)
  PROVE  OneToken' /\ ForAdded'
  BY DEF Deliver, Token, Typed, TypeOK, OneToken, Handling, ForAdded, Kinds, Threads,
         ListSteps, InitSteps

LEMMA RegisterToken ==
  ASSUME Token, Register
  PROVE  OneToken' /\ ForAdded'
  BY DEF Register, Token, Typed, TypeOK, OneToken, Handling, ForAdded, Threads,
         ListSteps, InitSteps

LEMMA IteratorToken ==
  ASSUME Token, NEW t \in Threads, IteratorNext(t) \/ IteratorEmpty(t)
  PROVE  OneToken' /\ ForAdded'
<1>1. CASE IteratorNext(t)
  <2>1. (Handler(work[t]) = "lookup" /\ work[t] = "added") \/ Handler(work[t]) = "next"
    BY DEF Handler
  <2> QED
    BY <1>1, <2>1
    DEF IteratorNext, Go, Token, Typed, TypeOK, OneToken, Handling, ForAdded, Threads,
        ListSteps, InitSteps
<1>2. CASE IteratorEmpty(t)
  BY <1>2
  DEF IteratorEmpty, Go, Token, Typed, TypeOK, OneToken, Handling, ForAdded, Threads,
      Kinds, ListSteps, InitSteps
<1> QED
  BY <1>1, <1>2

\* A thread keeps the token while it brings a device up.
LEMMA InitDeviceToken ==
  ASSUME Token, NEW t \in Threads,
         Lookup(t) \/ GetService(t) \/ BringUp(t) \/ Open(t) \/ Close(t) \/ Insert(t)
  PROVE  OneToken' /\ ForAdded'
<1>1. at[t] \in ListSteps /\ UNCHANGED <<armed, posted, work>>
  BY FollowSteps
  DEF Lookup, GetService, BringUp, Open, Close, Insert, kitVars, ListSteps, InitSteps
<1>2. PICK step \in {"next"} \cup ListSteps : at' = [at EXCEPT ![t] = step]
  <2>1. \A s \in DOMAIN Follow : Follow[s] \in ListSteps
    BY FollowSteps DEF ListSteps
  <2>2. at' = at => at' = [at EXCEPT ![t] = at[t]]
    BY DEF Token, Typed, TypeOK
  <2> QED
    BY <1>1, <2>1, <2>2
    DEF Lookup, GetService, BringUp, Open, Close, Insert, Crash, Go, Again, ListSteps, InitSteps
<1>3. work[t] = "added" /\ Handling(t)
  BY <1>1 DEF Token, ForAdded, Handling, ListSteps, InitSteps
<1>4. \A u \in Threads : Handling(u)' => Handling(u)
  BY <1>1, <1>2, <1>3 DEF Handling, Token, Typed, TypeOK, Threads
<1>5. OneToken'
  BY <1>1, <1>4 DEF Token, OneToken, Threads
<1> QED
  BY <1>1, <1>2, <1>3, <1>5
  DEF ForAdded, Token, Typed, TypeOK, Threads, ListSteps, InitSteps

LEMMA NextToken == Token /\ [Next]_vars => Token'
<1> SUFFICES ASSUME Token, [Next]_vars PROVE Token'
  OBVIOUS
<1>1. Typed'
  BY NextTyped DEF Token
<1>2. ASSUME NEW t \in Threads, Handle(t) PROVE OneToken' /\ ForAdded'
  BY <1>2, IteratorToken, InitDeviceToken DEF Handle
<1>3. CASE Main
  BY <1>1, <1>2, <1>3, RegisterToken DEF Main, Threads, Token
<1>4. CASE Queue
  BY <1>1, <1>2, <1>4, DeliverToken DEF Queue, Threads, Token
<1>5. CASE UNCHANGED vars
  BY <1>1, <1>5
  DEF Token, OneToken, Handling, ForAdded, vars, ioVars, kitVars, rtlVars
<1> QED
  BY <1>1, <1>3, <1>4, <1>5, WorldToken DEF Next, Token

\* Both threads use the static dictionary rtlDeviceList without a lock, but
\* never at once, however devices come and go.
THEOREM OneAtATimeAlways == Spec => []OneAtATime
<1>1. Token => OneAtATime
  BY DEF Token, OneToken, Handling, ForAdded, OneAtATime, Threads, ListSteps, InitSteps
<1>2. Spec => []Token
  BY InitToken, NextToken, PTL DEF Spec
<1> QED
  BY <1>1, <1>2, PTL
-----------------------------------------------------------------------------
(***************************************************************************)
(* Every notification asked for is armed, on its way, or its iterator is   *)
(* being emptied; and an armed iterator is empty.                          *)
(***************************************************************************)
Emptying(t, kind) == at[t] \in {"next"} \cup ListSteps /\ work[t] = kind

WatchedKind(kind) ==
    /\ kind \in registered => kind \in armed \/ kind \in posted \/ \E t \in Threads : Emptying(t, kind)
    /\ kind \in armed \/ kind \notin registered => pending[kind] = {}

\* start asks for each notification once.
AsksOnce ==
    /\ work["main"] = "added" => "removed" \notin registered
    /\ at["main"] = "register" => work["main"] \notin registered
    /\ at["queue"] # "register"

Watched == Typed /\ AsksOnce /\ \A kind \in Kinds : WatchedKind(kind)

LEMMA InitWatched == Init => Watched
<1>1. Init => AsksOnce /\ \A kind \in Kinds : WatchedKind(kind)
  BY DEF Init, AsksOnce, WatchedKind, Threads
<1> QED
  BY <1>1, InitTyped DEF Watched

LEMMA WorldWatched ==
  ASSUME Watched, NEW d \in Devices, Plug(d) \/ Unplug(d) \/ Hold(d)
  PROVE  AsksOnce' /\ \A kind \in Kinds : WatchedKind(kind)'
<1>1. UNCHANGED <<at, work, registered>>
  BY DEF Plug, Unplug, Hold, kitVars
<1>2. AsksOnce'
  BY <1>1 DEF Watched, AsksOnce
<1>3. ASSUME NEW kind \in Kinds, NEW other \in Kinds, Matches(other, d)
      PROVE  WatchedKind(kind)'
  <2>1. CASE other \notin registered
    BY <1>1, <1>3, <2>1 DEF Matches, Watched, WatchedKind, Emptying
  <2>2. CASE other \in registered
    <3>1. /\ pending' = [pending EXCEPT ![other] = @ \cup {d}]
          /\ armed' = armed \ {other}
          /\ posted' = IF other \in armed THEN posted \cup {other} ELSE posted
      BY <1>3, <2>2 DEF Matches
    <3>2. pending \in [Kinds -> SUBSET Devices] /\ WatchedKind(kind)
      BY DEF Watched, Typed, TypeOK
    <3>3. CASE kind = other
      BY <1>1, <2>2, <3>1, <3>2, <3>3 DEF WatchedKind, Emptying
    <3>4. CASE kind # other
      BY <1>1, <3>1, <3>2, <3>4 DEF WatchedKind, Emptying
    <3> QED
      BY <3>3, <3>4
  <2> QED
    BY <2>1, <2>2
<1>4. ASSUME NEW kind \in Kinds
      PROVE  WatchedKind(kind)'
  <2>1. CASE Plug(d)
    BY <1>3, <2>1 DEF Plug, Kinds
  <2>2. CASE Unplug(d)
    BY <1>3, <2>2 DEF Unplug, Kinds
  <2>3. CASE Hold(d)
    BY <1>1, <2>3 DEF Hold, kitVars, Watched, WatchedKind, Emptying
  <2> QED
    BY <2>1, <2>2, <2>3
<1> QED
  BY <1>2, <1>4

LEMMA DeliverWatched ==
  ASSUME Watched, NEW kind \in Kinds, Deliver(kind)
  PROVE  AsksOnce' /\ \A k \in Kinds : WatchedKind(k)'
<1>1. /\ posted' = posted \ {kind}
      /\ at' = [at EXCEPT !["queue"] = "next"] /\ work' = [work EXCEPT !["queue"] = kind]
      /\ UNCHANGED <<registered, pending, armed>>
      /\ at["queue"] = "idle"
  BY DEF Deliver
<1>2. at \in [Threads -> {"register", "idle", "next", "returned"} \cup ListSteps] /\ work \in [Threads -> Kinds]
  BY DEF Watched, Typed, TypeOK
<1>3. AsksOnce'
  BY <1>1, <1>2 DEF Watched, AsksOnce, Threads
<1>4. Emptying("queue", kind)'
  BY <1>1, <1>2 DEF Emptying, Threads
<1>5. \A t \in Threads, k \in Kinds : Emptying(t, k) => Emptying(t, k)'
  BY <1>1, <1>2 DEF Emptying, Threads, ListSteps, InitSteps
<1>6. ASSUME NEW k \in Kinds
      PROVE  WatchedKind(k)'
  BY <1>1, <1>4, <1>5 DEF Watched, WatchedKind, Threads
<1> QED
  BY <1>3, <1>6

LEMMA RegisterWatched ==
  ASSUME Watched, Register
  PROVE  AsksOnce' /\ \A k \in Kinds : WatchedKind(k)'
<1> DEFINE kind == work["main"]
<1>1. /\ registered' = registered \cup {kind}
      /\ pending' = [pending EXCEPT ![kind] = AlreadyThere(kind)]
      /\ at' = [at EXCEPT !["main"] = "next"]
      /\ UNCHANGED <<armed, posted, work>>
      /\ at["main"] = "register"
  BY DEF Register
<1>2. /\ at \in [Threads -> {"register", "idle", "next", "returned"} \cup ListSteps]
      /\ kind \in Kinds /\ pending \in [Kinds -> SUBSET Devices] /\ armed \subseteq registered
  BY DEF Watched, Typed, TypeOK, Threads
<1>3. kind \notin registered
  BY <1>1 DEF Watched, AsksOnce
<1>4. AsksOnce'
  BY <1>1, <1>2 DEF Watched, AsksOnce, Threads
<1>5. Emptying("main", kind)'
  BY <1>1, <1>2 DEF Emptying, Threads
<1>6. \A t \in Threads, k \in Kinds : Emptying(t, k) => Emptying(t, k)'
  BY <1>1, <1>2 DEF Emptying, Threads, ListSteps, InitSteps
<1>7. ASSUME NEW k \in Kinds
      PROVE  WatchedKind(k)'
  <2>1. CASE k = kind
    BY <1>1, <1>2, <1>3, <1>5, <2>1 DEF WatchedKind, Threads
  <2>2. CASE k # kind
    BY <1>1, <1>2, <1>6, <2>2 DEF Watched, WatchedKind, Threads
  <2> QED
    BY <2>1, <2>2
<1> QED
  BY <1>4, <1>7

LEMMA IteratorWatched ==
  ASSUME Watched, NEW t \in Threads, IteratorNext(t) \/ IteratorEmpty(t)
  PROVE  AsksOnce' /\ \A k \in Kinds : WatchedKind(k)'
<1>1. /\ at \in [Threads -> {"register", "idle", "next", "returned"} \cup ListSteps]
      /\ work \in [Threads -> Kinds] /\ pending \in [Kinds -> SUBSET Devices]
      /\ armed \subseteq registered
  BY DEF Watched, Typed, TypeOK
<1>2. CASE IteratorNext(t)
  <2>1. PICK d \in Devices : pending' = [pending EXCEPT ![work[t]] = @ \ {d}]
    BY <1>1, <1>2 DEF IteratorNext
  <2>2. PICK step \in {"lookup", "next"} : at' = [at EXCEPT ![t] = step]
    BY <1>2 DEF IteratorNext, Go, Handler
  <2>3. UNCHANGED <<registered, armed, posted, work>>
    BY <1>2 DEF IteratorNext
  <2>4. \A u \in Threads, k \in Kinds : Emptying(u, k) => Emptying(u, k)'
    BY <1>1, <2>2, <2>3 DEF Emptying, ListSteps
  <2>5. AsksOnce'
    BY <1>1, <2>2, <2>3 DEF Watched, AsksOnce, Threads
  <2>6. \A k \in Kinds : pending[k] = {} => pending'[k] = {}
    BY <1>1, <2>1
  <2> QED
    BY <2>3, <2>4, <2>5, <2>6 DEF Watched, WatchedKind
<1>3. CASE IteratorEmpty(t)
  <2>1. /\ armed' = armed \cup {work[t]} /\ pending[work[t]] = {}
        /\ UNCHANGED <<registered, pending, posted>> /\ at[t] = "next"
    BY <1>3 DEF IteratorEmpty
  <2>2. \A u \in Threads \ {t} : at'[u] = at[u] /\ work'[u] = work[u]
    BY <1>1, <1>3 DEF IteratorEmpty, Go
  <2>3. ASSUME NEW u \in Threads, NEW k \in Kinds, Emptying(u, k), k # work[t]
        PROVE  Emptying(u, k)'
    BY <2>2, <2>3 DEF Emptying
  <2>4. work[t] \in registered
    BY <2>1 DEF Watched, Typed, InHand
  <2>5. AsksOnce'
    <3>1. CASE t = "main" /\ work[t] = "added"
      <4>1. at' = [at EXCEPT !["main"] = "register"] /\ work' = [work EXCEPT !["main"] = "removed"]
        BY <1>3, <3>1 DEF IteratorEmpty, Go
      <4> QED
        BY <1>1, <2>1, <3>1, <4>1 DEF Watched, AsksOnce, Threads
    <3>2. CASE ~(t = "main" /\ work[t] = "added")
      <4>1. at' = [at EXCEPT ![t] = IF t = "main" THEN "returned" ELSE "idle"] /\ work' = work
        BY <1>3, <3>2 DEF IteratorEmpty, Go
      <4> QED
        BY <1>1, <2>1, <4>1 DEF Watched, AsksOnce, Threads
    <3> QED
      BY <3>1, <3>2
  <2>6. ASSUME NEW k \in Kinds
        PROVE  WatchedKind(k)'
    <3>1. CASE k = work[t]
      BY <2>1, <2>4, <3>1 DEF WatchedKind
    <3>2. CASE k # work[t]
      BY <2>1, <2>3, <3>2 DEF Watched, WatchedKind
    <3> QED
      BY <3>1, <3>2
  <2> QED
    BY <2>5, <2>6
<1> QED
  BY <1>2, <1>3

LEMMA InitDeviceWatched ==
  ASSUME Watched, NEW t \in Threads,
         Lookup(t) \/ GetService(t) \/ BringUp(t) \/ Open(t) \/ Close(t) \/ Insert(t)
  PROVE  AsksOnce' /\ \A k \in Kinds : WatchedKind(k)'
<1>1. at[t] \in ListSteps /\ UNCHANGED <<registered, pending, armed, posted, work>>
  BY FollowSteps
  DEF Lookup, GetService, BringUp, Open, Close, Insert, kitVars, ListSteps, InitSteps
<1>2. at \in [Threads -> {"register", "idle", "next", "returned"} \cup ListSteps]
  BY DEF Watched, Typed, TypeOK
<1>3. PICK step \in {"next"} \cup ListSteps : at' = [at EXCEPT ![t] = step]
  <2>1. \A s \in DOMAIN Follow : Follow[s] \in ListSteps
    BY FollowSteps DEF ListSteps
  <2>2. at' = at => at' = [at EXCEPT ![t] = at[t]]
    BY <1>2
  <2> QED
    BY <1>1, <2>1, <2>2
    DEF Lookup, GetService, BringUp, Open, Close, Insert, Crash, Go, Again, ListSteps, InitSteps
<1>4. \A u \in Threads, k \in Kinds : Emptying(u, k) => Emptying(u, k)'
  BY <1>1, <1>2, <1>3 DEF Emptying
<1>5. step # "register"
  BY <1>3 DEF ListSteps, InitSteps
<1>6. AsksOnce'
  BY <1>1, <1>2, <1>3, <1>5 DEF Watched, AsksOnce, Threads
<1> QED
  BY <1>1, <1>4, <1>6 DEF Watched, WatchedKind

LEMMA NextWatched == Watched /\ [Next]_vars => Watched'
<1> SUFFICES ASSUME Watched, [Next]_vars PROVE Watched'
  OBVIOUS
<1>1. Typed'
  BY NextTyped DEF Watched
<1>2. ASSUME NEW t \in Threads, Handle(t)
      PROVE  AsksOnce' /\ \A k \in Kinds : WatchedKind(k)'
  BY <1>2, IteratorWatched, InitDeviceWatched DEF Handle
<1>3. CASE Main
  BY <1>1, <1>2, <1>3, RegisterWatched DEF Main, Threads, Watched
<1>4. CASE Queue
  BY <1>1, <1>2, <1>4, DeliverWatched DEF Queue, Threads, Watched
<1>5. CASE UNCHANGED vars
  BY <1>1, <1>5 DEF Watched, AsksOnce, WatchedKind, Emptying, vars, kitVars
<1> QED
  BY <1>1, <1>3, <1>4, <1>5, WorldWatched DEF Next, Watched

\* A device that waits in an iterator is not forgotten: the loops of the two
\* callbacks empty their iterators, and only that arms the next notification.
THEOREM NoDeviceIsLost == Spec => []NoLostDevice
<1>1. Watched => NoLostDevice
  BY DEF Watched, WatchedKind, Emptying, NoLostDevice
<1>2. Spec => []Watched
  BY InitWatched, NextWatched, PTL DEF Spec
<1> QED
  BY <1>1, <1>2, PTL
-----------------------------------------------------------------------------
(***************************************************************************)
(* What makes a step of the bring-up fail has happened to the device.      *)
(***************************************************************************)
Lost(d) == present[d] = "gone" \/ d \in held

\* A device that is handled, or waits, was there once; behind USBDeviceOpen it is
\* open, or was lost before.
CauseOf(t) ==
    /\ at[t] \in ListSteps => present[dev[t]] # "absent"
    /\ at[t] \in InitSteps \ {"interface", "open"} /\ dev[t] \notin opened => Lost(dev[t])

Caused ==
    /\ \A kind \in Kinds : \A d \in pending[kind] : present[d] # "absent"
    /\ \A t \in Threads : CauseOf(t)
    /\ CrashHasCause

Blamed == Token /\ Caused

\* One thread brings a device up, the other is not at it.
LEMMA Alone ==
  ASSUME Token, NEW t \in Threads, at[t] \in ListSteps, NEW u \in Threads, u # t
  PROVE  at[u] \notin ListSteps
  BY DEF Token, OneToken, Handling, ForAdded, Threads, ListSteps, InitSteps

LEMMA InitBlamed == Init => Blamed
<1>1. Init => Caused
  BY DEF Init, Caused, CauseOf, CrashHasCause, Threads, ListSteps, InitSteps
<1> QED
  BY <1>1, InitToken DEF Blamed

LEMMA WorldBlamed ==
  ASSUME Blamed, NEW d \in Devices, Plug(d) \/ Unplug(d) \/ Hold(d)
  PROVE  Caused'
<1>1. /\ present \in [Devices -> {"absent", "present", "gone"}]
      /\ pending \in [Kinds -> SUBSET Devices]
      /\ \A t \in Threads : at[t] \in ListSteps => dev[t] \in Devices
      /\ InitSteps \subseteq ListSteps
  BY DEF Blamed, Token, Typed, TypeOK, InHand, ListSteps
<1>2. UNCHANGED <<at, dev, opened, crashed>>
  BY DEF Plug, Unplug, Hold, rtlVars
<1>3. \A e \in Devices : /\ present[e] # "absent" => present'[e] # "absent"
                         /\ Lost(e) => Lost(e)'
  BY <1>1 DEF Plug, Unplug, Hold, Lost
<1>4. \A t \in Threads : CauseOf(t)'
  BY <1>1, <1>2, <1>3 DEF Blamed, Caused, CauseOf
<1>5. CrashHasCause'
  BY <1>1, <1>2, <1>3 DEF Blamed, Caused, CrashHasCause, Lost
<1>6. ASSUME NEW kind \in Kinds, NEW e \in pending'[kind]
      PROVE  present'[e] # "absent"
  <2>1. CASE Hold(d)
    BY <1>6, <2>1 DEF Hold, kitVars, Blamed, Caused
  <2>2. ASSUME NEW other \in Kinds, Matches(other, d), present'[d] # "absent"
        PROVE  present'[e] # "absent"
    <3>1. e \in pending[kind] \/ e = d
      BY <1>1, <1>6, <2>2 DEF Matches
    <3>2. e \in pending[kind] => e \in Devices /\ present[e] # "absent"
      BY <1>1 DEF Blamed, Caused
    <3> QED
      BY <1>3, <2>2, <3>1, <3>2
  <2>3. CASE Plug(d)
    <3>1. present'[d] # "absent" /\ Matches("added", d)
      BY <1>1, <2>3 DEF Plug
    <3> QED
      BY <2>2, <3>1 DEF Kinds
  <2>4. CASE Unplug(d)
    <3>1. present'[d] # "absent" /\ Matches("removed", d)
      BY <1>1, <2>4 DEF Unplug
    <3> QED
      BY <2>2, <3>1 DEF Kinds
  <2> QED
    BY <2>1, <2>3, <2>4
<1> QED
  BY <1>4, <1>5, <1>6 DEF Caused

LEMMA DeliverBlamed ==
  ASSUME Blamed, NEW kind \in Kinds, Deliver(kind)
  PROVE  Caused'
<1>1. at' = [at EXCEPT !["queue"] = "next"] /\ UNCHANGED <<present, held, pending, dev, opened, crashed>> /\ ~crashed
  BY DEF Deliver, ioVars, rtlVars
<1>2. at \in [Threads -> {"register", "idle", "next", "returned"} \cup ListSteps]
  BY DEF Blamed, Token, Typed, TypeOK
<1> QED
  BY <1>1, <1>2 DEF Blamed, Caused, CauseOf, CrashHasCause, Lost, ListSteps, InitSteps

LEMMA RegisterBlamed ==
  ASSUME Blamed, Register, ~crashed
  PROVE  Caused'
<1>1. /\ at' = [at EXCEPT !["main"] = "next"]
      /\ pending' = [pending EXCEPT ![work["main"]] = AlreadyThere(work["main"])]
      /\ UNCHANGED <<present, held, dev, opened, crashed>>
  BY DEF Register, ioVars, rtlVars
<1>2. /\ at \in [Threads -> {"register", "idle", "next", "returned"} \cup ListSteps]
      /\ pending \in [Kinds -> SUBSET Devices]
  BY DEF Blamed, Token, Typed, TypeOK
<1>3. \A d \in AlreadyThere(work["main"]) : present[d] # "absent"
  BY DEF AlreadyThere
<1>4. \A kind \in Kinds : \A d \in pending'[kind] : present'[d] # "absent"
  BY <1>1, <1>2, <1>3 DEF Blamed, Caused
<1>5. \A t \in Threads : CauseOf(t)'
  BY <1>1, <1>2 DEF Blamed, Caused, CauseOf, Lost, ListSteps, InitSteps
<1> QED
  BY <1>1, <1>4, <1>5 DEF Caused, CrashHasCause

LEMMA IteratorBlamed ==
  ASSUME Blamed, ~crashed, NEW t \in Threads, IteratorNext(t) \/ IteratorEmpty(t)
  PROVE  Caused'
<1>1. /\ at \in [Threads -> {"register", "idle", "next", "returned"} \cup ListSteps]
      /\ dev \in [Threads -> Devices \cup {None}]
      /\ work \in [Threads -> Kinds] /\ pending \in [Kinds -> SUBSET Devices]
  BY DEF Blamed, Token, Typed, TypeOK
<1>2. UNCHANGED <<present, held, opened, crashed>>
  BY DEF IteratorNext, IteratorEmpty, ioVars, rtlVars
<1>3. CASE IteratorNext(t)
  <2>1. PICK d \in pending[work[t]] : /\ dev' = [dev EXCEPT ![t] = d]
                                     /\ pending' = [pending EXCEPT ![work[t]] = @ \ {d}]
    BY <1>3 DEF IteratorNext
  <2>2. PICK step \in {"lookup", "next"} : at' = [at EXCEPT ![t] = step]
    BY <1>3 DEF IteratorNext, Go, Handler
  <2>3. present[d] # "absent"
    BY <1>1 DEF Blamed, Caused
  <2>4. \A kind \in Kinds : \A e \in pending'[kind] : present'[e] # "absent"
    BY <1>1, <1>2, <2>1 DEF Blamed, Caused
  <2>5. CauseOf(t)'
    BY <1>1, <1>2, <2>1, <2>2, <2>3 DEF CauseOf, InitSteps
  <2>6. \A u \in Threads \ {t} : CauseOf(u)'
    BY <1>1, <1>2, <2>1, <2>2 DEF Blamed, Caused, CauseOf, Lost
  <2> QED
    BY <1>2, <2>4, <2>5, <2>6 DEF Caused, CrashHasCause
<1>4. CASE IteratorEmpty(t)
  <2>1. UNCHANGED <<pending, dev>>
    BY <1>4 DEF IteratorEmpty
  <2>2. at'[t] \in {"register", "idle", "returned"} /\ \A u \in Threads \ {t} : at'[u] = at[u]
    BY <1>1, <1>4 DEF IteratorEmpty, Go
  <2>3. CauseOf(t)'
    BY <2>2 DEF CauseOf, ListSteps, InitSteps
  <2>4. \A u \in Threads \ {t} : CauseOf(u)'
    BY <1>2, <2>1, <2>2 DEF Blamed, Caused, CauseOf, Lost
  <2> QED
    BY <1>2, <2>1, <2>3, <2>4 DEF Blamed, Caused, CrashHasCause
<1> QED
  BY <1>3, <1>4

LEMMA InitDeviceBlamed ==
  ASSUME Blamed, ~crashed, NEW t \in Threads,
         Lookup(t) \/ GetService(t) \/ BringUp(t) \/ Open(t) \/ Close(t) \/ Insert(t)
  PROVE  Caused'
<1>1. at[t] \in ListSteps /\ UNCHANGED <<present, held, pending, dev>>
  BY FollowSteps
  DEF Lookup, GetService, BringUp, Open, Close, Insert, ioVars, kitVars, ListSteps, InitSteps
<1>2. /\ at \in [Threads -> {"register", "idle", "next", "returned"} \cup ListSteps]
      /\ present \in [Devices -> {"absent", "present", "gone"}]
      /\ dev[t] \in Devices
  BY <1>1 DEF Blamed, Token, Typed, TypeOK, InHand
<1>3. present[dev[t]] # "absent"
  BY <1>1 DEF Blamed, Caused, CauseOf
<1>4. \A kind \in Kinds : \A d \in pending'[kind] : present'[d] # "absent"
  BY <1>1 DEF Blamed, Caused
\* The other thread is elsewhere.
<1>5. ASSUME NEW u \in Threads, u # t, at'[u] = at[u]
      PROVE  CauseOf(u)'
  <2>1. at[u] \notin ListSteps
    BY <1>1, <1>5, Alone DEF Blamed
  <2> QED
    BY <1>5, <2>1 DEF CauseOf, ListSteps
<1>6. ASSUME NEW step, Go(t, step), UNCHANGED crashed,
             step \in InitSteps \ {"interface", "open"} /\ dev[t] \notin opened' => Lost(dev[t])
      PROVE  Caused'
  <2>1. at'[t] = step /\ \A u \in Threads \ {t} : at'[u] = at[u]
    BY <1>2, <1>6 DEF Go
  <2>2. CauseOf(t)'
    BY <1>1, <1>3, <1>6, <2>1 DEF CauseOf, Lost
  <2>3. \A u \in Threads : CauseOf(u)'
    BY <1>5, <2>1, <2>2
  <2> QED
    BY <1>4, <1>6, <2>3 DEF Caused, CrashHasCause
<1>7. ASSUME Crash, Lost(dev[t])
      PROVE  Caused'
  <2>1. UNCHANGED <<at, opened>>
    BY <1>7 DEF Crash, rtlVars
  <2>2. CrashHasCause'
    BY <1>1, <1>7, <2>1 DEF CrashHasCause, Lost
  <2>3. \A u \in Threads : CauseOf(u)'
    BY <1>1, <2>1 DEF Blamed, Caused, CauseOf, Lost
  <2> QED
    BY <1>4, <2>2, <2>3 DEF Caused
<1>8. CASE Lookup(t)
  <2>1. PICK step \in {"next", "service"} : Go(t, step)
    BY <1>8 DEF Lookup, Again
  <2> QED
    BY <1>6, <1>8, <2>1 DEF Lookup, InitSteps
<1>9. CASE GetService(t)
  <2>1. CASE present[dev[t]] # "present"
    BY <1>2, <1>3, <1>7, <1>9, <2>1 DEF GetService, Lost
  <2>2. CASE present[dev[t]] = "present"
    <3>1. PICK step \in {"next", "interface"} : Go(t, step)
      BY <1>9, <2>2 DEF GetService, Again
    <3> QED
      BY <1>6, <1>9, <2>2, <3>1 DEF GetService, InitSteps
  <2> QED
    BY <2>1, <2>2
<1>10. CASE BringUp(t)
  <2>1. at[t] \in DOMAIN Follow
    BY <1>10 DEF BringUp
  <2>2. CASE Responds(t)
    <3>1. Go(t, Follow[at[t]]) /\ UNCHANGED <<opened, crashed>>
      BY <1>10, <2>2 DEF BringUp, rtlVars
    <3>2. at[t] = "interface" => Follow[at[t]] = "open"
      BY DEF Follow
    <3>3. Follow[at[t]] = "open" \/ dev[t] \in opened
      BY <2>2, <3>2 DEF Responds
    <3> QED
      BY <1>6, <3>1, <3>3
  <2>3. CASE ~Responds(t)
    <3>1. Crash
      BY <1>10, <2>3 DEF BringUp
    <3>2. CASE present[dev[t]] = "present"
      <4>1. at[t] # "interface" /\ dev[t] \notin opened
        BY <2>3, <3>2 DEF Responds
      <4>2. at[t] \in InitSteps \ {"interface", "open"}
        BY <2>1, <4>1 DEF Follow, InitSteps
      <4>3. Lost(dev[t])
        BY <4>1, <4>2 DEF Blamed, Caused, CauseOf
      <4> QED
        BY <1>7, <3>1, <4>3
    <3>3. CASE present[dev[t]] # "present"
      BY <1>2, <1>3, <1>7, <3>1, <3>3 DEF Lost
    <3> QED
      BY <3>2, <3>3
  <2> QED
    BY <2>2, <2>3
<1>11. CASE Open(t)
  <2>1. dev[t] \notin opened' => Lost(dev[t])
    BY <1>2, <1>3, <1>11 DEF Open, Lost
  <2> QED
    BY <1>6, <1>11, <2>1 DEF Open
<1>12. CASE Close(t)
  BY <1>6, <1>12 DEF Close, InitSteps
<1>13. CASE Insert(t)
  BY <1>6, <1>13 DEF Insert, Again, InitSteps
<1> QED
  BY <1>8, <1>9, <1>10, <1>11, <1>12, <1>13

LEMMA NextBlamed == Blamed /\ [Next]_vars => Blamed'
<1> SUFFICES ASSUME Blamed, [Next]_vars PROVE Blamed'
  OBVIOUS
<1>1. Token'
  BY NextToken DEF Blamed
<1>2. ASSUME NEW t \in Threads, Handle(t), ~crashed
      PROVE  Caused'
  BY <1>2, IteratorBlamed, InitDeviceBlamed DEF Handle
<1>3. CASE Main
  BY <1>1, <1>2, <1>3, RegisterBlamed DEF Main, Threads, Blamed
<1>4. CASE Queue
  BY <1>1, <1>2, <1>4, DeliverBlamed DEF Queue, Threads, Blamed
<1>5. CASE UNCHANGED vars
  BY <1>1, <1>5
  DEF Blamed, Caused, CauseOf, CrashHasCause, Lost, vars, ioVars, kitVars, rtlVars
<1> QED
  BY <1>1, <1>3, <1>4, <1>5, WorldBlamed DEF Next, Blamed

\* The application ends (fatalError) only while it handles a device that was
\* unplugged or that another process has open.
THEOREM CrashAlwaysHasCause == Spec => []CrashHasCause
<1>1. Spec => []Blamed
  BY InitBlamed, NextBlamed, PTL DEF Spec
<1>2. Blamed => CrashHasCause
  BY DEF Blamed, Caused
<1> QED
  BY <1>1, <1>2, PTL
=============================================================================
