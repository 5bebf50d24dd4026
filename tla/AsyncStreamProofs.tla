-------------------------- MODULE AsyncStreamProofs --------------------------
(***************************************************************************)
(* Proofs about AsyncStream, for any number of transfers and of threads    *)
(* that cancel, and any set of faults unless a theorem says otherwise.     *)
(***************************************************************************)
EXTENDS AsyncStream, TLAPS

(***************************************************************************)
(* Type correctness needs to know that an index in use is one of a         *)
(* transfer.                                                               *)
(***************************************************************************)
IndexOK == pc \in {"submit", "sweepEvents"} => i \in Xfers

Typed == TypeOK /\ IndexOK

LEMMA InitTyped == Init => Typed
<1> SUFFICES ASSUME Init PROVE Typed
  OBVIOUS
<1>1. i \in 1..(BufNum + 1) /\ cur \in 0..BufNum /\ runs \in 0..MaxRuns
  BY StreamAssumption DEF Init
<1>2. status \in [Xfers -> EndStatus] /\ urb \in [Xfers -> UrbState]
  BY DEF Init, EndStatus, UrbState
<1>3. cancel \in [Threads -> CancelPC]
  BY DEF Init, CancelPC
<1> QED
  BY <1>1, <1>2, <1>3
  DEF Init, Typed, TypeOK, IndexOK, AsyncStatus, ReaderPC, CloserPC

\* The three ways rtlsdr_cancel_async goes on.
LEMMA CancelTyped ==
  ASSUME Typed, NEW t \in Threads, CancelStep(t)
  PROVE  Typed'
  BY StreamAssumption
  DEF CancelStep, CancelTest, CancelStatus, CancelFlag, AskedStatus, Typed, TypeOK,
      IndexOK, Xfers, AsyncStatus, ReaderPC, CancelPC, devVars, usbVars, readerVars

LEMMA KernelTyped ==
  ASSUME Typed, NEW x \in Xfers, Complete(x) \/ Fail(x) \/ Discard(x)
  PROVE  Typed'
  BY DEF Complete, Fail, Discard, Typed, TypeOK, IndexOK, UrbState, EndStatus,
         devVars, readerVars

LEMMA CallbackTyped ==
  ASSUME Typed, Callback
  PROVE  Typed'
<1>1. ASSUME NEW x \in Xfers, ReapCompleted(x) PROVE Typed'
  BY <1>1, StreamAssumption
  DEF ReapCompleted, Reap, Typed, TypeOK, IndexOK, Xfers, UrbState, EndStatus,
      CancelPC, Threads, devVars
<1>2. ASSUME NEW x \in Xfers, ReapCancelled(x) PROVE Typed'
  BY <1>2 DEF ReapCancelled, Reap, Typed, TypeOK, IndexOK, UrbState, EndStatus, devVars
<1>3. ASSUME NEW x \in Xfers, ReapFailed(x) PROVE Typed'
  <2>1. Errors(x) \in Nat
    BY DEF Errors, Typed, TypeOK
  <2> QED
    BY <1>3, <2>1
    DEF ReapFailed, Reap, Typed, TypeOK, IndexOK, UrbState, EndStatus, CancelPC, Threads
<1>4. CASE Resubmit
  BY <1>4, StreamAssumption
  DEF Resubmit, SubmitAgain, Typed, TypeOK, IndexOK, Xfers, UrbState
<1> QED
  BY <1>1, <1>2, <1>3, <1>4 DEF Callback

LEMMA SweepTyped ==
  ASSUME Typed, Sweep
  PROVE  Typed'
<1>1. CASE SweepSkip
  BY <1>1, StreamAssumption
  DEF SweepSkip, SweepGoes, Typed, TypeOK, IndexOK, Xfers, devVars, usbVars
<1>2. CASE SweepCancel
  <2>1. i \in Xfers
    BY <1>2, StreamAssumption DEF SweepCancel, SweepGoes, Typed, TypeOK, Xfers
  <2> QED
    BY <1>2, <2>1
    DEF SweepCancel, Ended, Typed, TypeOK, IndexOK, ReaderPC, devVars
<1>3. CASE SweepEventsReturn
  BY <1>3, StreamAssumption
  DEF SweepEventsReturn, Typed, TypeOK, IndexOK, Xfers, ReaderPC, devVars, usbVars
<1>4. CASE SweepEnd
  BY <1>4 DEF SweepEnd, Ended, Typed, TypeOK, IndexOK, ReaderPC, devVars, usbVars
<1> QED
  BY <1>1, <1>2, <1>3, <1>4 DEF Sweep

LEMMA ReaderTyped ==
  ASSUME Typed, ReaderStep
  PROVE  Typed'
<1>1. CASE ReadAsyncClaim
  BY <1>1 DEF ReadAsyncClaim, Typed, TypeOK, IndexOK, AsyncStatus, ReaderPC, usbVars
<1>2. CASE ReadAsyncClear
  <2>1. status' \in [Xfers -> EndStatus] /\ urb' \in [Xfers -> UrbState]
    BY <1>2 DEF ReadAsyncClear, EndStatus, UrbState
  <2>2. 1 \in 1..(BufNum + 1) /\ 1 \in Xfers
    BY StreamAssumption DEF Xfers
  <2> QED
    BY <1>2, <2>1, <2>2
    DEF ReadAsyncClear, ClearFlag, Typed, TypeOK, IndexOK, ReaderPC
<1>3. CASE ReadAsyncSubmit
  <2>1. i \in Xfers /\ urb' \in [Xfers -> UrbState]
    BY <1>3 DEF ReadAsyncSubmit, Typed, TypeOK, IndexOK, UrbState
  <2>2. i # BufNum => i + 1 \in Xfers
    BY <2>1, StreamAssumption DEF Xfers
  <2>3. Xfers \subseteq 1..(BufNum + 1)
    BY StreamAssumption DEF Xfers
  <2> QED
    BY <1>3, <2>1, <2>2, <2>3
    DEF ReadAsyncSubmit, Typed, TypeOK, IndexOK, ReaderPC, devVars
<1>4. CASE ReadAsyncSubmitFails
  BY <1>4 DEF ReadAsyncSubmitFails, Typed, TypeOK, IndexOK, AsyncStatus, ReaderPC, usbVars
<1>5. CASE ReadAsyncLoop \/ ReadAsyncEventsFail
  BY <1>5
  DEF ReadAsyncLoop, ReadAsyncEventsFail, Ended, Typed, TypeOK, IndexOK, ReaderPC,
      devVars, usbVars
<1>6. CASE ReadAsyncEventsReturn
  <2>1. 1 \in 1..(BufNum + 1)
    BY StreamAssumption
  <2> QED
    BY <1>6, <2>1
    DEF ReadAsyncEventsReturn, ResetNext, Typed, TypeOK, IndexOK, ReaderPC, devVars, usbVars
<1>7. CASE FinalEventsReturn \/ ReadAsyncFree \/ ReadAsyncPublish
  BY <1>7
  DEF FinalEventsReturn, ReadAsyncFree, ReadAsyncPublish, StoreStatus, Typed, TypeOK,
      IndexOK, AsyncStatus, ReaderPC, devVars, usbVars
<1> QED
  BY <1>1, <1>2, <1>3, <1>4, <1>5, <1>6, <1>7, CallbackTyped, SweepTyped DEF ReaderStep

LEMMA NextTyped == Typed /\ [Next]_vars => Typed'
<1> SUFFICES ASSUME Typed, [Next]_vars PROVE Typed'
  OBVIOUS
<1>1. CASE ReadAsyncCall
  BY <1>1, StreamAssumption
  DEF ReadAsyncCall, Typed, TypeOK, IndexOK, ReaderPC, devVars, usbVars
<1>2. CASE \E t \in Cancellers : CancelCall(t)
  BY <1>2
  DEF CancelCall, Typed, TypeOK, IndexOK, CancelPC, Threads, devVars, usbVars, readerVars
<1>3. CASE CloseCall \/ CloseStep
  BY <1>3
  DEF CloseCall, CloseStep, CloseLost, CloseWait, CloseFree, Typed, TypeOK, IndexOK,
      CloserPC, devVars, usbVars, readerVars
<1>4. CASE Unplug
  BY <1>4 DEF Unplug, Typed, TypeOK, IndexOK, devVars, readerVars
<1>5. CASE UNCHANGED vars
  BY <1>5 DEF vars, Typed, TypeOK, IndexOK, devVars, usbVars, readerVars
<1> QED
  BY <1>1, <1>2, <1>3, <1>4, <1>5, ReaderTyped, CancelTyped, KernelTyped DEF Next, Kernel

\* The state of the stream is well formed whatever libusb and the device do.
THEOREM TypeCorrect == Spec => []TypeOK
<1>1. Typed => TypeOK
  BY DEF Typed
<1> QED
  BY <1>1, InitTyped, NextTyped, PTL DEF Spec
-----------------------------------------------------------------------------
(***************************************************************************)
(* rtlsdr_close, for every set of faults.  While the Reader uses the       *)
(* device the status is not INACTIVE, so a close that waits for INACTIVE   *)
(* finds the Reader out, and it stays out, for no stream starts once       *)
(* rtlsdr_close was called.  A close that does not wait saw dev_lost.      *)
(***************************************************************************)
Held == pc \notin {"out", "claim"} => async_status # "INACTIVE"

Closing ==
    /\ closer # "out" => pc # "claim"
    /\ closer \in {"free", "closed"} => pc = "out" \/ dev_lost

LEMMA HeldStep == Held /\ [Next]_vars => Held'
<1> SUFFICES ASSUME Held, [Next]_vars PROVE Held'
  OBVIOUS
<1>1. CASE ReadAsyncCall
  BY <1>1 DEF ReadAsyncCall, Held
<1>2. ASSUME NEW t \in Threads, CancelStep(t) PROVE Held'
  BY <1>2
  DEF CancelStep, CancelTest, CancelStatus, CancelFlag, AskedStatus, Held, devVars, readerVars
<1>3. CASE \E t \in Cancellers : CancelCall(t)
  BY <1>3 DEF CancelCall, Held, devVars, readerVars
<1>4. CASE CloseCall \/ CloseStep
  BY <1>4 DEF CloseCall, CloseStep, CloseLost, CloseWait, CloseFree, Held, devVars, readerVars
<1>5. CASE Kernel \/ Unplug
  BY <1>5 DEF Kernel, Complete, Fail, Discard, Unplug, Held, devVars, readerVars
<1>6. CASE UNCHANGED vars
  BY <1>6 DEF vars, Held, devVars, readerVars
<1>7. CASE Callback
  BY <1>7
  DEF Callback, ReapCompleted, ReapCancelled, ReapFailed, Reap, Resubmit, Held, devVars
<1>8. CASE Sweep
  BY <1>8
  DEF Sweep, SweepSkip, SweepCancel, SweepEventsReturn, SweepEnd, Held, devVars
<1>9. CASE ReaderStep /\ ~Callback /\ ~Sweep
  BY <1>9
  DEF ReaderStep, ReadAsyncClaim, ReadAsyncClear, ReadAsyncSubmit, ReadAsyncSubmitFails,
      ReadAsyncLoop, ReadAsyncEventsFail, ReadAsyncEventsReturn, FinalEventsReturn,
      ReadAsyncFree, ReadAsyncPublish, Held, devVars
<1> QED
  BY <1>1, <1>2, <1>3, <1>4, <1>5, <1>6, <1>7, <1>8, <1>9 DEF Next

LEMMA ClosingStep == Held /\ Closing /\ [Next]_vars => Closing'
<1> SUFFICES ASSUME Held, Closing, [Next]_vars PROVE Closing'
  OBVIOUS
<1>1. CASE ReadAsyncCall
  BY <1>1 DEF ReadAsyncCall, Closing
<1>2. ASSUME NEW t \in Threads, CancelStep(t) PROVE Closing'
  BY <1>2 DEF CancelStep, CancelTest, CancelStatus, CancelFlag, Closing, devVars, readerVars
<1>3. CASE \E t \in Cancellers : CancelCall(t)
  BY <1>3 DEF CancelCall, Closing, devVars, readerVars
<1>4. CASE CloseCall
  BY <1>4 DEF CloseCall, Closing, devVars, readerVars
<1>5. CASE CloseStep
  BY <1>5
  DEF CloseStep, CloseLost, CloseWait, CloseFree, MustWait, Inactive, Held, Closing,
      devVars, readerVars
<1>6. CASE Kernel \/ Unplug
  BY <1>6 DEF Kernel, Complete, Fail, Discard, Unplug, Closing, devVars, readerVars
<1>7. CASE UNCHANGED vars
  BY <1>7 DEF vars, Closing, devVars, readerVars
<1>8. CASE Callback
  BY <1>8
  DEF Callback, ReapCompleted, ReapCancelled, ReapFailed, Reap, Resubmit, Closing, devVars
<1>9. CASE Sweep
  BY <1>9
  DEF Sweep, SweepSkip, SweepCancel, SweepEventsReturn, SweepEnd, Closing, devVars
<1>10. CASE ReaderStep /\ ~Callback /\ ~Sweep
  BY <1>10
  DEF ReaderStep, ReadAsyncClaim, ReadAsyncClear, ReadAsyncSubmit, ReadAsyncSubmitFails,
      ReadAsyncLoop, ReadAsyncEventsFail, ReadAsyncEventsReturn, FinalEventsReturn,
      ReadAsyncFree, ReadAsyncPublish, Closing, devVars
<1> QED
  BY <1>1, <1>2, <1>3, <1>4, <1>5, <1>6, <1>7, <1>8, <1>9, <1>10 DEF Next

\* rtlsdr_close frees a device that was not lost only after the stream ended,
\* whatever libusb does and whoever cancels.
THEOREM CloseIsLastAlways == Spec => []CloseIsLast
<1>1. Init => Held /\ Closing
  BY DEF Init, Held, Closing
<1>2. Held /\ Closing /\ [Next]_vars => Held' /\ Closing'
  BY HeldStep, ClosingStep
<1>3. Held /\ Closing => CloseIsLast
  BY DEF Closing, CloseIsLast
<1> QED
  BY <1>1, <1>2, <1>3, PTL DEF Spec
-----------------------------------------------------------------------------
(***************************************************************************)
(* No transfer is with the USB stack when its buffer is freed, if cancels  *)
(* are prompt (PromptCancel).  The argument: a sweep leaves every transfer *)
(* below its index idle.  One that it skips was last seen cancelled, and a *)
(* cancelled transfer is not resubmitted.  One that it cancels comes back  *)
(* cancelled at once, so the events handled next report it, after which it *)
(* is idle.  So at the end of a sweep all are idle, and nothing is left    *)
(* that could submit one.                                                  *)
(***************************************************************************)

\* The batch holds transfers that ended, and only event handling has one.
Reported ==
    /\ batch \subseteq Ended(urb)
    /\ ~InEvents => batch = {} /\ cur = 0
    /\ cur # 0 => urb[cur] = "idle" /\ status[cur] = "COMPLETED"

\* What was reported cancelled is idle, and nothing is asked back for long.
Settled ==
    /\ \A x \in Xfers : urb[x] # "cancelling"
    /\ \A x \in Xfers : SeenCancelled(x) => urb[x] = "idle"
    /\ pc = "submit" => \A x \in Xfers : status[x] = "COMPLETED"

\* The transfers below the sweep's index are idle, the one at it about to be.
Swept ==
    /\ pc \in {"sweep", "sweepEvents"} =>
          \A x \in Xfers : x < i => urb[x] = "idle" /\ cur # x
    /\ pc = "sweepEvents" =>
          \/ urb[i] = "idle" /\ cur # i
          \/ urb[i] = "CANCELLED" /\ i \in batch

\* Outside the streaming loop all are idle.
AllHome ==
    pc \in {"finalEvents", "free", "publish", "out", "claim", "clear"} =>
        cur = 0 /\ \A x \in Xfers : urb[x] = "idle"

Home == Typed /\ Held /\ Reported /\ Settled /\ Swept /\ AllHome

LEMMA InitHome == Init => Home
  BY InitTyped
  DEF Init, Home, Held, Reported, Settled, Swept, AllHome, SeenCancelled, Ended, EndStatus

\* Steps that leave the Reader and the transfers alone.
LEMMA OthersHome ==
  ASSUME Home, Typed', Held', UNCHANGED <<status, urb, pc, i, batch, cur>>
  PROVE  Home'
  BY DEF Home, Reported, Settled, Swept, AllHome, SeenCancelled, Ended, InEvents

LEMMA KernelHome ==
  ASSUME Home, Typed', Held', NEW x \in Xfers, Complete(x) \/ Fail(x) \/ Discard(x)
  PROVE  Home'
<1>1. /\ urb[x] = "submitted"
      /\ \E s \in EndStatus \ {"CANCELLED"} : urb' = [urb EXCEPT ![x] = s]
      /\ UNCHANGED <<status, pc, i, batch, cur>>
  BY DEF Complete, Fail, Discard, Home, Settled, EndStatus, readerVars
<1>2. Reported'
  BY <1>1 DEF Home, Typed, TypeOK, Reported, Ended, EndStatus, InEvents
<1>3. Settled' /\ AllHome'
  BY <1>1 DEF Home, Typed, TypeOK, Settled, AllHome, SeenCancelled, EndStatus
<1>4. Swept'
  BY <1>1 DEF Home, Typed, TypeOK, Swept
<1> QED
  BY <1>2, <1>3, <1>4 DEF Home

\* One callback: the transfer leaves the batch and is idle.
LEMMA ReapHome ==
  ASSUME Home, Typed', Held', NEW x \in Xfers, Reap(x),
         cur' = IF urb[x] = "COMPLETED" THEN x ELSE cur
  PROVE  Home'
<1>1. x \in batch /\ urb[x] \in EndStatus /\ cur = 0 /\ InEvents
  BY DEF Reap, CallbackDone, Home, Reported, Ended
<1>2. Reported'
  BY <1>1 DEF Reap, Home, Typed, TypeOK, Reported, Ended, InEvents
<1>3. Settled'
  BY <1>1 DEF Reap, Home, Typed, TypeOK, Settled, SeenCancelled, InEvents, EndStatus
<1>4. pc # "finalEvents"
  BY <1>1 DEF Home, AllHome, EndStatus
<1>5. Swept' /\ AllHome'
  BY <1>1, <1>4 DEF Reap, Home, Typed, TypeOK, IndexOK, Swept, AllHome, InEvents, EndStatus
<1> QED
  BY <1>2, <1>3, <1>5 DEF Home

LEMMA ResubmitHome ==
  ASSUME Home, Typed', Held', Resubmit
  PROVE  Home'
<1>1. cur \in Xfers /\ cur # 0
  BY StreamAssumption DEF Resubmit, Home, Typed, TypeOK, Xfers
<1>2. urb[cur] = "idle" /\ status[cur] = "COMPLETED" /\ InEvents /\ pc # "finalEvents"
  BY <1>1 DEF Home, Reported, AllHome
<1>3. /\ \A x \in Xfers : x # cur => urb'[x] = urb[x]
      /\ urb'[cur] \in {"idle", "submitted"}
      /\ cur' = 0
      /\ UNCHANGED <<status, pc, i, batch>>
  BY <1>1, <1>2 DEF Resubmit, SubmitAgain, Home, Typed, TypeOK
<1>4. Reported'
  BY <1>1, <1>2, <1>3 DEF Home, Reported, Ended, EndStatus, InEvents
<1>5. Settled'
  BY <1>1, <1>2, <1>3 DEF Home, Settled, SeenCancelled, InEvents
<1>6. Swept' /\ AllHome'
  <2>1. \A x \in Xfers : cur' # x
    BY <1>3 DEF Xfers
  <2> QED
    BY <1>1, <1>2, <1>3, <2>1 DEF Home, Typed, IndexOK, Swept, AllHome, InEvents
<1> QED
  BY <1>4, <1>5, <1>6 DEF Home

LEMMA SweepHome ==
  ASSUME Home, Typed', Held', PromptCancel, Sweep
  PROVE  Home'
<1>1. CASE SweepSkip
  <2>1. /\ i \in Xfers /\ urb[i] = "idle" /\ cur = 0 /\ pc = "sweep" /\ i' = i + 1
        /\ UNCHANGED <<status, urb, pc, batch, cur>>
    BY <1>1, StreamAssumption
    DEF SweepSkip, SweepGoes, Home, Typed, TypeOK, Reported, Settled, InEvents, Xfers, usbVars
  <2>2. \A x \in Xfers : x < i' => x < i \/ x = i
    BY <2>1 DEF Xfers
  <2> QED
    BY <2>1, <2>2
    DEF Home, Reported, Settled, Swept, AllHome, SeenCancelled, Ended, InEvents, Xfers
<1>2. CASE SweepCancel
  <2>1. /\ i \in Xfers /\ cur = 0 /\ pc = "sweep" /\ pc' = "sweepEvents"
        /\ batch' = Ended(urb')
        /\ UNCHANGED <<status, i, cur>>
    BY <1>2, StreamAssumption
    DEF SweepCancel, SweepGoes, Home, Typed, TypeOK, Reported, InEvents, Xfers
  <2>2. PICK s \in UrbState : CancelLeaves(i, s) /\ urb' = [urb EXCEPT ![i] = s]
    BY <1>2 DEF SweepCancel
  <2>3. s = "CANCELLED" \/ (s = "idle" /\ urb[i] = "idle")
    <3>1. urb[i] \in UrbState \ {"cancelling"}
      BY <2>1 DEF Home, Typed, TypeOK, Settled
    <3>2. "SLOW_CANCEL" \notin Faults /\ "LATE_CANCEL" \notin Faults
      BY DEF PromptCancel
    <3> QED
      BY <2>2, <3>1, <3>2 DEF CancelLeaves, UrbState
  <2>4. Reported'
    BY <2>1 DEF Reported, InEvents, Ended
  <2>5. Settled'
    BY <1>2, <2>1, <2>2, <2>3 DEF SweepCancel, Home, Typed, TypeOK, Settled, SeenCancelled
  <2>6. Swept' /\ AllHome'
    BY <2>1, <2>2, <2>3, StreamAssumption
    DEF Home, Typed, TypeOK, Swept, AllHome, Ended, EndStatus, Xfers
  <2> QED
    BY <2>4, <2>5, <2>6 DEF Home
<1>3. CASE SweepEventsReturn
  <2>1. /\ i \in Xfers /\ urb[i] = "idle" /\ cur = 0 /\ batch = {}
        /\ pc = "sweepEvents" /\ pc' = "sweep" /\ i' = i + 1
        /\ UNCHANGED <<status, urb, batch, cur>>
    BY <1>3
    DEF SweepEventsReturn, EventsDone, CallbackDone, Home, Typed, IndexOK, Swept, usbVars
  <2>2. \A x \in Xfers : x < i' => x < i \/ x = i
    BY <2>1 DEF Xfers
  <2> QED
    BY <2>1, <2>2
    DEF Home, Reported, Settled, Swept, AllHome, SeenCancelled, Ended, InEvents, Xfers
<1>4. CASE SweepEnd
  <2>1. \A x \in Xfers : x < i
    BY <1>4, StreamAssumption DEF SweepEnd, SweepGoes, Home, Typed, TypeOK, Xfers
  <2>2. cur = 0 /\ batch = {} /\ \A x \in Xfers : urb[x] = "idle"
    BY <1>4, <2>1 DEF SweepEnd, Home, Reported, Swept, InEvents
  <2>3. /\ cur' = 0 /\ batch' = {}
        /\ pc' \in {"finalEvents", "loop"}
        /\ UNCHANGED <<status, urb, i>>
    BY <1>4, <2>2 DEF SweepEnd, Ended, EndStatus, usbVars
  <2> QED
    BY <2>2, <2>3 DEF Home, Reported, Settled, Swept, AllHome, SeenCancelled, Ended, InEvents
<1> QED
  BY <1>1, <1>2, <1>3, <1>4 DEF Sweep

LEMMA ReaderHome ==
  ASSUME Home, Typed', Held', PromptCancel, ReaderStep
  PROVE  Home'
<1>1. CASE ReadAsyncClaim
  BY <1>1
  DEF ReadAsyncClaim, Home, Reported, Settled, Swept, AllHome, SeenCancelled, Ended,
      InEvents, usbVars
<1>2. CASE ReadAsyncClear
  <2>1. /\ \A x \in Xfers : status'[x] = "COMPLETED" /\ urb'[x] = "idle"
        /\ cur' = 0 /\ batch' = {} /\ pc' = "submit"
    BY <1>2 DEF ReadAsyncClear, Home, Reported, InEvents
  <2> QED
    BY <2>1
    DEF Home, Reported, Settled, Swept, AllHome, SeenCancelled, Ended, EndStatus, InEvents
<1>3. CASE ReadAsyncSubmit
  <2>1. /\ i \in Xfers /\ cur = 0 /\ batch = {} /\ pc = "submit" /\ pc' \in {"submit", "loop"}
        /\ urb' = [urb EXCEPT ![i] = "submitted"]
        /\ UNCHANGED <<status, cur, batch>>
    BY <1>3 DEF ReadAsyncSubmit, Home, Typed, IndexOK, Reported, InEvents
  <2> QED
    BY <2>1
    DEF Home, Typed, TypeOK, Reported, Settled, Swept, AllHome, SeenCancelled, Ended,
        InEvents
<1>4. CASE ReadAsyncSubmitFails
  BY <1>4
  DEF ReadAsyncSubmitFails, Home, Reported, Settled, Swept, AllHome, SeenCancelled,
      Ended, InEvents, usbVars
<1>5. CASE ReadAsyncLoop
  <2>1. async_status # "INACTIVE"
    BY <1>5 DEF ReadAsyncLoop, Home, Held
  <2>2. /\ cur = 0 /\ pc' = "events" /\ batch' \subseteq Ended(urb)
        /\ UNCHANGED <<status, urb, i, cur>>
    BY <1>5, <2>1 DEF ReadAsyncLoop, Home, Reported, InEvents, usbVars
  <2> QED
    BY <2>2 DEF Home, Reported, Settled, Swept, AllHome, SeenCancelled, Ended, InEvents
<1>6. CASE ReadAsyncEventsFail
  BY <1>6 DEF ReadAsyncEventsFail, PromptCancel
<1>7. CASE ReadAsyncEventsReturn
  <2>1. /\ cur = 0 /\ batch = {}
        /\ (pc' = "sweep" /\ i' = 1) \/ pc' = "loop"
        /\ UNCHANGED <<status, urb, batch, cur>>
    BY <1>7 DEF ReadAsyncEventsReturn, EventsDone, CallbackDone, usbVars
  <2>2. \A x \in Xfers : ~(x < 1)
    BY DEF Xfers
  <2> QED
    BY <2>1, <2>2
    DEF Home, Reported, Settled, Swept, AllHome, SeenCancelled, Ended, InEvents
<1>8. CASE Callback
  <2>1. ASSUME NEW x \in Xfers, ReapCompleted(x) PROVE Home'
    BY <2>1, ReapHome DEF ReapCompleted
  <2>2. ASSUME NEW x \in Xfers, ReapCancelled(x) PROVE Home'
    BY <2>2, ReapHome DEF ReapCancelled
  <2>3. ASSUME NEW x \in Xfers, ReapFailed(x) PROVE Home'
    BY <2>3, ReapHome DEF ReapFailed
  <2> QED
    BY <1>8, <2>1, <2>2, <2>3, ResubmitHome DEF Callback
<1>9. CASE FinalEventsReturn \/ ReadAsyncFree \/ ReadAsyncPublish
  BY <1>9
  DEF FinalEventsReturn, EventsDone, CallbackDone, ReadAsyncFree, ReadAsyncPublish, Home,
      Reported, Settled, Swept, AllHome, SeenCancelled, Ended, InEvents, usbVars
<1> QED
  BY <1>1, <1>2, <1>3, <1>4, <1>5, <1>6, <1>7, <1>8, <1>9, SweepHome DEF ReaderStep

LEMMA NextHome == PromptCancel /\ Home /\ [Next]_vars => Home'
<1> SUFFICES ASSUME PromptCancel, Home, [Next]_vars PROVE Home'
  OBVIOUS
<1> USE NextTyped, HeldStep DEF Home
<1>1. CASE ReadAsyncCall
  BY <1>1
  DEF ReadAsyncCall, Reported, Settled, Swept, AllHome, SeenCancelled, Ended, InEvents, usbVars
<1>2. ASSUME NEW t \in Threads, CancelStep(t) PROVE Home'
  BY <1>2, OthersHome DEF CancelStep, CancelTest, CancelStatus, CancelFlag, usbVars, readerVars
<1>3. CASE \E t \in Cancellers : CancelCall(t)
  BY <1>3, OthersHome DEF CancelCall, usbVars, readerVars
<1>4. CASE CloseCall \/ CloseStep \/ Unplug \/ UNCHANGED vars
  BY <1>4, OthersHome
  DEF CloseCall, CloseStep, CloseLost, CloseWait, CloseFree, Unplug, vars, usbVars, readerVars
<1>5. CASE Kernel
  BY <1>5, KernelHome DEF Kernel
<1>6. CASE ReaderStep
  BY <1>6, ReaderHome
<1> QED
  BY <1>1, <1>2, <1>3, <1>4, <1>5, <1>6 DEF Next

\* Where cancels are prompt, every transfer is home when its buffer is freed.
THEOREM BuffersAreHome ==
  ASSUME PromptCancel
  PROVE  Spec => []BuffersHome
<1>1. Home => BuffersHome
  BY DEF Home, AllHome, BuffersHome
<1>2. Home /\ [Next]_vars => Home'
  BY NextHome
<1> QED
  BY <1>1, <1>2, InitHome, PTL DEF Spec
-----------------------------------------------------------------------------
(***************************************************************************)
(* Where cancels are prompt, the stream implements StreamContract: every   *)
(* step is one of the contract's or leaves the contract's state alone.     *)
(***************************************************************************)
Draining ==
    pc \in {"sweep", "sweepEvents", "finalEvents", "free", "publish"} =>
        async_status = "CANCELING"

LEMMA DrainingStep ==
  ASSUME PromptCancel, Held, Draining, [Next]_vars
  PROVE  Draining'
<1>1. CASE ReadAsyncCall
  BY <1>1 DEF ReadAsyncCall, Draining
<1>2. ASSUME NEW t \in Threads, CancelStep(t) PROVE Draining'
  BY <1>2
  DEF CancelStep, CancelTest, CancelStatus, CancelFlag, AskedStatus, Draining, devVars,
      readerVars
<1>3. CASE \E t \in Cancellers : CancelCall(t)
  BY <1>3 DEF CancelCall, Draining, devVars, readerVars
<1>4. CASE CloseCall \/ CloseStep
  BY <1>4
  DEF CloseCall, CloseStep, CloseLost, CloseWait, CloseFree, Draining, devVars, readerVars
<1>5. CASE Kernel \/ Unplug \/ UNCHANGED vars
  BY <1>5 DEF Kernel, Complete, Fail, Discard, Unplug, Draining, vars, devVars, readerVars
<1>6. CASE Callback
  BY <1>6
  DEF Callback, ReapCompleted, ReapCancelled, ReapFailed, Reap, Resubmit, Draining, devVars
<1>7. CASE Sweep
  BY <1>7
  DEF Sweep, SweepSkip, SweepCancel, SweepEventsReturn, SweepEnd, Draining, devVars
<1>8. CASE ReadAsyncEventsFail
  BY <1>8 DEF ReadAsyncEventsFail, PromptCancel
<1>9. CASE ReaderStep /\ ~Callback /\ ~Sweep /\ ~ReadAsyncEventsFail
  BY <1>9
  DEF ReaderStep, ReadAsyncClaim, ReadAsyncClear, ReadAsyncSubmit, ReadAsyncSubmitFails,
      ReadAsyncLoop, ReadAsyncEventsReturn, FinalEventsReturn, ReadAsyncFree,
      ReadAsyncPublish, Held, Draining, devVars
<1> QED
  BY <1>1, <1>2, <1>3, <1>4, <1>5, <1>6, <1>7, <1>8, <1>9 DEF Next

LEMMA ContractInit == Init => Contract!Init
  BY DEF Init, Contract!Init, phase, lent

\* A step of rtlsdr_cancel_async: a running stream is drained.
LEMMA ContractCancel ==
  ASSUME Home, NEW t \in Threads, CancelStep(t)
  PROVE  [Contract!Next]_(Contract!vars)
<1>1. lent' = lent
  BY DEF CancelStep, CancelTest, CancelStatus, CancelFlag, lent, usbVars
<1>2. phase' = phase \/ (phase = "streaming" /\ phase' = "draining")
  BY DEF CancelStep, CancelTest, CancelStatus, CancelFlag, AskedStatus, phase, devVars,
         readerVars
<1> QED
  BY <1>1, <1>2 DEF Contract!Next, Contract!Cancel, Contract!vars

\* A callback: the buffer comes home, and goes out again if it is resubmitted.
LEMMA ContractCallback ==
  ASSUME Home, Callback
  PROVE  [Contract!Next]_(Contract!vars)
<1>1. ASSUME NEW x \in Xfers, Reap(x), UNCHANGED async_status PROVE Contract!GiveBack(x)
  <2>1. x \in lent
    BY <1>1 DEF Reap, Home, Reported, Ended, EndStatus, lent
  <2>2. lent' = lent \ {x}
    BY <1>1 DEF Reap, Home, Typed, TypeOK, lent
  <2>3. phase' = phase
    BY <1>1 DEF Reap, phase
  <2> QED
    BY <2>1, <2>2, <2>3 DEF Contract!GiveBack
<1>2. CASE Resubmit
  <2>1. cur \in Xfers /\ cur \notin lent /\ phase # "idle"
    BY <1>2, StreamAssumption
    DEF Resubmit, Home, Typed, TypeOK, Reported, InEvents, lent, phase, Xfers
  <2>2. lent' = lent \cup {cur} \/ lent' = lent
    BY <1>2, <2>1 DEF Resubmit, SubmitAgain, Home, Typed, TypeOK, lent
  <2>3. phase' = phase
    BY <1>2 DEF Resubmit, phase
  <2> QED
    BY <2>1, <2>2, <2>3 DEF Contract!Next, Contract!Lend, Contract!vars
<1>3. ASSUME NEW x \in Xfers, ReapCompleted(x) \/ ReapCancelled(x) \/ ReapFailed(x)
      PROVE  [Contract!Next]_(Contract!vars)
  BY <1>1, <1>3
  DEF ReapCompleted, ReapCancelled, ReapFailed, devVars, Contract!Next
<1> QED
  BY <1>2, <1>3 DEF Callback

\* Sweeping changes neither the phase nor what is lent.
LEMMA ContractSweep ==
  ASSUME Home, Sweep
  PROVE  UNCHANGED Contract!vars
<1>1. phase' = phase
  BY DEF Sweep, SweepSkip, SweepCancel, SweepEventsReturn, SweepEnd, phase, devVars
<1>2. CASE SweepCancel
  <2>1. PICK s \in UrbState : CancelLeaves(i, s) /\ urb' = [urb EXCEPT ![i] = s]
    BY <1>2 DEF SweepCancel
  <2>2. urb[i] = "idle" <=> s = "idle"
    BY <2>1 DEF CancelLeaves, UrbState, EndStatus
  <2> QED
    BY <1>1, <2>1, <2>2 DEF Home, Typed, TypeOK, lent, Contract!vars
<1>3. CASE ~SweepCancel
  BY <1>1, <1>3 DEF Sweep, SweepSkip, SweepEventsReturn, SweepEnd, lent, usbVars, Contract!vars
<1> QED
  BY <1>2, <1>3

LEMMA ContractReader ==
  ASSUME PromptCancel, Home, Draining, ReaderStep
  PROVE  [Contract!Next]_(Contract!vars)
<1>1. CASE ReadAsyncClaim
  BY <1>1
  DEF ReadAsyncClaim, phase, lent, usbVars, Contract!Next, Contract!Start
<1>2. CASE ReadAsyncClear
  BY <1>2
  DEF ReadAsyncClear, Home, AllHome, phase, lent, Contract!vars
<1>3. CASE ReadAsyncSubmit
  <2>1. i \in Xfers /\ phase # "idle" /\ phase' = phase
    BY <1>3 DEF ReadAsyncSubmit, Home, Typed, IndexOK, phase, devVars
  <2>2. lent' = lent \cup {i}
    BY <1>3, <2>1 DEF ReadAsyncSubmit, Home, Typed, TypeOK, lent
  <2>3. CASE i \in lent
    BY <2>1, <2>2, <2>3 DEF Contract!vars
  <2>4. CASE i \notin lent
    BY <2>1, <2>2, <2>4 DEF Contract!Next, Contract!Lend
  <2> QED
    BY <2>3, <2>4
<1>4. CASE ReadAsyncSubmitFails
  BY <1>4
  DEF ReadAsyncSubmitFails, phase, lent, usbVars, Contract!Next, Contract!Cancel, Contract!vars
<1>5. CASE ReadAsyncPublish
  BY <1>5
  DEF ReadAsyncPublish, Home, AllHome, Draining, phase, lent, usbVars, Contract!Next,
      Contract!Finish
<1>6. CASE ReadAsyncLoop \/ ReadAsyncEventsFail \/ ReadAsyncEventsReturn
             \/ FinalEventsReturn \/ ReadAsyncFree
  BY <1>6
  DEF ReadAsyncLoop, ReadAsyncEventsFail, ReadAsyncEventsReturn, FinalEventsReturn,
      ReadAsyncFree, phase, lent, devVars, usbVars, Contract!vars
<1> QED
  BY <1>1, <1>2, <1>3, <1>4, <1>5, <1>6, ContractCallback, ContractSweep DEF ReaderStep

LEMMA ContractNext ==
  ASSUME PromptCancel, Home, Draining, [Next]_vars
  PROVE  [Contract!Next]_(Contract!vars)
<1>1. CASE ReadAsyncCall
  BY <1>1 DEF ReadAsyncCall, phase, lent, devVars, usbVars, Contract!vars
<1>2. CASE \E t \in Cancellers : CancelCall(t)
  BY <1>2 DEF CancelCall, phase, lent, devVars, usbVars, readerVars, Contract!vars
<1>3. CASE CloseCall \/ CloseStep \/ Unplug \/ UNCHANGED vars
  BY <1>3
  DEF CloseCall, CloseStep, CloseLost, CloseWait, CloseFree, Unplug, vars, phase, lent,
      devVars, usbVars, readerVars, Contract!vars
<1>4. CASE Kernel
  <2>1. phase' = phase
    BY <1>4 DEF Kernel, Complete, Fail, Discard, phase, devVars, readerVars
  <2>2. lent' = lent
    BY <1>4 DEF Kernel, Complete, Fail, Discard, Home, Typed, TypeOK, lent
  <2> QED
    BY <2>1, <2>2 DEF Contract!vars
<1> QED
  BY <1>1, <1>2, <1>3, <1>4, ContractCancel, ContractReader DEF Next

\* rtlsdr_read_async and rtlsdr_cancel_async keep the contract of a stream.
THEOREM StreamKeepsContract ==
  ASSUME PromptCancel
  PROVE  Spec => KeepsContract
<1>1. Init => Home /\ Draining
  BY InitHome DEF Init, Draining
<1>2. Home /\ Draining /\ [Next]_vars => Home' /\ Draining'
  BY NextHome, DrainingStep DEF Home
<1>3. Home /\ Draining /\ [Next]_vars => [Contract!Next]_(Contract!vars)
  BY ContractNext
<1> QED
  BY <1>1, <1>2, <1>3, ContractInit, PTL DEF Spec, KeepsContract, Contract!Spec
-----------------------------------------------------------------------------
(***************************************************************************)
(* An application that waits for its cancel calls before it streams again: *)
(* the second store of a cancel then falls into the stream whose status it *)
(* has set, or into none.  Between the test and the claim no cancel can    *)
(* pass its own test, and the flag is cleared after the claim.             *)
(***************************************************************************)
FlagInvariant ==
    /\ pc = "claim" => async_status = "INACTIVE" /\ \A t \in Threads : cancel[t] \in {"out", "test"}
    /\ pc \notin {"out", "claim"} /\ (\E t \in Threads : cancel[t] = "flag") => async_status = "CANCELING"
    /\ ~InEvents => cancel[Reader] = "out"
    /\ FlagMeansCancel

LEMMA FlagStep ==
  ASSUME AppWaits, Typed, FlagInvariant, [Next]_vars
  PROVE  FlagInvariant'
<1>1. cancel \in [Threads -> CancelPC] /\ Reader \in Threads /\ Reader \notin Cancellers
  BY StreamAssumption DEF Typed, TypeOK, Threads
<1>2. CASE ReadAsyncCall
  <2>1. /\ pc = "out" /\ pc' = "claim" /\ UNCHANGED <<cancel, async_status, async_cancel>>
        /\ async_status = "INACTIVE" /\ \A t \in Cancellers : cancel[t] = "out"
    BY <1>2 DEF ReadAsyncCall, Canceling, devVars
  <2>2. \A t \in Threads : cancel[t] = "out"
    BY <2>1 DEF FlagInvariant, InEvents, Threads
  <2> QED
    BY <2>1, <2>2 DEF FlagInvariant, FlagMeansCancel, InEvents
<1>3. ASSUME NEW t \in Threads, CancelStep(t) PROVE FlagInvariant'
  <2>1. CASE CancelTest(t)
    <3>1. /\ cancel' = [cancel EXCEPT ![t] = IF async_status = "RUNNING" THEN "status" ELSE "out"]
          /\ cancel[t] = "test" /\ UNCHANGED <<pc, async_status, async_cancel>>
      BY <2>1 DEF CancelTest, devVars, readerVars
    <3> QED
      BY <1>1, <3>1 DEF FlagInvariant, FlagMeansCancel, InEvents
  <2>2. CASE CancelStatus(t)
    <3>1. /\ cancel' = [cancel EXCEPT ![t] = "flag"] /\ async_status' = "CANCELING"
          /\ cancel[t] = "status" /\ UNCHANGED <<pc, async_cancel>>
      BY <2>2 DEF CancelStatus, AskedStatus, readerVars
    <3> QED
      BY <1>1, <3>1 DEF FlagInvariant, FlagMeansCancel, InEvents
  <2>3. CASE CancelFlag(t)
    <3>1. /\ cancel' = [cancel EXCEPT ![t] = "out"] /\ async_cancel' = TRUE
          /\ cancel[t] = "flag" /\ UNCHANGED <<pc, async_status>>
      BY <2>3 DEF CancelFlag, readerVars
    <3> QED
      BY <1>1, <3>1 DEF FlagInvariant, FlagMeansCancel, InEvents
  <2> QED
    BY <1>3, <2>1, <2>2, <2>3 DEF CancelStep
<1>4. ASSUME NEW t \in Cancellers, CancelCall(t) PROVE FlagInvariant'
  <2>1. cancel' = [cancel EXCEPT ![t] = "test"] /\ UNCHANGED <<pc, async_status, async_cancel>>
    BY <1>4 DEF CancelCall, devVars, readerVars
  <2> QED
    BY <1>1, <2>1 DEF FlagInvariant, FlagMeansCancel, InEvents, Threads
<1>5. CASE CloseCall \/ CloseStep
  BY <1>5
  DEF CloseCall, CloseStep, CloseLost, CloseWait, CloseFree, FlagInvariant, FlagMeansCancel,
      InEvents, devVars, readerVars
<1>6. CASE Kernel \/ Unplug
  BY <1>6
  DEF Kernel, Complete, Fail, Discard, Unplug, FlagInvariant, FlagMeansCancel, InEvents,
      devVars, readerVars
<1>7. CASE UNCHANGED vars
  BY <1>7 DEF vars, FlagInvariant, FlagMeansCancel, InEvents, devVars, readerVars
<1>8. CASE Callback
  <2>1. /\ InEvents \/ cur # 0
        /\ UNCHANGED <<pc, async_status, async_cancel>>
        /\ cancel' = cancel \/ (InEvents /\ cancel' = [cancel EXCEPT ![Reader] = "test"])
    BY <1>8
    DEF Callback, ReapCompleted, ReapCancelled, ReapFailed, Reap, Resubmit, devVars
  <2> QED
    BY <1>1, <2>1 DEF FlagInvariant, FlagMeansCancel, InEvents
<1>9. CASE Sweep
  <2>1. /\ UNCHANGED <<async_status, async_cancel, cancel>>
        /\ pc \in {"sweep", "sweepEvents"} /\ pc' \notin {"out", "claim", "clear"}
        /\ InEvents => cancel[Reader] = "out"
    BY <1>9
    DEF Sweep, SweepSkip, SweepCancel, SweepEventsReturn, SweepEnd, InEvents, EventsDone,
        CallbackDone, Canceling, devVars
  <2> QED
    BY <2>1 DEF FlagInvariant, FlagMeansCancel
<1>10. CASE ReadAsyncClaim
  BY <1>10 DEF ReadAsyncClaim, FlagInvariant, FlagMeansCancel, InEvents
<1>11. CASE ReadAsyncClear
  BY <1>11 DEF ReadAsyncClear, ClearFlag, FlagInvariant, FlagMeansCancel, InEvents
<1>12. CASE ReadAsyncSubmit \/ ReadAsyncSubmitFails \/ ReadAsyncLoop \/ ReadAsyncEventsFail
  BY <1>12
  DEF ReadAsyncSubmit, ReadAsyncSubmitFails, ReadAsyncLoop, ReadAsyncEventsFail,
      FlagInvariant, FlagMeansCancel, InEvents, devVars
<1>13. CASE ReadAsyncEventsReturn \/ FinalEventsReturn
  BY <1>13
  DEF ReadAsyncEventsReturn, FinalEventsReturn, EventsDone, CallbackDone, Canceling,
      FlagInvariant, FlagMeansCancel, InEvents, devVars
<1>14. CASE ReadAsyncFree \/ ReadAsyncPublish
  BY <1>14
  DEF ReadAsyncFree, ReadAsyncPublish, FlagInvariant, FlagMeansCancel, InEvents, devVars
<1> QED
  BY <1>2, <1>3, <1>4, <1>5, <1>6, <1>7, <1>8, <1>9, <1>10, <1>11, <1>12, <1>13, <1>14
  DEF Next, ReaderStep

\* async_cancel switches event handling off: while a stream runs it is set only
\* for a stream that is being cancelled, if the application waits for its calls
\* of rtlsdr_cancel_async before it streams again.
THEOREM FlagAlwaysMeansCancel ==
  ASSUME AppWaits
  PROVE  Spec => []FlagMeansCancel
<1>1. Init => FlagInvariant
  BY StreamAssumption DEF Init, FlagInvariant, FlagMeansCancel, InEvents, Threads
<1>2. Typed /\ FlagInvariant /\ [Next]_vars => FlagInvariant'
  BY FlagStep
<1>3. FlagInvariant => FlagMeansCancel
  BY DEF FlagInvariant
<1> QED
  BY <1>1, <1>2, <1>3, InitTyped, NextTyped, PTL DEF Spec
-----------------------------------------------------------------------------
(***************************************************************************)
(* A device that works is not lost, so rtlsdr_close always waits.          *)
(***************************************************************************)
Reliable == Faults \cap {"ERROR", "STALL", "NO_DEVICE", "SUBMIT", "EVENTS"} = {}

Works ==
    /\ plugged
    /\ ~dev_lost
    /\ \A x \in Xfers : urb[x] \in {"idle", "submitted", "cancelling", "COMPLETED", "CANCELLED"}

LEMMA WorksStep ==
  ASSUME Reliable, Typed, Works, [Next]_vars
  PROVE  Works'
<1>1. urb \in [Xfers -> UrbState] /\ (pc \in {"submit", "sweepEvents"} => i \in Xfers)
  BY DEF Typed, TypeOK, IndexOK
<1>0. SUFFICES ASSUME ~UNCHANGED <<plugged, dev_lost, urb>> PROVE Works'
  <2>1. ASSUME UNCHANGED <<plugged, dev_lost, urb>> PROVE Works'
    BY <2>1, ZenonT(20) DEF Works
  <2> QED
    BY <2>1
<1>2. CASE Kernel
  <2>1. ASSUME NEW x \in Xfers, Complete(x) PROVE Works'
    BY <1>1, <2>1 DEF Complete, Works, devVars
  <2>2. ASSUME NEW x \in Xfers, Fail(x) PROVE FALSE
    BY <2>2 DEF Fail, Reliable
  <2>3. ASSUME NEW x \in Xfers, Discard(x) PROVE Works'
    BY <1>1, <2>3 DEF Discard, Works, devVars
  <2> QED
    BY <1>2, <2>1, <2>2, <2>3 DEF Kernel
<1>3. CASE Unplug
  BY <1>3 DEF Unplug, Reliable
<1>4. CASE Callback
  <2>1. ASSUME NEW x \in Xfers, Reap(x), UNCHANGED dev_lost PROVE Works'
    BY <1>1, <2>1 DEF Reap, Works
  <2>2. ASSUME NEW x \in Xfers, ReapCompleted(x) \/ ReapCancelled(x) PROVE Works'
    BY <2>1, <2>2 DEF ReapCompleted, ReapCancelled, devVars
  <2>3. ASSUME NEW x \in Xfers, ReapFailed(x) PROVE FALSE
    BY <2>3 DEF ReapFailed, Works, EndStatus
  <2>4. CASE Resubmit
    BY <1>1, <2>4 DEF Resubmit, SubmitAgain, Works
  <2> QED
    BY <1>4, <2>2, <2>3, <2>4 DEF Callback
<1>5. CASE SweepCancel
  <2>1. PICK s \in UrbState : CancelLeaves(i, s) /\ urb' = [urb EXCEPT ![i] = s]
    BY <1>5 DEF SweepCancel
  <2>2. i \in Xfers
    BY <1>5, StreamAssumption DEF SweepCancel, SweepGoes, Typed, TypeOK, Xfers
  <2>3. s \in {"cancelling", "CANCELLED"} \/ s = urb[i]
    BY <2>1 DEF CancelLeaves
  <2>4. UNCHANGED <<plugged, dev_lost>>
    BY <1>5 DEF SweepCancel, devVars
  <2> QED
    BY <1>1, <2>1, <2>2, <2>3, <2>4 DEF Works
<1>6. CASE Sweep /\ ~SweepCancel
  BY <1>0, <1>6
  DEF Sweep, SweepSkip, SweepEventsReturn, SweepEnd, devVars, usbVars
<1>7. CASE ReadAsyncClear
  BY <1>7 DEF ReadAsyncClear, Works
<1>8. CASE ReadAsyncSubmit
  BY <1>1, <1>8 DEF ReadAsyncSubmit, Works, devVars
<1>9. CASE ReaderStep /\ ~Callback /\ ~Sweep /\ ~ReadAsyncClear /\ ~ReadAsyncSubmit
  BY <1>0, <1>9
  DEF ReaderStep, ReadAsyncClaim, ReadAsyncSubmitFails, ReadAsyncLoop, ReadAsyncEventsFail,
      ReadAsyncEventsReturn, FinalEventsReturn, ReadAsyncFree, ReadAsyncPublish,
      devVars, usbVars
<1>10. CASE ReadAsyncCall \/ (\E t \in Cancellers : CancelCall(t))
  BY <1>0, <1>10 DEF ReadAsyncCall, CancelCall, devVars, usbVars
<1>11. ASSUME NEW t \in Threads, CancelStep(t) PROVE Works'
  BY <1>0, <1>11 DEF CancelStep, CancelTest, CancelStatus, CancelFlag, devVars, usbVars
<1>12. CASE CloseCall \/ CloseStep \/ UNCHANGED vars
  BY <1>0, <1>12
  DEF CloseCall, CloseStep, CloseLost, CloseWait, CloseFree, vars, devVars, usbVars
<1> QED
  BY <1>2, <1>3, <1>4, <1>5, <1>6, <1>7, <1>8, <1>9, <1>10, <1>11, <1>12 DEF Next

\* rtlsdr_close frees the device last, as the loop in it is there for, if the
\* device works; with any number of threads and of cancels.
THEOREM NoUseAfterFreeIfReliable ==
  ASSUME Reliable
  PROVE  Spec => []NoUseAfterFree
<1>1. Init => Held /\ Closing /\ Works
  BY DEF Init, Held, Closing, Works
<1>2. Typed /\ Held /\ Closing /\ Works /\ [Next]_vars => Held' /\ Closing' /\ Works'
  BY HeldStep, ClosingStep, WorksStep
<1>3. Closing /\ Works => NoUseAfterFree
  BY DEF Closing, Works, NoUseAfterFree
<1> QED
  BY <1>1, <1>2, <1>3, InitTyped, NextTyped, PTL DEF Spec

(***************************************************************************)
(* With one thread that cancels, a device that works is ready again after  *)
(* each stream: while that thread is between its test and its store of the *)
(* status, nobody else can end the stream, so the store falls into it.     *)
(***************************************************************************)
OneCanceller == ~CallbackCancels /\ \A s, t \in Cancellers : s = t

Ready ==
    /\ pc \in {"out", "claim"} => async_status = "INACTIVE"
    /\ pc \in {"sweep", "sweepEvents", "finalEvents", "free", "publish"} => async_status = "CANCELING"
    /\ pc \in {"finalEvents", "free", "publish"} => next_status = "INACTIVE"
    /\ \A t \in Threads : cancel[t] = "status" => async_status = "RUNNING"
    /\ cancel[Reader] = "out"

LEMMA ReadyStep ==
  ASSUME Reliable, OneCanceller, Typed, Held, Works, Ready, [Next]_vars
  PROVE  Ready'
<1>1. /\ cancel \in [Threads -> CancelPC] /\ Reader \in Threads /\ Reader \notin Cancellers
      /\ async_status \in AsyncStatus
  BY StreamAssumption DEF Typed, TypeOK, Threads
<1>2. CASE ReadAsyncCall
  BY <1>2 DEF ReadAsyncCall, Ready, devVars
<1>3. ASSUME NEW t \in Threads, CancelStep(t) PROVE Ready'
  <2>1. CASE CancelTest(t)
    <3>1. /\ cancel' = [cancel EXCEPT ![t] = IF async_status = "RUNNING" THEN "status" ELSE "out"]
          /\ UNCHANGED <<pc, next_status, async_status>> /\ cancel[t] = "test"
      BY <2>1 DEF CancelTest, devVars, readerVars
    <3> QED
      BY <1>1, <3>1 DEF Ready
  <2>2. CASE CancelStatus(t)
    <3>1. /\ cancel' = [cancel EXCEPT ![t] = "flag"] /\ async_status' = "CANCELING"
          /\ UNCHANGED <<pc, next_status>> /\ cancel[t] = "status"
      BY <2>2 DEF CancelStatus, AskedStatus, readerVars
    <3>2. async_status = "RUNNING" /\ t # Reader
      BY <3>1 DEF Ready
    <3>3. \A u \in Threads \ {t} : cancel[u] # "status"
      BY <3>1, <3>2 DEF Ready, OneCanceller, Threads
    <3> QED
      BY <1>1, <3>1, <3>2, <3>3 DEF Ready
  <2>3. CASE CancelFlag(t)
    <3>1. cancel' = [cancel EXCEPT ![t] = "out"] /\ UNCHANGED <<pc, next_status, async_status>>
      BY <2>3 DEF CancelFlag, readerVars
    <3> QED
      BY <1>1, <3>1 DEF Ready
  <2> QED
    BY <1>3, <2>1, <2>2, <2>3 DEF CancelStep
<1>4. ASSUME NEW t \in Cancellers, CancelCall(t) PROVE Ready'
  <2>1. cancel' = [cancel EXCEPT ![t] = "test"] /\ UNCHANGED <<pc, next_status, async_status>>
    BY <1>4 DEF CancelCall, devVars, readerVars
  <2> QED
    BY <1>1, <2>1 DEF Ready
<1>5. CASE CloseCall \/ CloseStep \/ Kernel \/ Unplug \/ UNCHANGED vars
  BY <1>5
  DEF CloseCall, CloseStep, CloseLost, CloseWait, CloseFree, Kernel, Complete, Fail, Discard,
      Unplug, vars, Ready, devVars, readerVars
<1>6. CASE Callback
  <2>1. ASSUME NEW x \in Xfers, ReapFailed(x) PROVE FALSE
    BY <2>1 DEF ReapFailed, Works, EndStatus
  <2>2. UNCHANGED <<pc, next_status, async_status, cancel>>
    BY <1>6, <2>1
    DEF Callback, ReapCompleted, ReapCancelled, Reap, Resubmit, OneCanceller, devVars
  <2> QED
    BY <2>2 DEF Ready
<1>7. CASE Sweep
  BY <1>7
  DEF Sweep, SweepSkip, SweepCancel, SweepEventsReturn, SweepEnd, SweepIsLast, Works, Ready, devVars
<1>8. CASE ReadAsyncSubmitFails \/ ReadAsyncEventsFail
  BY <1>8 DEF ReadAsyncSubmitFails, ReadAsyncEventsFail, SubmitCanFail, Reliable, Works
<1>9. CASE ReadAsyncLoop
  <2>1. async_status # "INACTIVE"
    BY <1>9 DEF ReadAsyncLoop, Held
  <2> QED
    BY <1>9, <2>1 DEF ReadAsyncLoop, Ready, devVars
<1>10. CASE ReadAsyncClaim
  BY <1>10 DEF ReadAsyncClaim, Ready
<1>11. CASE ReadAsyncClear \/ ReadAsyncSubmit
  BY <1>11 DEF ReadAsyncClear, ReadAsyncSubmit, Ready, devVars
<1>12. CASE ReadAsyncEventsReturn
  BY <1>12 DEF ReadAsyncEventsReturn, Ready, devVars
<1>13. CASE FinalEventsReturn \/ ReadAsyncFree
  BY <1>13 DEF FinalEventsReturn, ReadAsyncFree, Ready, devVars
<1>14. CASE ReadAsyncPublish
  BY <1>14 DEF ReadAsyncPublish, StoreStatus, Ready
<1> QED
  BY <1>2, <1>3, <1>4, <1>5, <1>6, <1>7, <1>8, <1>9, <1>10, <1>11, <1>12, <1>13, <1>14
  DEF Next, ReaderStep

\* A stream that has ended leaves the device able to stream again, if the device
\* works and one thread at a time cancels; two of them can leave it CANCELING
\* for good, as a store of the status then falls after the end of the stream.
THEOREM ReadyAgainAlways ==
  ASSUME Reliable, OneCanceller
  PROVE  Spec => []ReadyAgain
<1>1. Init => Held /\ Works /\ Ready
  BY StreamAssumption DEF Init, Held, Works, Ready, Threads
<1>2. Typed /\ Held /\ Works /\ Ready /\ [Next]_vars => Held' /\ Works' /\ Ready'
  BY HeldStep, WorksStep, ReadyStep
<1>3. Ready => ReadyAgain
  BY DEF Ready, ReadyAgain
<1> QED
  BY <1>1, <1>2, <1>3, InitTyped, NextTyped, PTL DEF Spec
=============================================================================
