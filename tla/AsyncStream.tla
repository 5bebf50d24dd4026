----------------------------- MODULE AsyncStream -----------------------------
(***************************************************************************)
(* The asynchronous sample stream of librtlsdr.c: rtlsdr_read_async,       *)
(* _libusb_callback, rtlsdr_cancel_async and rtlsdr_close, run by the      *)
(* threads that call them, over the bulk transfers libusb keeps.           *)
(*                                                                         *)
(* One thread streams (the Reader).  Every callback runs on it, inside     *)
(* libusb's event handling.  The Cancellers are other threads that call    *)
(* rtlsdr_cancel_async, and one more closes the device.  No field of the   *)
(* device is protected by a lock, so every load and store that another     *)
(* thread can see is a step of its own.                                    *)
(***************************************************************************)
EXTENDS Integers, FiniteSets

CONSTANTS
    BufNum,           \* dev->xfer_buf_num
    Reader,           \* the thread inside rtlsdr_read_async
    Cancellers,       \* the other threads that call rtlsdr_cancel_async
    CallbackCancels,  \* may the user's callback call rtlsdr_cancel_async?
    AppWaits,         \* does the application wait for its cancel calls to return
                      \* before it streams again?
    Faults,           \* what libusb and the device may do, see below
    MaxRuns           \* bound: calls of rtlsdr_read_async that start a stream

(***************************************************************************)
(* ERROR, STALL  transfers may end with these statuses                     *)
(* NO_DEVICE     the device may be unplugged                               *)
(* SUBMIT        libusb_submit_transfer may fail                           *)
(* EVENTS        event handling may fail (not with "interrupted")          *)
(* SLOW_CANCEL   a cancelled transfer may take a while to come back        *)
(* LATE_CANCEL   a transfer that ended before the cancel call, and whose   *)
(*               callback is still to come, keeps the status it ended with *)
(***************************************************************************)
AllFaults == {"ERROR", "STALL", "NO_DEVICE", "SUBMIT", "EVENTS",
              "SLOW_CANCEL", "LATE_CANCEL"}

ASSUME StreamAssumption ==
    /\ BufNum \in Nat \ {0}
    /\ MaxRuns \in Nat \ {0}
    /\ Reader \notin Cancellers
    /\ CallbackCancels \in BOOLEAN
    /\ AppWaits \in BOOLEAN
    /\ Faults \subseteq AllFaults

Xfers   == 1..BufNum
Threads == Cancellers \cup {Reader}

\* libusb_transfer_status: how a transfer ended.
EndStatus == {"COMPLETED", "ERROR", "STALL", "NO_DEVICE", "CANCELLED"}

\* Where a transfer is: with the library's user, with the kernel, with the
\* kernel and asked back, or back and waiting for event handling to see it.
UrbState == {"idle", "submitted", "cancelling"} \cup EndStatus

AsyncStatus == {"INACTIVE", "CANCELING", "RUNNING"}

VARIABLES
    async_status, async_cancel,  \* dev->async_status, dev->async_cancel
    dev_lost, xfer_errors,       \* dev->dev_lost, dev->xfer_errors
    status,      \* dev->xfer[x]->status, as libusb last wrote it
    urb,         \* where transfer x is, one of UrbState
    plugged,     \* is the device still there?
    pc, i, next_status,  \* the Reader in rtlsdr_read_async, and its locals
    batch,       \* transfers this call of the event handler still has to report
    cur,         \* transfer whose data the user's callback has, 0 for none
    cancel,      \* where each thread is in rtlsdr_cancel_async
    closer,      \* where the closing thread is in rtlsdr_close
    runs         \* streams started so far

devVars    == <<async_status, async_cancel, dev_lost, xfer_errors>>
usbVars    == <<status, urb, plugged>>
readerVars == <<pc, i, next_status, batch, cur, runs>>
vars == <<devVars, usbVars, readerVars, cancel, closer>>

ReaderPC == {"out", "claim", "clear", "submit", "loop", "events", "sweep",
             "sweepEvents", "finalEvents", "free", "publish"}
CancelPC == {"out", "test", "status", "flag"}
CloserPC == {"out", "lost", "wait", "free", "closed"}

TypeOK ==
    /\ async_status \in AsyncStatus
    /\ async_cancel \in BOOLEAN
    /\ dev_lost \in BOOLEAN
    /\ xfer_errors \in Nat
    /\ status \in [Xfers -> EndStatus]
    /\ urb \in [Xfers -> UrbState]
    /\ plugged \in BOOLEAN
    /\ pc \in ReaderPC
    /\ i \in 1..(BufNum + 1)
    /\ next_status \in {"INACTIVE", "CANCELING"}
    /\ batch \subseteq Xfers
    /\ cur \in 0..BufNum
    /\ cancel \in [Threads -> CancelPC]
    /\ closer \in CloserPC
    /\ runs \in 0..MaxRuns

Init ==
    /\ async_status = "INACTIVE"
    /\ async_cancel = FALSE
    /\ dev_lost = FALSE
    /\ xfer_errors = 0
    /\ status = [x \in Xfers |-> "COMPLETED"]
    /\ urb = [x \in Xfers |-> "idle"]
    /\ plugged = TRUE
    /\ pc = "out"
    /\ i = 1
    /\ next_status = "INACTIVE"
    /\ batch = {}
    /\ cur = 0
    /\ cancel = [t \in Threads |-> "out"]
    /\ closer = "out"
    /\ runs = 0
-----------------------------------------------------------------------------
(***************************************************************************)
(* rtlsdr_cancel_async: test, store, store.                                *)
(***************************************************************************)
Canceling(t) == cancel[t] # "out"

\* A thread of the application calls it.  No call starts once rtlsdr_close has.
CancelCall(t) ==
    /\ ~Canceling(t)
    /\ closer = "out"
    /\ cancel' = [cancel EXCEPT ![t] = "test"]
    /\ UNCHANGED <<devVars, usbVars, readerVars, closer>>

CancelTest(t) ==
    /\ cancel[t] = "test"
    /\ cancel' = [cancel EXCEPT ![t] = IF async_status = "RUNNING"
                                       THEN "status" ELSE "out"]
    /\ UNCHANGED <<devVars, usbVars, readerVars, closer>>

\* The status a cancel asks for.  (Mutant: the forced one of the disabled code.)
ForcedStatus == "INACTIVE"
AskedStatus  == "CANCELING"

CancelStatus(t) ==
    /\ cancel[t] = "status"
    /\ async_status' = AskedStatus
    /\ cancel' = [cancel EXCEPT ![t] = "flag"]
    /\ UNCHANGED <<async_cancel, dev_lost, xfer_errors, usbVars, readerVars, closer>>

CancelFlag(t) ==
    /\ cancel[t] = "flag"
    /\ async_cancel' = TRUE
    /\ cancel' = [cancel EXCEPT ![t] = "out"]
    /\ UNCHANGED <<async_status, dev_lost, xfer_errors, usbVars, readerVars, closer>>

CancelStep(t) == CancelTest(t) \/ CancelStatus(t) \/ CancelFlag(t)
-----------------------------------------------------------------------------
(***************************************************************************)
(* libusb and the kernel.                                                  *)
(***************************************************************************)
Ended(u) == {x \in Xfers : u[x] \in EndStatus}

SubmitCanFail == "SUBMIT" \in Faults \/ ~plugged

\* The transfer ends by itself: with data, or because the device is gone.
Complete(x) ==
    /\ urb[x] = "submitted"
    /\ urb' = [urb EXCEPT ![x] = IF plugged THEN "COMPLETED" ELSE "NO_DEVICE"]
    /\ UNCHANGED <<devVars, status, plugged, readerVars, cancel, closer>>

Fail(x) ==
    /\ urb[x] = "submitted"
    /\ \E s \in {"ERROR", "STALL"} \cap Faults : urb' = [urb EXCEPT ![x] = s]
    /\ UNCHANGED <<devVars, status, plugged, readerVars, cancel, closer>>

\* A cancelled transfer comes back.
Discard(x) ==
    /\ urb[x] = "cancelling"
    /\ urb' = [urb EXCEPT ![x] = "CANCELLED"]
    /\ UNCHANGED <<devVars, status, plugged, readerVars, cancel, closer>>

Unplug ==
    /\ "NO_DEVICE" \in Faults
    /\ plugged
    /\ plugged' = FALSE
    /\ UNCHANGED <<devVars, status, urb, readerVars, cancel, closer>>

(***************************************************************************)
(* libusb_cancel_transfer(x): the states s it may leave the transfer in,   *)
(* and whether it returned 0.  A negative result means that there was      *)
(* nothing left to cancel.                                                 *)
(***************************************************************************)
CancelLeaves(x, s) ==
    \/ urb[x] \in {"submitted"} \cup EndStatus /\ s = "CANCELLED"
    \/ urb[x] = "submitted" /\ s = "cancelling" /\ "SLOW_CANCEL" \in Faults
    \/ urb[x] \in EndStatus /\ s = urb[x] /\ "LATE_CANCEL" \in Faults
    \/ urb[x] \in {"idle", "cancelling"} /\ s = urb[x]

\* (Mutant: the result is ignored.)
CancelAlways(x)   == TRUE
CancelAccepted(x) == urb[x] = "submitted"
-----------------------------------------------------------------------------
(***************************************************************************)
(* _libusb_callback, on the Reader's thread, for one transfer of the batch *)
(* that this call of the event handler reports.                            *)
(***************************************************************************)
InEvents == pc \in {"events", "sweepEvents", "finalEvents"}

\* Between callbacks: the last one has returned.
CallbackDone == cur = 0 /\ ~Canceling(Reader)

EventsDone == CallbackDone /\ batch = {}

Reap(x) ==
    /\ InEvents
    /\ CallbackDone
    /\ x \in batch
    /\ batch' = batch \ {x}
    /\ status' = [status EXCEPT ![x] = urb[x]]
    /\ urb' = [urb EXCEPT ![x] = "idle"]
    /\ UNCHANGED <<plugged, pc, i, next_status, runs, closer>>

\* LIBUSB_TRANSFER_COMPLETED: dev->cb gets the data.  It may cancel the stream.
ReapCompleted(x) ==
    /\ urb[x] = "COMPLETED"
    /\ Reap(x)
    /\ cur' = x
    /\ \/ UNCHANGED cancel
       \/ /\ CallbackCancels
          /\ cancel' = [cancel EXCEPT ![Reader] = "test"]
    /\ UNCHANGED devVars

\* The transfer goes back to the kernel.  (Mutant: it is forgotten.)
SubmitNever == UNCHANGED urb
SubmitAgain == urb' = [urb EXCEPT ![cur] = "submitted"]

\* ... and the transfer is resubmitted, whether or not that succeeds.
Resubmit ==
    /\ cur # 0
    /\ ~Canceling(Reader)
    /\ \/ plugged /\ SubmitAgain
       \/ SubmitCanFail /\ UNCHANGED urb
    /\ xfer_errors' = 0
    /\ cur' = 0
    /\ UNCHANGED <<async_status, async_cancel, dev_lost, status, plugged,
                   pc, i, next_status, batch, runs, cancel, closer>>

ReapCancelled(x) ==
    /\ urb[x] = "CANCELLED"
    /\ Reap(x)
    /\ UNCHANGED <<devVars, cur, cancel>>

\* dev->xfer_errors once the callback of x has counted.  (Mutant: counts down.)
ErrorsDown(x) == IF urb[x] = "ERROR" THEN xfer_errors - 1 ELSE xfer_errors
Errors(x)     == IF urb[x] = "ERROR" THEN xfer_errors + 1 ELSE xfer_errors

\* The number of failed transfers, and the failure, that lose the device.
Lost(errors, s) == errors >= BufNum \/ s = "NO_DEVICE"

ReapFailed(x) ==
    /\ urb[x] \in EndStatus \ {"COMPLETED", "CANCELLED"}
    /\ Reap(x)
    /\ xfer_errors' = Errors(x)
    /\ IF Lost(Errors(x), urb[x])
       THEN /\ dev_lost' = TRUE
            /\ cancel' = [cancel EXCEPT ![Reader] = "test"]
       ELSE UNCHANGED <<dev_lost, cancel>>
    /\ UNCHANGED <<async_status, async_cancel, cur>>
-----------------------------------------------------------------------------
(***************************************************************************)
(* rtlsdr_read_async.                                                      *)
(***************************************************************************)

\* The call, and its test of async_status.  The application does not stream
\* while it closes.  A call that finds the status not INACTIVE returns -2.
ReadAsyncCall ==
    /\ pc = "out"
    /\ closer = "out"
    /\ AppWaits => \A t \in Cancellers : ~Canceling(t)
    /\ runs < MaxRuns
    /\ async_status = "INACTIVE"
    /\ pc' = "claim"
    /\ runs' = runs + 1
    /\ UNCHANGED <<devVars, usbVars, i, next_status, batch, cur, cancel, closer>>

ReadAsyncClaim ==
    /\ pc = "claim"
    /\ async_status' = "RUNNING"
    /\ pc' = "clear"
    /\ UNCHANGED <<async_cancel, dev_lost, xfer_errors, usbVars, i, next_status,
                   batch, cur, runs, cancel, closer>>

\* The flag of an earlier cancel is forgotten.  (Mutant: it is kept.)
KeepFlag  == UNCHANGED async_cancel
ClearFlag == async_cancel' = FALSE

\* ... and new transfers are allocated, their status zero (COMPLETED).
ReadAsyncClear ==
    /\ pc = "clear"
    /\ ClearFlag
    /\ urb' = [x \in Xfers |-> "idle"]
    /\ status' = [x \in Xfers |-> "COMPLETED"]
    /\ i' = 1
    /\ next_status' = "INACTIVE"
    /\ pc' = "submit"
    /\ UNCHANGED <<async_status, dev_lost, xfer_errors, plugged, batch, cur,
                   runs, cancel, closer>>

ReadAsyncSubmit ==
    /\ pc = "submit"
    /\ plugged
    /\ urb' = [urb EXCEPT ![i] = "submitted"]
    /\ IF i = BufNum THEN pc' = "loop" /\ UNCHANGED i
                     ELSE i' = i + 1 /\ UNCHANGED pc
    /\ UNCHANGED <<devVars, status, plugged, next_status, batch, cur, runs, cancel, closer>>

ReadAsyncSubmitFails ==
    /\ pc = "submit"
    /\ SubmitCanFail
    /\ async_status' = "CANCELING"
    /\ pc' = "loop"
    /\ UNCHANGED <<async_cancel, dev_lost, xfer_errors, usbVars, i, next_status,
                   batch, cur, runs, cancel, closer>>

(***************************************************************************)
(* The loop test, and libusb_handle_events_timeout_completed with a second *)
(* to wait, which does nothing when async_cancel is set.  A wait that ends *)
(* with nothing to report, or interrupted by a signal, only takes the loop *)
(* round again.                                                            *)
(***************************************************************************)
ReadAsyncLoop ==
    /\ pc = "loop"
    /\ IF async_status = "INACTIVE"
       THEN pc' = "free" /\ UNCHANGED batch
       ELSE /\ pc' = "events"
            /\ batch' = IF async_cancel THEN {} ELSE Ended(urb)
    /\ UNCHANGED <<devVars, usbVars, i, next_status, cur, runs, cancel, closer>>

ReadAsyncEventsFail ==
    /\ pc = "loop"
    /\ "EVENTS" \in Faults
    /\ pc' = "free"
    /\ UNCHANGED <<devVars, usbVars, i, next_status, batch, cur, runs, cancel, closer>>

\* A sweep starts out with nothing cancelled.  (Mutant: as the last one ended.)
KeepNext  == UNCHANGED next_status
ResetNext == next_status' = "INACTIVE"

ReadAsyncEventsReturn ==
    /\ pc = "events"
    /\ EventsDone
    /\ IF async_status = "CANCELING"
       THEN /\ pc' = "sweep"
            /\ i' = 1
            /\ ResetNext
       ELSE pc' = "loop" /\ UNCHANGED <<i, next_status>>
    /\ UNCHANGED <<devVars, usbVars, batch, cur, runs, cancel, closer>>

\* i < dev->xfer_buf_num, counting from 1.  (Mutant: one too few.)
SweepStops == i < BufNum
SweepGoes  == i <= BufNum

\* A transfer the sweep leaves alone: the last callback saw it cancelled.
SeenCancelled(x) == status[x] = "CANCELLED"

SweepSkip ==
    /\ pc = "sweep"
    /\ SweepGoes
    /\ SeenCancelled(i)
    /\ i' = i + 1
    /\ UNCHANGED <<devVars, usbVars, pc, next_status, batch, cur, runs, cancel, closer>>

\* Cancel transfer i, then handle events without waiting.
SweepCancel ==
    /\ pc = "sweep"
    /\ SweepGoes
    /\ ~SeenCancelled(i)
    /\ \E s \in UrbState : CancelLeaves(i, s) /\ urb' = [urb EXCEPT ![i] = s]
    /\ next_status' = IF CancelAccepted(i) THEN "CANCELING" ELSE next_status
    /\ batch' = Ended(urb')
    /\ pc' = "sweepEvents"
    /\ UNCHANGED <<devVars, status, plugged, i, cur, runs, cancel, closer>>

SweepEventsReturn ==
    /\ pc = "sweepEvents"
    /\ EventsDone
    /\ pc' = "sweep"
    /\ i' = i + 1
    /\ UNCHANGED <<devVars, usbVars, next_status, batch, cur, runs, cancel, closer>>

\* A sweep that cancelled something is followed by another, unless the device is lost.
SweepIsLast == dev_lost \/ next_status = "INACTIVE"

SweepEnd ==
    /\ pc = "sweep"
    /\ ~SweepGoes
    /\ IF SweepIsLast THEN pc' = "finalEvents" /\ batch' = Ended(urb)
                      ELSE pc' = "loop" /\ UNCHANGED batch
    /\ UNCHANGED <<devVars, usbVars, i, next_status, cur, runs, cancel, closer>>

FinalEventsReturn ==
    /\ pc = "finalEvents"
    /\ EventsDone
    /\ pc' = "free"
    /\ UNCHANGED <<devVars, usbVars, i, next_status, batch, cur, runs, cancel, closer>>

\* _rtlsdr_free_async_buffers
ReadAsyncFree ==
    /\ pc = "free"
    /\ pc' = "publish"
    /\ UNCHANGED <<devVars, usbVars, i, next_status, batch, cur, runs, cancel, closer>>

\* dev->async_status = next_status.  (Mutant: the store is missing.)
LeaveStatus == UNCHANGED async_status
StoreStatus == async_status' = next_status

\* ... and the call returns.
ReadAsyncPublish ==
    /\ pc = "publish"
    /\ StoreStatus
    /\ pc' = "out"
    /\ UNCHANGED <<async_cancel, dev_lost, xfer_errors, usbVars, i, next_status,
                   batch, cur, runs, cancel, closer>>

Callback ==
    \/ \E x \in Xfers : ReapCompleted(x) \/ ReapCancelled(x) \/ ReapFailed(x)
    \/ Resubmit

Sweep == SweepSkip \/ SweepCancel \/ SweepEventsReturn \/ SweepEnd

\* What the Reader does once the application has called rtlsdr_read_async.
ReaderStep ==
    \/ ReadAsyncClaim \/ ReadAsyncClear
    \/ ReadAsyncSubmit \/ ReadAsyncSubmitFails
    \/ ReadAsyncLoop \/ ReadAsyncEventsFail \/ ReadAsyncEventsReturn
    \/ Callback
    \/ Sweep \/ FinalEventsReturn
    \/ ReadAsyncFree \/ ReadAsyncPublish
-----------------------------------------------------------------------------
(***************************************************************************)
(* rtlsdr_close.  The bias tee and the demodulator are switched off by     *)
(* control transfers, which do not touch this state.                       *)
(***************************************************************************)

\* The application closes the device once its own cancel calls have returned,
\* and not while a call of rtlsdr_read_async is about to claim the device.
CloseCall ==
    /\ closer = "out"
    /\ \A t \in Cancellers : ~Canceling(t)
    /\ pc # "claim"
    /\ closer' = "lost"
    /\ UNCHANGED <<devVars, usbVars, readerVars, cancel>>

\* if (!dev->dev_lost).  (Mutant: the test is inverted.)
WaitIfLost == dev_lost
MustWait   == ~dev_lost

CloseLost ==
    /\ closer = "lost"
    /\ closer' = IF MustWait THEN "wait" ELSE "free"
    /\ UNCHANGED <<devVars, usbVars, readerVars, cancel>>

\* The wait for the stream to end.  (Mutant: a cancelled one is not waited for.)
NotRunning == async_status # "RUNNING"
Inactive   == async_status = "INACTIVE"

CloseWait ==
    /\ closer = "wait"
    /\ Inactive
    /\ closer' = "free"
    /\ UNCHANGED <<devVars, usbVars, readerVars, cancel>>

\* The handle is closed and dev is freed.
CloseFree ==
    /\ closer = "free"
    /\ closer' = "closed"
    /\ UNCHANGED <<devVars, usbVars, readerVars, cancel>>

CloseStep == CloseLost \/ CloseWait \/ CloseFree
-----------------------------------------------------------------------------
Kernel == \E x \in Xfers : Complete(x) \/ Fail(x) \/ Discard(x)

Next ==
    \/ ReadAsyncCall
    \/ ReaderStep
    \/ \E t \in Cancellers : CancelCall(t)
    \/ \E t \in Threads : CancelStep(t)
    \/ CloseCall
    \/ CloseStep
    \/ Kernel
    \/ Unplug

(***************************************************************************)
(* A call that was made is carried on, a device that is there delivers     *)
(* samples, and a cancelled transfer comes back.  Nobody has to call       *)
(* anything, and nothing has to fail.                                      *)
(***************************************************************************)
Fairness ==
    /\ WF_vars(ReaderStep)
    /\ \A t \in Threads : WF_vars(CancelStep(t))
    /\ WF_vars(CloseStep)
    /\ \A x \in Xfers : WF_vars(Complete(x)) /\ WF_vars(Discard(x))

Spec == Init /\ [][Next]_vars

FairSpec == Spec /\ Fairness
-----------------------------------------------------------------------------
(***************************************************************************)
(* Properties.                                                             *)
(***************************************************************************)

\* The libusb and the kernel that a sweep can rely on: event handling works,
\* a cancelled transfer comes back at once, and one that had ended before the
\* cancel is reported as cancelled.
PromptCancel == Faults \cap {"EVENTS", "SLOW_CANCEL", "LATE_CANCEL"} = {}

\* When rtlsdr_read_async frees its transfers and buffers, and until the next
\* stream submits them, none of them is with the kernel or waiting for its
\* callback: the USB stack never writes to freed memory, and no callback comes
\* after the call returned.
BuffersHome ==
    pc \in {"publish", "out", "claim", "clear"} => \A x \in Xfers : urb[x] = "idle"

\* Once rtlsdr_close has freed the device no thread is inside
\* rtlsdr_read_async: what the loop on async_status is there for.
NoUseAfterFree == closer = "closed" => pc = "out"

\* ... which the code keeps as long as the device was not lost.
CloseIsLast == closer = "closed" => pc = "out" \/ dev_lost

\* async_cancel stops event handling for good, so while a stream runs it is
\* set only when the stream is being cancelled.
FlagMeansCancel ==
    pc \notin {"out", "claim", "clear"} /\ async_cancel => async_status = "CANCELING"

\* When a stream has ended and no cancel is under way, the device can stream
\* again, unless it was lost.
ReadyAgain ==
    pc = "out" /\ ~dev_lost /\ (\A t \in Threads : ~Canceling(t))
        => async_status = "INACTIVE"

\* A cancelled stream returns to its caller.
CancelStops == (pc # "out" /\ async_status = "CANCELING") ~> (pc = "out")

\* A close that need not wait for anybody's cancel returns.
CloseReturns == (closer = "wait" /\ async_status # "RUNNING") ~> (closer = "closed")

\* A running stream hands samples to the callback until it is cancelled.
SamplesFlow ==
    (pc = "loop" /\ async_status = "RUNNING") ~> (cur # 0 \/ async_status # "RUNNING")

\* The stream as StreamContract sees it.
phase == IF pc \in {"out", "claim"} THEN "idle"
         ELSE IF async_status = "RUNNING" THEN "streaming" ELSE "draining"

lent == {x \in Xfers : urb[x] # "idle"}

Contract == INSTANCE StreamContract WITH Buffers <- Xfers

\* rtlsdr_read_async and rtlsdr_cancel_async keep StreamContract.
KeepsContract == Contract!Spec
=============================================================================
