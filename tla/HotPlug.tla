------------------------------- MODULE HotPlug -------------------------------
(***************************************************************************)
(* How RTL dongles come and go: USBManager.swift, the demo's AppDelegate   *)
(* and RTLSDR.initWithRegistryID with the bring-up of the USB device.      *)
(*                                                                         *)
(* USBManager.start runs on the main thread: it asks IOKit for a           *)
(* notification and empties its iterator, for devices added and then for   *)
(* devices removed.  From then on IOKit calls back on a serial queue.  An  *)
(* iterator sends one notification once it has been emptied (it is armed   *)
(* then), so one device at a time is handled, by one of the two threads.   *)
(*                                                                         *)
(* A device that is plugged in again has a new registry ID: here it is     *)
(* another device.  A fatalError ends the application.                     *)
(***************************************************************************)
EXTENDS Naturals, FiniteSets

CONSTANTS
    Rtl, Other,   \* USB devices: known RTL dongles, and anything else
    None,         \* no device
    CanUnplug,    \* may a device be unplugged?
    CanBeHeld     \* may another process have the device open?

Devices == Rtl \cup Other

ASSUME HotPlugAssumption ==
    /\ Rtl \cap Other = {}
    /\ None \notin Devices
    /\ CanUnplug \in BOOLEAN
    /\ CanBeHeld \in BOOLEAN

Kinds   == {"added", "removed"}  \* kIOMatchedNotification, kIOTerminatedNotification
Threads == {"main", "queue"}

VARIABLES
    present,     \* where each device is: absent, present or gone
    held,        \* devices that another process has open
    registered,  \* the notifications asked for
    pending,     \* what each iterator holds
    armed,       \* the iterators whose next device sends a notification
    posted,      \* the notifications the queue has not delivered yet
    at,          \* where each thread is
    work, dev,   \* the iterator and the device each thread works on
    opened,      \* devices this process has open
    rtlDeviceList,
    crashed      \* has a fatalError ended the application?

ioVars  == <<present, held>>
kitVars == <<registered, pending, armed, posted>>
rtlVars == <<opened, rtlDeviceList>>
vars == <<ioVars, kitVars, at, work, dev, rtlVars, crashed>>

\* RTLSDR.init, in the order of its calls.  (Mutant: the device is not opened.)
FollowUnopened == [interface |-> "configure", configure |-> "pipes", pipes |-> "baseband",
                   baseband |-> "tuner", tuner |-> "close"]
Follow == [interface |-> "open", configure |-> "pipes", pipes |-> "baseband",
           baseband |-> "tuner", tuner |-> "close"]

InitSteps == {"interface", "open", "configure", "pipes", "baseband", "tuner", "close"}

\* Inside RTLSDR.initWithRegistryID, which reads and writes rtlDeviceList.
ListSteps == {"lookup", "service", "insert"} \cup InitSteps

TypeOK ==
    /\ present \in [Devices -> {"absent", "present", "gone"}]
    /\ held \subseteq Devices
    /\ registered \subseteq Kinds
    /\ pending \in [Kinds -> SUBSET Devices]
    /\ armed \subseteq registered
    /\ posted \subseteq registered
    /\ at \in [Threads -> {"register", "idle", "next", "returned"} \cup ListSteps]
    /\ work \in [Threads -> Kinds]
    /\ dev \in [Threads -> Devices \cup {None}]
    /\ opened \subseteq Rtl
    /\ rtlDeviceList \subseteq Rtl
    /\ crashed \in BOOLEAN

Init ==
    /\ present \in [Devices -> {"absent", "present"}]
    /\ held = {}
    /\ registered = {}
    /\ pending = [kind \in Kinds |-> {}]
    /\ armed = {}
    /\ posted = {}
    /\ at = [t \in Threads |-> IF t = "main" THEN "register" ELSE "idle"]
    /\ work = [t \in Threads |-> "added"]
    /\ dev = [t \in Threads |-> None]
    /\ opened = {}
    /\ rtlDeviceList = {}
    /\ crashed = FALSE
-----------------------------------------------------------------------------
(***************************************************************************)
(* IOKit.                                                                  *)
(***************************************************************************)

\* A device matches a notification: it joins the iterator, which tells if armed.
Matches(kind, d) ==
    IF kind \notin registered THEN UNCHANGED <<pending, armed, posted>>
    ELSE /\ pending' = [pending EXCEPT ![kind] = @ \cup {d}]
         /\ armed'   = armed \ {kind}
         /\ posted'  = IF kind \in armed THEN posted \cup {kind} ELSE posted

Plug(d) ==
    /\ present[d] = "absent"
    /\ present' = [present EXCEPT ![d] = "present"]
    /\ Matches("added", d)
    /\ UNCHANGED <<held, registered, at, work, dev, rtlVars, crashed>>

Unplug(d) ==
    /\ CanUnplug
    /\ present[d] = "present"
    /\ present' = [present EXCEPT ![d] = "gone"]
    /\ Matches("removed", d)
    /\ UNCHANGED <<held, registered, at, work, dev, rtlVars, crashed>>

\* Another process opens the device, which one process at a time may, and
\* keeps it.
Hold(d) ==
    /\ CanBeHeld
    /\ d \notin opened
    /\ d \notin held
    /\ held' = held \cup {d}
    /\ UNCHANGED <<present, kitVars, at, work, dev, rtlVars, crashed>>

Deliver(kind) ==
    /\ ~crashed
    /\ at["queue"] = "idle"
    /\ kind \in posted
    /\ posted' = posted \ {kind}
    /\ at' = [at EXCEPT !["queue"] = "next"]
    /\ work' = [work EXCEPT !["queue"] = kind]
    /\ UNCHANGED <<ioVars, registered, pending, armed, dev, rtlVars, crashed>>
-----------------------------------------------------------------------------
(***************************************************************************)
(* USBManager: start, usbDeviceAdded and usbDeviceRemoved.                 *)
(***************************************************************************)
AlreadyThere(kind) == IF kind = "added" THEN {d \in Devices : present[d] = "present"} ELSE {}

Register ==
    /\ at["main"] = "register"
    /\ registered' = registered \cup {work["main"]}
    /\ pending' = [pending EXCEPT ![work["main"]] = AlreadyThere(work["main"])]
    /\ at' = [at EXCEPT !["main"] = "next"]
    /\ UNCHANGED <<ioVars, armed, posted, work, dev, rtlVars, crashed>>

Go(t, step) == at' = [at EXCEPT ![t] = step]

\* The delegate has nothing to do for a device that was removed.
\* (Mutant: it takes the device off the list, as the TODO asks for.)
TakeOffList(kind) == "lookup"
Handler(kind)     == IF kind = "added" THEN "lookup" ELSE "next"

IteratorNext(t) ==
    /\ at[t] = "next"
    /\ \E d \in pending[work[t]] :
          /\ dev' = [dev EXCEPT ![t] = d]
          /\ pending' = [pending EXCEPT ![work[t]] = @ \ {d}]
    /\ Go(t, Handler(work[t]))
    /\ UNCHANGED <<ioVars, registered, armed, posted, work, rtlVars, crashed>>

\* Emptying the iterator arms it; start goes on to the devices removed.
IteratorEmpty(t) ==
    /\ at[t] = "next"
    /\ pending[work[t]] = {}
    /\ armed' = armed \cup {work[t]}
    /\ IF t = "main" /\ work[t] = "added"
       THEN Go(t, "register") /\ work' = [work EXCEPT ![t] = "removed"]
       ELSE Go(t, IF t = "main" THEN "returned" ELSE "idle") /\ UNCHANGED work
    /\ UNCHANGED <<ioVars, registered, pending, posted, dev, rtlVars, crashed>>

\* The callback goes round its loop.  (Mutant: it takes one device and returns.)
TakeOne(t) == IF t = "main" THEN "next" ELSE "idle"
Again(t)   == "next"
-----------------------------------------------------------------------------
(***************************************************************************)
(* RTLSDR.initWithRegistryID and RTLSDR.init.                              *)
(***************************************************************************)
Crash == crashed' = TRUE /\ UNCHANGED <<at, rtlVars>>

Lookup(t) ==
    /\ at[t] = "lookup"
    /\ Go(t, IF dev[t] \in rtlDeviceList THEN Again(t) ELSE "service")
    /\ UNCHANGED <<ioVars, kitVars, work, dev, rtlVars, crashed>>

\* RTLKnownDevices.isKnownRTLDevice.  (Mutant: of everything.)
AnyDevice(d)  == TRUE
IsKnownRTL(d) == d \in Rtl

GetService(t) ==
    /\ at[t] = "service"
    /\ IF present[dev[t]] # "present" THEN Crash
       ELSE /\ Go(t, IF IsKnownRTL(dev[t]) THEN "interface" ELSE Again(t))
            /\ UNCHANGED <<rtlVars, crashed>>
    /\ UNCHANGED <<ioVars, kitVars, work, dev>>

\* What a step talks to: only the plug-in interface works on an unopened device.
Responds(t) ==
    /\ present[dev[t]] = "present"
    /\ at[t] = "interface" \/ dev[t] \in opened

BringUp(t) ==
    /\ at[t] \in DOMAIN Follow
    /\ IF Responds(t) THEN Go(t, Follow[at[t]]) /\ UNCHANGED <<rtlVars, crashed>>
                      ELSE Crash
    /\ UNCHANGED <<ioVars, kitVars, work, dev>>

\* A failure is not looked at.
Open(t) ==
    /\ at[t] = "open"
    /\ opened' = IF present[dev[t]] = "present" /\ dev[t] \notin held
                 THEN opened \cup {dev[t]} ELSE opened
    /\ Go(t, "configure")
    /\ UNCHANGED <<ioVars, kitVars, work, dev, rtlDeviceList, crashed>>

Close(t) ==
    /\ at[t] = "close"
    /\ opened' = opened \ {dev[t]}
    /\ Go(t, "insert")
    /\ UNCHANGED <<ioVars, kitVars, work, dev, rtlDeviceList, crashed>>

Insert(t) ==
    /\ at[t] = "insert"
    /\ rtlDeviceList' = rtlDeviceList \cup {dev[t]}
    /\ Go(t, Again(t))
    /\ UNCHANGED <<ioVars, kitVars, work, dev, opened, crashed>>
-----------------------------------------------------------------------------
Handle(t) ==
    \/ IteratorNext(t) \/ IteratorEmpty(t)
    \/ Lookup(t) \/ GetService(t)
    \/ BringUp(t) \/ Open(t) \/ Close(t) \/ Insert(t)

Main  == ~crashed /\ (Register \/ Handle("main"))
Queue == \/ \E kind \in Kinds : Deliver(kind)
         \/ ~crashed /\ Handle("queue")

Next ==
    \/ \E d \in Devices : Plug(d) \/ Unplug(d) \/ Hold(d)
    \/ Main
    \/ Queue

\* Both threads run, and both notifications are delivered in the end.
Spec ==
    /\ Init /\ [][Next]_vars
    /\ WF_vars(Main) /\ WF_vars(Queue)
-----------------------------------------------------------------------------
(***************************************************************************)
(* Properties.                                                             *)
(***************************************************************************)

\* rtlDeviceList is an unprotected static dictionary: never are both threads
\* inside RTLSDR.initWithRegistryID, though one may still run start's loop over
\* removed devices when the queue calls back for one that was added.
OneAtATime == ~(at["main"] \in ListSteps /\ at["queue"] \in ListSteps)

\* A device in an iterator is not forgotten: somebody is emptying the iterator,
\* or a notification to do so is on its way.
NoLostDevice ==
    ~crashed => \A kind \in Kinds : pending[kind] # {} =>
        \/ kind \in posted
        \/ \E t \in Threads : at[t] \in {"next"} \cup ListSteps /\ work[t] = kind

\* fatalError needs a device that went away or that another process had open.
CrashHasCause ==
    crashed => \E t \in Threads :
        at[t] \in ListSteps /\ (present[dev[t]] = "gone" \/ dev[t] \in held)

\* A dongle that stays is brought up, unless the application ends.
DongleServed ==
    \A d \in Rtl : present[d] = "present" ~>
        (d \in rtlDeviceList \/ present[d] = "gone" \/ crashed)
=============================================================================
