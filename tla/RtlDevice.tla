------------------------------ MODULE RtlDevice ------------------------------
(***************************************************************************)
(* librtlsdr.c: one dongle from rtlsdr_open to rtlsdr_close, over the      *)
(* registers that several functions write, the tuner behind the I2C        *)
(* repeater, and the infrared receiver.                                    *)
(*                                                                         *)
(* A call is a program: a sequence of steps, each a register write, a      *)
(* read-modify-write or a word with the tuner.  Nearly all of librtlsdr.c  *)
(* goes on when a transfer fails, so a program is run with a fault at one  *)
(* of its steps: the step is lost, or it has landed though it is reported  *)
(* to have failed, or the read of a read-modify-write left the variable it *)
(* should have set uninitialised, or the process dies there.               *)
(*                                                                         *)
(* The Swift class brings the same dongle up between such sessions.        *)
(*                                                                         *)
(* The registers that only the bring-up writes are in BringUp alone, those *)
(* of the down-converter and the sample rate in Tuning.                    *)
(***************************************************************************)
EXTENDS Integers, Sequences, SequencesExt, FiniteSetsExt, Bytes, RtlNumbers, BringUp

CONSTANTS
    Tuners,       \* the tuners a dongle may have, "unknown" for none that is known
    CodeLengths,  \* the lengths of the infrared codes
    BufferSizes,  \* the sizes of the buffer given to rtlsdr_ir_query
    Aliased,      \* does the address alone select a register, whatever the block?
    MaxFaults     \* bound on the number of faults

\* In the order in which rtlsdr_open looks for them; it resets the tuner in between.
Early == <<"E4000", "FC0013", "R820T", "R828D">>
Late  == <<"FC2580", "FC0012">>
R82xx == {"R820T", "R828D"}

ASSUME DeviceAssumption ==
    /\ Tuners \subseteq Range(Early) \cup Range(Late) \cup {"unknown"}
    /\ CodeLengths \subseteq Nat \ {0}
    /\ BufferSizes \subseteq Nat
    /\ Aliased \in BOOLEAN
    /\ MaxFaults \in Nat

VARIABLES
    fitted,   \* the tuner the dongle has
    opened,   \* is there a device?
    tuner_type, direct_sampling, rc_active,  \* its fields
    regs,     \* the registers of the RTL2832U
    tuner,    \* the tuner: "cold", "ready" or "standby"
    missed,   \* has the tuner been spoken to while it could not hear?
    ir,       \* the infrared receiver: OFF, 0 listening, or the length of a code
    answer,   \* the result of the last call, if it was rtlsdr_ir_query
    faults,   \* how many faults there were
    clean,    \* was there none since rtlsdr_open was called?
    call      \* the last call

dev  == <<tuner_type, direct_sampling, rc_active>>
vars == <<fitted, opened, dev, regs, tuner, missed, ir, answer, faults, clean, call>>

OFF == -1

\* Registers by name; the two of the infrared set-up that are addressed through
\* USBB are others than those addressed through SYSB unless Aliased.
DemodRegs == {"1:01", "1:15", "1:b1", "0:06", "0:08", "0:19"}
SysRegs   == {"DEMOD_CTL", "GPO", "GPOE", "GPD"}
UsbRegs   == {"USB_CTRL", "USBB:DEMOD_CTL", "USBB:GPO", "USBB:GPOE", "USBB:GPD"}
RegNames  == DemodRegs \cup SysRegs \cup UsbRegs

TypeOK ==
    /\ fitted \in Tuners /\ tuner_type \in {fitted, "unknown"}
    /\ opened \in BOOLEAN /\ rc_active \in BOOLEAN /\ missed \in BOOLEAN
    /\ direct_sampling \in 0..2
    /\ regs \in [RegNames -> Byte]
    /\ tuner \in {"cold", "ready", "standby"}
    /\ ir \in {OFF, 0} \cup CodeLengths
    /\ answer \in {-1, 0, 1} \cup CodeLengths
    /\ faults \in 0..MaxFaults /\ clean \in BOOLEAN
    /\ tuner = "ready" => fitted # "unknown"

\* A dongle that was plugged in.
Init ==
    /\ fitted \in Tuners
    /\ opened = FALSE
    /\ tuner_type = "unknown" /\ direct_sampling = 0 /\ rc_active = FALSE
    /\ regs = [r \in RegNames |-> {}]
    /\ tuner = "cold" /\ missed = FALSE
    /\ ir = OFF /\ answer = 0
    /\ faults = 0 /\ clean = TRUE
    /\ call = "none"
-----------------------------------------------------------------------------
(***************************************************************************)
(* Programs.                                                               *)
(***************************************************************************)
Write(r, v)   == [do |-> "write", reg |-> r, val |-> BitsOf[v], mask |-> 0..7]
Mask(r, v, m) == [do |-> "mask", reg |-> r, val |-> BitsOf[v], mask |-> BitsOf[m]]
Tuner(op)     == [do |-> op]

\* rtlsdr_set_gpio_output and rtlsdr_set_gpio_bit.
\* (Mutant: the direction is written without what was read.)
GpioOutputOnly(n) == <<Mask("GPD", 0, 2 ^ n), Write("GPOE", 2 ^ n)>>
GpioOutput(n) == <<Mask("GPD", 0, 2 ^ n), Mask("GPOE", 2 ^ n, 2 ^ n)>>
GpioBit(n, on) == <<Mask("GPO", IF on THEN 2 ^ n ELSE 0, 2 ^ n)>>

\* rtlsdr_set_i2c_repeater, and a word with the tuner through it.
Repeater(on)  == <<Write("1:01", IF on THEN \h18 ELSE \h10)>>
Bracket(word) == Repeater(TRUE) \o word \o Repeater(FALSE)

\* The tuner hears when the repeater is on and the demodulator has power.
Hears(now) == 3 \in now.regs["1:01"] /\ 7 \in now.regs["DEMOD_CTL"]

\* What a step does, if it reads base.  The receiver stops with the code it has
\* heard until the code is cleared and it is started again.
Apply(now, x, base) ==
    CASE x.do \in {"write", "mask"} ->
            [now EXCEPT !.regs[x.reg] = (base \ x.mask) \cup (x.val \cap x.mask)]
      [] x.do = "clear" -> [now EXCEPT !.ir = IF now.ir > 0 THEN OFF ELSE now.ir]
      [] x.do = "start" -> [now EXCEPT !.ir = IF now.ir = OFF THEN 0 ELSE now.ir]
      [] x.do = "read"  -> now
      [] x.do \in {"probe", "init", "exit", "set"} /\ ~Hears(now) -> [now EXCEPT !.missed = TRUE]
      [] OTHER -> [now EXCEPT !.tuner = IF x.do = "init" THEN "ready"
                                        ELSE IF x.do = "exit" THEN "standby" ELSE now.tuner]

\* A fault: at which step of the program, and how; base is what an uninitialised
\* variable holds.
NoFault == [at |-> 0, how |-> "none", base |-> {}]
FaultsOf(p) ==
    [at : DOMAIN p, how : {"lost", "landed", "crash"}, base : {{}}]
        \cup [at : {k \in DOMAIN p : p[k].do = "mask"}, how : {"garbage"}, base : {{}, 0..7}]
Outcomes(p) == {NoFault} \cup (IF faults = MaxFaults THEN {} ELSE FaultsOf(p))

\* so_far: was there no fault before?
Note(f, so_far) ==
    IF f = NoFault THEN faults' = faults /\ clean' = so_far ELSE faults' = faults + 1 /\ clean' = FALSE
Reported(f)  == f.how \in {"lost", "landed"}

\* From now, the state after the first n steps of p.  (The state before a step is
\* bound by a set so that TLC computes it once.)
Stepped(was, x, k, f) ==
    IF (f.how = "crash" /\ f.at <= k) \/ (f.how = "lost" /\ f.at = k) THEN was
    ELSE Apply(was, x, IF x.do \notin {"write", "mask"} THEN {}
                       ELSE IF f.how = "garbage" /\ f.at = k THEN f.base ELSE was.regs[x.reg])
After(now, p, n, f) ==
    LET done[k \in 0..n] ==
            IF k = 0 THEN now
            ELSE CHOOSE s \in {Stepped(was, p[k], k, f) : was \in {done[k-1]}} : TRUE
    IN  done[n]

Now == [regs |-> regs, tuner |-> tuner, missed |-> missed, ir |-> ir]
Become(now) ==
    regs' = now.regs /\ tuner' = now.tuner /\ missed' = now.missed /\ ir' = now.ir

NoDevice == opened' = FALSE /\ tuner_type' = "unknown" /\ direct_sampling' = 0 /\ rc_active' = FALSE

\* After a call the device has these fields, unless the process died.
Fields(f, type, ds, rc) ==
    IF f.how = "crash" THEN NoDevice
    ELSE opened' = TRUE /\ tuner_type' = type /\ direct_sampling' = ds /\ rc_active' = rc

\* The call op of an open device, which runs p to its end and sets direct sampling to ds.
Calls(op, p, ds) ==
    /\ opened
    /\ call' = op /\ answer' = 0
    /\ \E f \in Outcomes(p) :
        /\ Become(After(Now, p, Len(p), f))
        /\ Fields(f, tuner_type, ds, rc_active)
        /\ Note(f, clean)
    /\ UNCHANGED fitted
-----------------------------------------------------------------------------
(***************************************************************************)
(* rtlsdr_set_direct_sampling, up to the frequency it tunes to.  An unknown*)
(* tuner has no operations.                                                *)
(***************************************************************************)
Known(type) == type # "unknown"
\* (Mutant: the operations of an unknown tuner are called.)
WordsAlways(type, word) == Bracket(<<Tuner(word)>>)
Words(type, word) == IF Known(type) THEN Bracket(<<Tuner(word)>>) ELSE <<>>

EnterDirect(type, on) ==
    Words(type, "exit")
        \o <<Write("1:b1", \h1a), Write("1:15", 0), Write("0:08", \h4d),
             Write("0:06", IF on > 1 THEN \h90 ELSE \h80)>>

\* (Mutant: the spectrum of the R82xx is not inverted again.)
LeaveUpright(type) ==
    Words(type, "init")
        \o (IF type \in R82xx THEN <<>> ELSE <<Write("0:08", \hcd), Write("1:b1", \h1b)>>)
        \o <<Write("0:06", \h80)>> \o Words(type, "set")
LeaveDirect(type) ==
    Words(type, "init")
        \o (IF type \in R82xx THEN <<Write("1:15", 1)>> ELSE <<Write("0:08", \hcd), Write("1:b1", \h1b)>>)
        \o <<Write("0:06", \h80)>> \o Words(type, "set")

DirectSampling(on) ==
    Calls("direct", IF on = 0 THEN LeaveDirect(tuner_type) ELSE EnterDirect(tuner_type, on), on)
-----------------------------------------------------------------------------
(***************************************************************************)
(* rtlsdr_open, from rtlsdr_init_baseband on, and rtlsdr_close.            *)
(***************************************************************************)
\* A register that the bring-up alone writes is "other".
NameOf(at) ==
    CASE at = <<"sys", \h3000>> -> "DEMOD_CTL" [] at = <<"1", \h01>> -> "1:01"
      [] at = <<"1", \h15>> -> "1:15"          [] at = <<"1", \hb1>> -> "1:b1"
      [] at = <<"0", \h06>> -> "0:06"          [] at = <<"0", \h08>> -> "0:08"
      [] at = <<"0", \h19>> -> "0:19"          [] OTHER -> "other"
AsProgram(writes) ==
    LET made[k \in 0..Len(writes)] ==
            IF k = 0 THEN <<>>
            ELSE made[k-1] \o (IF NameOf(writes[k].at) = "other" THEN <<>>
                               ELSE <<Write(NameOf(writes[k].at), writes[k].val)>>)
    IN  made[Len(writes)]

InitBaseband == AsProgram(CBaseband)

\* (Mutant: the repeater is on before the reset that switches it off.)
RepeaterFirst == Repeater(TRUE) \o InitBaseband
BeforeProbing == InitBaseband \o Repeater(TRUE)

\* The tuners are looked for in turn, up to the one that is seen.
Probes(names, seen) ==
    LET n == IF seen \in Range(names) THEN CHOOSE k \in DOMAIN names : names[k] = seen ELSE Len(names)
    IN  [i \in 1..n |-> Tuner("probe")]
ResetTuner == GpioOutput(5) \o GpioBit(5, TRUE) \o GpioBit(5, FALSE)
Probing(seen) ==
    Probes(Early, seen)
        \o (IF seen \in Range(Early) THEN <<>> ELSE ResetTuner \o Probes(Late, seen))
        \o (IF seen = "FC0012" THEN GpioOutput(6) ELSE <<>>)

SetUp(seen) ==
    CASE seen \in R82xx  -> <<Write("1:b1", \h1a), Write("0:08", \h4d), Write("1:15", 1), Tuner("init")>>
      [] ~Known(seen)    -> EnterDirect(seen, 1)
      [] OTHER           -> <<Tuner("init")>>

OpenProgram(seen) == BeforeProbing \o Probing(seen) \o SetUp(seen) \o Repeater(FALSE)

\* A tuner is seen if it hears the probe that is meant for it.
Sees(f) ==
    LET before == Len(BeforeProbing)
    IN  /\ Known(fitted)
        /\ Hears(After(Now, BeforeProbing, before, f))
        /\ ~(f.how = "lost" /\ f.at = before + Len(Probing(fitted))
                                      - (IF fitted = "FC0012" THEN Len(GpioOutput(6)) ELSE 0))

Open ==
    /\ ~opened
    /\ call' = "open" /\ answer' = 0
    /\ \E seen \in {fitted, "unknown"} : \E f \in Outcomes(OpenProgram(seen)) :
        /\ Known(seen) <=> Sees(f)
        /\ Become(After([Now EXCEPT !.missed = FALSE], OpenProgram(seen), Len(OpenProgram(seen)), f))
        /\ Fields(f, seen, IF Known(seen) THEN 0 ELSE 1, FALSE)
        /\ Note(f, TRUE)
    /\ UNCHANGED fitted

\* (Mutant: the demodulator loses its power first.)
PowerOffFirst == <<Write("DEMOD_CTL", \h20)>> \o Words(tuner_type, "exit")
DeinitBaseband == Words(tuner_type, "exit") \o <<Write("DEMOD_CTL", \h20)>>

\* rtlsdr_set_bias_tee
BiasTee(on) == GpioOutput(0) \o GpioBit(0, on)

Close ==
    LET p == BiasTee(FALSE) \o DeinitBaseband
    IN  /\ opened
        /\ call' = "close" /\ answer' = 0
        /\ \E f \in Outcomes(p) :
            /\ Become(After(Now, p, Len(p), f))
            /\ Note(f, clean)
        /\ NoDevice
        /\ UNCHANGED fitted
-----------------------------------------------------------------------------
(***************************************************************************)
(* The Swift class: RTLSDR.init brings the dongle up and closes it again.  *)
(* A transfer that fails ends the program.                                 *)
(***************************************************************************)
\* The only tuner it looks for.
isMatchingTuner == fitted = "R820T"

SwiftBringUp ==
    LET p == AsProgram(initBaseband) \o AsProgram(setI2CRepeater(TRUE)) \o <<Tuner("probe")>>
               \o (IF isMatchingTuner THEN AsProgram(RTLTunerR820T) ELSE <<>>)
               \o AsProgram(setI2CRepeater(FALSE))
    IN  /\ ~opened
        /\ call' = "swift" /\ answer' = 0
        /\ \E f \in {o \in Outcomes(p) : o.how \in {"none", "crash"}} :
            /\ Become(After([Now EXCEPT !.missed = FALSE], p, Len(p), f))
            /\ Note(f, TRUE)
        /\ NoDevice
        /\ UNCHANGED fitted
-----------------------------------------------------------------------------
(***************************************************************************)
(* The other setters: of the bias tee, of gains and of the sample rate,    *)
(* which resets the demodulator, and the two that share the register 0:19. *)
(***************************************************************************)
SetBiasTee(on)  == Calls("bias", BiasTee(on), direct_sampling)
SetGain         == Calls("gain", Words(tuner_type, "set"), direct_sampling)
SetSampleRate   == Calls("rate", Words(tuner_type, "set") \o <<Write("1:01", \h14), Write("1:01", \h10)>>,
                         direct_sampling)
SetTestMode(on) == Calls("testmode", <<Write("0:19", IF on THEN 3 ELSE 5)>>, direct_sampling)
SetAgcMode(on)  == Calls("agc", <<Write("0:19", IF on THEN \h25 ELSE 5)>>, direct_sampling)
-----------------------------------------------------------------------------
(***************************************************************************)
(* rtlsdr_ir_query with a buffer of buf_len: the set-up that the first one *)
(* makes, what IR_RX_IF and IR_RX_BC say, and the code if there is one and *)
(* it fits.  Set-up, code and refresh stop at a transfer that fails.       *)
(***************************************************************************)
UsbbName ==
    [DEMOD_CTL |-> "USBB:DEMOD_CTL", GPO |-> "USBB:GPO", GPOE |-> "USBB:GPOE", GPD |-> "USBB:GPD"]
Usbb(r)  == IF Aliased THEN r ELSE UsbbName[r]
IrSetUp ==
    <<Mask(Usbb("DEMOD_CTL"), 0, 4), Mask(Usbb("DEMOD_CTL"), 0, 8), Mask("USB_CTRL", \h20, \h20),
      Mask(Usbb("GPD"), 0, 8), Mask(Usbb("GPOE"), 8, 8), Mask(Usbb("GPO"), 8, 8), [do |-> "start"]>>
IrRead    == <<[do |-> "read"]>>
IrRefresh == <<[do |-> "clear"], [do |-> "start"]>>

\* (Mutants: a code has to be shorter than the buffer; one that does not fit is dropped.)
FitsIn(len, buf_len) == len < buf_len
Fits(len, buf_len)   == len <= buf_len
DropUnfit == IrRefresh
KeepUnfit == <<>>

\* Is the receiver taken for set up, if the query stops at the step `at` or does not?
\* (Mutant: before it is.)
ActiveBefore(stops, at, looks) == TRUE
Active(stops, at, looks)       == ~stops \/ at > looks

IrQuery(buf_len) ==
    LET setup == IF rc_active THEN <<>> ELSE IrSetUp
        looks == Len(setup) + 1
        Program(code, len) ==
            setup \o IrRead
              \o (IF ~code THEN <<>>
                  ELSE IrRead \o (IF Fits(len, buf_len) THEN IrRead \o IrRefresh ELSE KeepUnfit))
    IN  /\ opened
        /\ call' = "ir"
        /\ \E code \in BOOLEAN, len \in CodeLengths \cup {0} : \E p \in {Program(code, len)} :
           \E f \in Outcomes(p) :
            LET stops == Reported(f) /\ f.at \notin {looks, looks + 1}
            IN  /\ (f.how = "lost" /\ f.at = looks) \/ (code <=> ir > 0)
                /\ (f.how = "lost" /\ f.at = looks + 1) \/ len = (IF ir > 0 THEN ir ELSE 0)
                /\ Become(After(Now, p, IF stops THEN f.at ELSE Len(p), f))
                /\ answer' = IF stops THEN -1
                             ELSE IF ~code THEN 0
                             ELSE IF Fits(len, buf_len) THEN len
                             ELSE IF rc_active THEN -1 ELSE 1
                /\ Fields(f, tuner_type, direct_sampling, rc_active \/ Active(stops, f.at, looks))
                /\ Note(f, clean)
        /\ UNCHANGED fitted

\* Somebody presses a key of a remote control.
Signal(n) ==
    /\ ir = 0
    /\ ir' = n
    /\ call' = "key" /\ answer' = 0
    /\ UNCHANGED <<fitted, opened, dev, regs, tuner, missed, faults, clean>>
-----------------------------------------------------------------------------
Next ==
    \/ Open \/ Close \/ SwiftBringUp \/ SetGain \/ SetSampleRate
    \/ \E on \in 0..2 : DirectSampling(on)
    \/ \E on \in BOOLEAN : SetBiasTee(on) \/ SetTestMode(on) \/ SetAgcMode(on)
    \/ \E buf_len \in BufferSizes : IrQuery(buf_len)
    \/ \E n \in CodeLengths : Signal(n)

\* The application polls, with the largest of its buffers, while a code waits.
Fairness == WF_vars(ir > 0 /\ IrQuery(Max(BufferSizes)))

Spec == Init /\ [][Next]_vars /\ Fairness
-----------------------------------------------------------------------------
(***************************************************************************)
(* Properties.                                                             *)
(***************************************************************************)

\* The bits that each call may change.
Owned == [
    bias     |-> {<<"GPO", 1>>, <<"GPOE", 1>>, <<"GPD", 1>>},
    gain     |-> {<<"1:01", \hff>>},
    rate     |-> {<<"1:01", \hff>>},
    testmode |-> {<<"0:19", \hff>>},
    agc      |-> {<<"0:19", \hff>>},
    direct   |-> {<<r, \hff>> : r \in DemodRegs \ {"0:19"}},
    ir       |-> {<<Usbb("GPO"), 8>>, <<Usbb("GPOE"), 8>>, <<Usbb("GPD"), 8>>, <<Usbb("DEMOD_CTL"), 12>>,
                  <<"USB_CTRL", 32>>},
    key      |-> {}]
Others == [op \in DOMAIN Owned |-> [r \in RegNames |->
              {b \in 0..7 : \A x \in Owned[op] : x[1] = r => b \notin BitsOf[x[2]]}]]

\* Calls that share a register leave each other's bits alone: the pins of the
\* bias tee, of the infrared receiver and of the tuner's reset, the power of the
\* demodulator and the mode it is in.  One call at a time, none of whose transfers
\* fails: what a failed read leaves in a variable is written back to all the pins.
OwnBits ==
    [][opened /\ opened' /\ faults' = faults =>
         \A r \in RegNames :
            regs'[r] = regs[r] \/ regs'[r] \cap Others[call'][r] = regs[r] \cap Others[call'][r]]_vars

\* While nothing failed since rtlsdr_open, whatever an earlier session left in
\* the chip: the tuner was found, and every word with it was heard.
TunerFound == opened /\ clean => tuner_type = fitted /\ ~missed

\* ... and the demodulator, the tuner and direct_sampling agree.  The analog
\* inputs (0:08) of a zero-IF tuner are only written on leaving direct sampling.
Demodulates(type) ==
    /\ Value(regs["1:b1"]) = IF type \in R82xx THEN \h1a ELSE \h1b
    /\ Value(regs["1:15"]) = IF type \in R82xx THEN 1 ELSE 0
    /\ type \in R82xx => Value(regs["0:08"]) = \h4d
    /\ Value(regs["0:06"]) = \h80
Quadrature == Demodulates(tuner_type) /\ (Known(tuner_type) => tuner = "ready")
Direct ==
    /\ Value(regs["1:b1"]) = \h1a /\ Value(regs["1:15"]) = 0 /\ Value(regs["0:08"]) = \h4d
    /\ Value(regs["0:06"]) = IF direct_sampling = 2 THEN \h90 ELSE \h80
    /\ tuner # "ready"

\* Filters with coefficients at the ends of their range, and of a byte.
FirSamples    == {-2048, -2047, -256, -16, -1, 0, 1, 15, 16, 255, 256, 2047}
FirWith(v, w) == SubSeq(fir_default, 1, 8) \o <<v, w, w, v>> \o SubSeq(fir_default, 13, 16)

Listening == 3 \notin regs["1:01"] /\ 7 \in regs["DEMOD_CTL"]
ModeAgrees == opened /\ clean => Listening /\ IF direct_sampling = 0 THEN Quadrature ELSE Direct

\* The Swift class is a port: for an R820T it leaves every register that it or the
\* C sources write as these leave it, and its numbers are theirs, unless one ends
\* the program.  Whatever an earlier session left in the chip, in direct sampling
\* or dead in the middle of a call, the dongle then demodulates, and has heard.
PortAgrees ==
    /\ call = "none" =>
         /\ Left(SwiftInit) = Left(COpen)
         /\ ~FirTraps(firCoefficients)
         /\ \A v, w \in FirSamples : LET coeff == FirWith(v, w)
                                    IN  FirTraps(coeff) \/ setFirCoefficients(coeff) = Fir(coeff)
         /\ \A n \in 0..1818 : setIFFrequency(7919 * n) = IfRegisters(7919 * n)
    /\ call = "swift" /\ clean => ~missed /\ Listening /\ Demodulates(IF isMatchingTuner THEN fitted ELSE "unknown")

\* After a rtlsdr_close that ends a session in which no transfer failed, whatever earlier
\* sessions left in the chip, no power goes to the antenna, the tuner sleeps, has heard
\* that it should, and the demodulator is off.
QuietAfterClose ==
    call = "close" /\ clean =>
        /\ 0 \notin regs["GPO"] /\ 0 \in regs["GPOE"]
        /\ 7 \notin regs["DEMOD_CTL"] /\ 3 \notin regs["1:01"]
        /\ tuner # "ready" /\ ~missed

\* A waiting code stays in the receiver until a rtlsdr_ir_query.  That hands it over
\* and starts the receiver again, or it keeps the code, which is longer than its buffer,
\* and answers -1, or 1 if it has set the receiver up as well: the length of its last
\* write, though nothing is handed over.  Only if one of its transfers fails may the code
\* be lost: its length misread, or the refresh after it broken off half way.
CodeKept ==
    [][ir > 0 =>
         \/ call' # "ir" /\ ir' = ir
         \/ call' = "ir" /\ ir' = 0 /\ answer' = ir
         \/ call' = "ir" /\ ir' = ir /\ answer' = IF rc_active THEN -1 ELSE 1
         \/ call' = "ir" /\ faults' > faults]_vars

\* Whatever fails, rtlsdr_ir_query never takes a receiver for set up that is not, and
\* that no later query of the session would start: not after a set-up that stopped half
\* way, nor in a session after one that left the receiver stopped.  Only the refresh
\* after a code can, when one of its transfers fails.
ReceiverStarts ==
    [][rc_active' /\ ir' = OFF => (rc_active /\ ir = OFF) \/ (ir > 0 /\ faults' > faults)]_vars

\* Once the last transfer has failed, a waiting code is handed over to an application
\* that polls, whatever failed before and whatever the other calls do, unless the device
\* is closed.
IrServed ==
    \A n \in CodeLengths :
        opened /\ ir = n /\ faults = MaxFaults ~> (call = "ir" /\ answer = n /\ ir = 0) \/ ~opened

\* What depends on its arguments only is looked at once, before the first call.
Once == call = "none"

\* Every sample rate that rtlsdr_set_sample_rate accepts is the one it reports and
\* the resampler makes, with the crystal assumed at first; with another that
\* rtlsdr_set_xtal_freq accepts, those 32 Hz and more away from the limits are.
Rates    == {225001 + 499 * n : n \in 0..150} \cup {300000} \cup {900001 + 4999 * n : n \in 0..460} \cup {3200000}
AtLimits == {225001..225032, 299969..300000, 900001..900032}
RateExact ==
    Once =>
        /\ \A rate \in Rates \cup {900000} : Accepted(rate) => RealRate(Xtal28, rate) = rate
        /\ \A xtal \in {Xtal28 - 1000, Xtal28 - 1, Xtal28 + 1000}, rate \in Rates \ UNION AtLimits :
             RealRate(xtal, rate) = rate

\* The demodulator reads back what was computed: the frequency of the down-
\* converter within its step, up to half the crystal's (higher ones are aliases),
\* a correction up to 488 ppm, and every coefficient of the filter.
IfExact == \A freq \in {7919 * n : n \in 0..1818} : Converted(IfRegisters(freq)) - freq \in -7..0
CorrectionExact ==
    \A ppm \in -488..488 :
        LET regs14 == OffsetRegisters(ppm) IN Signed(256 * regs14[2] + regs14[1], 14) = Offset(ppm)
FirExact == \A v, w \in FirSamples : Coefficients(Fir(FirWith(v, w))) = FirWith(v, w)
NumbersExact == Once => IfExact /\ CorrectionExact /\ FirExact
=============================================================================
