------------------------------ MODULE R82xxTuner -----------------------------
(***************************************************************************)
(* tuner_r82xx.c: the registers of an R820T or R828D and the copy of them  *)
(* that the driver keeps, its shadow registers.                            *)
(*                                                                         *)
(* Every operation is a program: a sequence of transfers <<reg, val, mask>>*)
(* over I2C, of which the first that fails ends it with an error.  A write *)
(* changes the bits of mask in the shadow and sends the whole register, so *)
(* a bit that the shadow has and the chip has not is sent by whichever     *)
(* operation writes that register next.  What the chip answers to a read   *)
(* (does the PLL lock, the calibration code, the fine tuning) is chosen    *)
(* when the operation starts.  Frequencies are in kHz.                     *)
(***************************************************************************)
EXTENDS Integers, Sequences, FiniteSetsExt, Bytes, R82xxPll, R82xxGain, R82xxFilter

CONSTANTS
    Chips,      \* the chips there may be: "R820T", "R828D"
    Freqs,      \* the frequencies asked for, per chip
    Gains,      \* the gains asked for
    Widths,     \* the bandwidths asked for
    FineTunes,  \* what the chips answer for their fine tuning, less the reference
    Locks,      \* at which look of two the PLL may lock, 0 for none
    Tries,      \* how calibrations may go: a sequence of <<lock, code>>
    MaxCalls,   \* bound on the number of calls on an open device
    MaxFaults   \* bound on the number of transfers that fail, per chip

ASSUME TunerAssumption ==
    /\ Chips \subseteq {"R820T", "R828D"}
    /\ Freqs \in [Chips -> SUBSET Nat]
    /\ Gains \subseteq Int
    /\ Widths \subseteq Nat
    /\ FineTunes \subseteq -1..1
    /\ Locks \subseteq 0..2
    /\ \A tries \in Tries : Len(tries) \in 1..2 /\ \A i \in 1..Len(tries) : tries[i][2] \in 0..15
    /\ MaxCalls \in Nat
    /\ MaxFaults \in [Chips -> Nat]

VARIABLES
    rafael_chip,  \* which chip it is
    shadow,       \* priv->regs: the registers as the driver knows them
    chip,         \* the registers of the chip
    int_freq, input, init_done,  \* the fields of priv with these names
    awake,        \* may be tuned: librtlsdr.c does not in direct sampling
    dirty,        \* the registers whose last write failed
    asked,        \* per setting, what the last successful call asked for
    init_ok,      \* did the last r82xx_init succeed?
    faults,       \* how many transfers failed
    calls,        \* how many calls were made
    call          \* the last call and whether it succeeded

vars == <<rafael_chip, shadow, chip, int_freq, input, init_done, awake, dirty,
          asked, init_ok, faults, calls, call>>

\* The shadowed registers: NUM_REGS from REG_SHADOW_START on.
Regs == \h05..\h22

\* r82xx_init_array: the rest of it is 0.
InitValues == << \h83, \h32, \h75, \hc0, \h40, \hd6, \h6c, \hf5, \h63, \h75, \h68,
                 \h6c, \h83, \h80, \h00, \h0f, \h00, \hc0, \h30, \h48, \hcc, \h60,
                 \h00, \h54, \hae, \h4a, \hc0 >>
InitArray  == [r \in Regs |-> BitsOf[IF r - 4 \in DOMAIN InitValues THEN InitValues[r - 4] ELSE 0]]

NONE == [is |-> "none"]
Settings == {"freq", "input", "gain", "filter"}

TypeOK ==
    /\ rafael_chip \in Chips
    /\ shadow \in [Regs -> Byte] /\ chip \in [Regs -> Byte]
    /\ int_freq \in 0..4570
    /\ input \in {\h00, \h60}
    /\ init_done \in BOOLEAN /\ awake \in BOOLEAN
    /\ dirty \subseteq Regs
    /\ DOMAIN asked = Settings /\ init_ok \in BOOLEAN
    /\ faults \in 0..MaxFaults[rafael_chip]
    /\ calls \in 0..MaxCalls
    /\ call.ok \in BOOLEAN

\* The memory of the driver is cleared; what the chip has is not known.
Init ==
    /\ rafael_chip \in Chips
    /\ shadow = [r \in Regs |-> {}]
    /\ chip = [r \in Regs |-> 0..7]
    /\ int_freq = 0 /\ input = 0 /\ init_done = FALSE /\ awake = FALSE
    /\ dirty = Regs
    /\ asked = [s \in Settings |-> NONE]
    /\ init_ok = FALSE
    /\ faults = 0 /\ calls = 0
    /\ call = [op |-> "none", ok |-> TRUE]

Xtal == IF rafael_chip = "R828D" THEN 16000 ELSE 28800
-----------------------------------------------------------------------------
(***************************************************************************)
(* Programs of transfers, and what remains of one that fails.              *)
(***************************************************************************)
Read         == <<0, 0, 0>>
Write(r, v)  == <<r, v, \hff>>
IsWrite(x)   == x[1] \in Regs

\* The transfers among the first n of p that write the register r, and what they
\* make of its bits: each bit is what the last one with it in its mask says.
On(p, n, r) == {j \in 1..n : p[j][1] = r}
Merged(bits, p, on) ==
    LET Mask(j)  == BitsOf[p[j][3]]
        later(j) == UNION {Mask(i) : i \in {i \in on : i > j}}
    IN  (bits \ UNION {Mask(j) : j \in on})
            \cup UNION {(BitsOf[p[j][2]] \cap Mask(j)) \ later(j) : j \in on}

\* The shadow after the first n transfers of p.
Store(base, p, n) ==
    [r \in Regs |-> IF On(p, n, r) = {} THEN base[r] ELSE Merged(base[r], p, On(p, n, r))]

\* What the shadow becomes, and what is sent.
\* (Mutant: only writes of a whole register are remembered.)
RememberWhole(base, p, n) == Store(base, [j \in DOMAIN p |-> IF p[j][3] = 255 THEN p[j] ELSE Read], n)
Remember(base, p, n)      == Store(base, p, n)

\* A program is done, or its k-th transfer fails, which may have
\* landed in the chip for all that.
Done == [k |-> 0, landed |-> TRUE]
Failures(p) ==
    IF faults = MaxFaults[rafael_chip] THEN {}
    ELSE {o \in [k : 1..Len(p), landed : BOOLEAN] : o.landed => IsWrite(p[o.k])}
Outcomes(p) == {Done} \cup Failures(p)

\* p is run from the shadow base and the chip regs, of which lost failed before.
Run(base, regs, lost, prog, o) == \E p \in {prog} :
    LET n    == IF o = Done THEN Len(p) ELSE o.k
        sent == {p[j][1] : j \in 1..(IF o.landed THEN n ELSE n - 1)} \cap Regs
        now  == Store(base, p, n)
        was  == Store(base, p, n - 1)
        bad  == IF o = Done THEN {} ELSE {p[n][1]} \cap Regs
    IN  /\ shadow' = Remember(base, p, n)
        /\ chip' = [r \in Regs |-> IF r \notin sent THEN regs[r]
                                   ELSE IF o.landed THEN now[r] ELSE was[r]]
        /\ dirty' = (lost \ sent) \cup bad

\* Before the n-th transfer.
FailsBy(o, n) == o # Done /\ o.k <= n
Count(o)      == IF o = Done THEN 0 ELSE 1

Called(op, ok) ==
    /\ calls < MaxCalls
    /\ calls' = calls + 1
    /\ call' = [op |-> op, ok |-> ok]

\* The settings of which a call says that they are now as asked.
Ask(s, what) == asked' = [asked EXCEPT ![s] = what]
-----------------------------------------------------------------------------
(***************************************************************************)
(* r82xx_set_mux: the filters before the mixer, by the range of the        *)
(* frequency: its start in MHz, open_d, rf_mux_ploy and tf_c.  xtal_cap0p  *)
(* is 0 in every range, and the others are not selected by the driver.     *)
(***************************************************************************)
freq_ranges == <<
    <<  0, 8, \h02, \hdf>>, << 50, 8, \h02, \hbe>>, << 55, 8, \h02, \h8b>>, << 60, 8, \h02, \h7b>>,
    << 65, 8, \h02, \h69>>, << 70, 8, \h02, \h58>>, << 75, 0, \h02, \h44>>, << 80, 0, \h02, \h44>>,
    << 90, 0, \h02, \h34>>, <<100, 0, \h02, \h34>>, <<110, 0, \h02, \h24>>, <<120, 0, \h02, \h24>>,
    <<140, 0, \h02, \h14>>, <<180, 0, \h02, \h13>>, <<220, 0, \h02, \h13>>, <<250, 0, \h02, \h11>>,
    <<280, 0, \h02, \h00>>, <<310, 0, \h41, \h00>>, <<450, 0, \h41, \h00>>, <<588, 0, \h40, \h00>>,
    <<650, 0, \h40, \h00>> >>

RangeOf(lo) == freq_ranges[Max({i \in DOMAIN freq_ranges : freq_ranges[i][1] <= lo \div 1000})]

Mux(lo) ==
    LET range == RangeOf(lo)
    IN  << <<\h17, range[2], \h08>>, <<\h1a, range[3], \hc3>>, Write(\h1b, range[4]),
           <<\h10, 0, \h0b>>, <<\h08, 0, \h3f>>, <<\h09, 0, \h3f>> >>

(***************************************************************************)
(* r82xx_set_pll.  The chip's answers: fine, its fine tuning, and lock, at *)
(* which of the two looks the PLL has locked, 0 if at none.                *)
(***************************************************************************)
PllDivider(lo, fine) ==
    << <<\h10, 0, \h10>>, <<\h1a, 0, \h0c>>, <<\h12, \h80, \he0>>, Read,
       <<\h10, 32 * DivField(lo, fine), \he0>> >>

PllFraction(lo) ==
    LET fra == VcoFra(lo, Xtal)
        sdm == Sdm(fra, Xtal)
    IN  << Write(\h14, NiSi(Nint(lo, Xtal))), <<\h12, IF fra = 0 THEN 8 ELSE 0, \h08>>,
           Write(\h16, sdm \div 256), Write(\h15, sdm % 256) >>

PllLock(lock) ==
    <<Read>> \o (IF lock = 1 THEN <<>> ELSE << <<\h12, \h60, \he0>>, Read >>)
             \o (IF lock = 0 THEN <<>> ELSE << <<\h1a, \h08, \h08>> >>)

\* Without valid values it ends, with an error, after the divider.
Valid(lo) == ValidNint(lo, Xtal, PowerRef(rafael_chip))
Pll(lo, fine, lock) ==
    PllDivider(lo, fine) \o (IF Valid(lo) THEN PllFraction(lo) \o PllLock(lock) ELSE <<>>)
-----------------------------------------------------------------------------
(***************************************************************************)
(* r82xx_set_freq.  Of an R828D it also selects the antenna input, if that *)
(* is not the one which priv->input says is selected.                      *)
(***************************************************************************)
\* (Mutants: only one of the two bits is set; the input is never switched back.)
InputOfBit(f) == IF f > 345000 THEN \h00 ELSE \h40
InputOf(f)    == IF f > 345000 THEN \h00 ELSE \h60
SwitchesOnce(f) == rafael_chip = "R828D" /\ InputOf(f) # 0 /\ input = 0
Switches(f)     == rafael_chip = "R828D" /\ InputOf(f) # input

\* (Mutant: the whole register is written.)
SwitchAll(f)   == IF Switches(f) THEN << <<\h05, InputOf(f), \h7f>> >> ELSE <<>>
InputSwitch(f) == IF Switches(f) THEN << <<\h05, InputOf(f), \h60>> >> ELSE <<>>

\* (Mutant: the intermediate frequency is forgotten.)
LoZeroIF(f) == f
LoFreq(f)   == f + int_freq

SetFreq(f, fine, lock) ==
    LET lo     == LoFreq(f)
        tune   == Mux(lo) \o Pll(lo, fine, lock)
        locked == Valid(lo) /\ lock # 0
        p      == tune \o (IF locked THEN InputSwitch(f) ELSE <<>>)
    IN  \E o \in Outcomes(p) :
        /\ awake
        /\ Called("freq", o = Done /\ Valid(lo))
        /\ Run(shadow, chip, dirty, p, o)
        /\ input' = IF Len(p) > Len(tune) /\ ~FailsBy(o, Len(tune)) THEN InputOf(f) ELSE input
        /\ faults' = faults + Count(o)
        /\ asked' = [asked EXCEPT
             !["freq"]  = IF o = Done /\ locked
                          THEN [is |-> "tuned", at |-> f + int_freq, fine |-> fine]
                          ELSE NONE,
             !["input"] = IF o = Done /\ locked THEN [is |-> "input", at |-> InputOf(f)] ELSE NONE]
        /\ UNCHANGED <<rafael_chip, int_freq, init_done, awake, init_ok>>
-----------------------------------------------------------------------------
(***************************************************************************)
(* r82xx_set_gain: by hand, automatic, or each amplifier by itself.        *)
(* r820t_set_gain_mode(1) sets a gain of 0 by hand.                        *)
(***************************************************************************)
ManualGain(g) ==
    LET n == Steps(g)
    IN  << <<\h05, \h10, \h10>>, <<\h07, 0, \h10>>, Read, <<\h0c, \h08, \h9f>>,
           <<\h05, LnaIndex(n), \h0f>>, <<\h07, MixIndex(n), \h0f>> >>
\* (Mutant: the mixer stays with the gain set by hand.)
AutoLna  == << <<\h05, 0, \h10>>, <<\h0c, \h0b, \h9f>> >>
AutoGain == << <<\h05, 0, \h10>>, <<\h07, \h10, \h10>>, <<\h0c, \h0b, \h9f>> >>
ExtendedGain(lna, mixer, vga) == << <<\h05, lna, \h0f>>, <<\h07, mixer, \h0f>>, <<\h0c, vga, \h9f>> >>

GainCall(p, what) ==
    \E o \in Outcomes(p) :
        /\ calls > 0
        /\ Called("gain", o = Done)
        /\ Run(shadow, chip, dirty, p, o)
        /\ faults' = faults + Count(o)
        /\ Ask("gain", IF o = Done THEN what ELSE NONE)
        /\ UNCHANGED <<rafael_chip, int_freq, input, init_done, awake, init_ok>>

SetGain(g) == GainCall(ManualGain(g), [is |-> "manual", gain |-> g])
SetGainMode(manual) ==
    IF manual THEN SetGain(0) ELSE GainCall(AutoGain, [is |-> "auto"])
SetGainExt(lna, mixer, vga) == GainCall(ExtendedGain(lna, mixer, vga), NONE)

(***************************************************************************)
(* r82xx_set_bandwidth: int_freq is stored before the filter is written.   *)
(***************************************************************************)
\* (Mutant: the mask leaves out the bits of the high pass.)
FilterLowPass(w) ==
    << <<\h0a, SetBandwidth(w).reg_0a, \h10>>, <<\h0b, SetBandwidth(w).reg_0b, \h0f>> >>
FilterProgram(w) ==
    << <<\h0a, SetBandwidth(w).reg_0a, \h10>>, <<\h0b, SetBandwidth(w).reg_0b, \hef>> >>

SetFilter(w) ==
    \E o \in Outcomes(FilterProgram(w)) :
        /\ calls > 0
        /\ Called("filter", o = Done)
        /\ Run(shadow, chip, dirty, FilterProgram(w), o)
        /\ int_freq' = SetBandwidth(w).int_freq
        /\ faults' = faults + Count(o)
        /\ Ask("filter", IF o = Done THEN [is |-> "width", width |-> w] ELSE NONE)
        /\ UNCHANGED <<rafael_chip, input, init_done, awake, init_ok>>
-----------------------------------------------------------------------------
(***************************************************************************)
(* r82xx_standby, which librtlsdr.c calls for direct sampling.             *)
(***************************************************************************)
StandbyProgram ==
    LET value == << <<\h06, \hb1>>, <<\h05, \h03>>, <<\h07, \h3a>>, <<\h08, \h40>>, <<\h09, \hc0>>,
                    <<\h0a, \h36>>, <<\h0c, \h35>>, <<\h0f, \h68>>, <<\h11, \h03>>, <<\h17, \hf4>>,
                    <<\h19, \h0c>> >>
    IN  [i \in DOMAIN value |-> Write(value[i][1], value[i][2])]

Standby ==
    LET p == IF init_done THEN StandbyProgram ELSE <<>>
    IN  \E o \in Outcomes(p) :
        /\ calls > 0
        /\ Called("standby", o = Done)
        /\ Run(shadow, chip, dirty, p, o)
        /\ awake' = FALSE
        /\ faults' = faults + Count(o)
        /\ asked' = [s \in Settings |-> NONE]
        /\ UNCHANGED <<rafael_chip, int_freq, input, init_done, init_ok>>
-----------------------------------------------------------------------------
(***************************************************************************)
(* r82xx_init: all the registers, the standard with the calibration of the *)
(* filter, and r82xx_sysfreq_sel.  The calibration is tried twice: a try is*)
(* where the PLL locks, and the code that the chip answers.                *)
(***************************************************************************)
\* Without a lock it ends there, and succeeds.
Calibrate(fine, try) ==
    << <<\h0b, \h6b, \h60>>, <<\h0f, \h04, \h04>>, <<\h10, 0, \h03>> >> \o Pll(56000, fine, try[1])
        \o (IF try[1] = 0 THEN <<>>
            ELSE << <<\h0b, \h10, \h10>>, <<\h0b, 0, \h10>>, <<\h0f, 0, \h04>>, Read >>)

\* A code of 0 or 15 is tried again; 15 then stands for the narrowest filter.
Calibrated(tries) == tries[Len(tries)][1] # 0
Code(tries) == IF tries[Len(tries)][2] = 15 THEN 0 ELSE tries[Len(tries)][2]

Standard(code) ==
    << <<\h0a, \h10 + code, \h1f>>, <<\h0b, \h6b, \hef>>, <<\h07, 0, \h80>>, <<\h06, \h10, \h30>>,
       <<\h1e, \h60, \h60>>, <<\h05, 0, \h80>>, <<\h1f, 0, \h80>>, <<\h0f, 0, \h80>>, <<\h19, \h60, \h60>> >>

TvHead == << <<\h0c, 0, \h0f>>, <<\h13, 49, \h3f>>, <<\h1d, 0, \h38>> >>
TvStandard(fine, tries) ==
    TvHead \o Calibrate(fine, tries[1])
           \o (IF Len(tries) = 1 THEN <<>> ELSE Calibrate(fine, tries[2]))
           \o (IF Calibrated(tries) THEN Standard(Code(tries)) ELSE <<>>)

\* For SYS_DVBT at the frequency 0: what selects the input, and what follows.
SysfreqTop  == << <<\h1d, \he5, \hc7>>, <<\h1c, \h24, \hf8>>, Write(\h0d, \h53), Write(\h0e, \h75) >>
SysfreqRest ==
    << <<\h05, \h00, \h60>>, <<\h06, 0, \h08>>, <<\h11, \h38, \h38>>, <<\h17, \h30, \h30>>, <<\h0a, \h40, \h60>>,
       <<\h1d, 0, \h38>>, <<\h1c, 0, \h04>>, <<\h06, 0, \h40>>, <<\h1a, \h30, \h30>>, <<\h1d, \h18, \h38>>,
       <<\h1c, \h24, \h04>>, <<\h1e, 14, \h1f>>, <<\h1a, \h20, \h30>> >>

\* How many registers the first write reaches the chip with: it is sent in
\* pieces of max_i2c_msg_len - 1, and whether it succeeds is not looked at.
Piece == 7
Bursts  == {Cardinality(Regs)} \cup {n \in {0, Piece, 2 * Piece, 3 * Piece, 4 * Piece} : faults < MaxFaults[rafael_chip]}

\* The registers that it does not reach, and the chip after it.
NotReached(reached) == {r \in Regs : r - \h05 >= reached}
AfterBurst(reached) == [r \in Regs |-> IF r \in NotReached(reached) THEN chip[r] ELSE InitArray[r]]

InitTuner(fine, tries) ==
    LET tv == TvStandard(fine, tries)
        p  == tv \o SysfreqTop \o SysfreqRest
    IN  \E reached \in Bursts :
        LET all == reached = Cardinality(Regs)
        IN  \E o \in {Done} \cup {x \in Failures(p) : all \/ faults + 1 < MaxFaults[rafael_chip]} :
            /\ Called("init", o = Done)
            /\ Run(InitArray, AfterBurst(reached), NotReached(reached), p, o)
            /\ int_freq' = IF FailsBy(o, Len(TvHead)) THEN int_freq ELSE 3570
            /\ input' = IF FailsBy(o, Len(tv) + Len(SysfreqTop)) THEN input ELSE 0
            /\ init_done' = (init_done \/ ~FailsBy(o, Len(tv)))
            /\ awake' = TRUE
            /\ init_ok' = (o = Done)
            /\ faults' = faults + Count(o) + (IF all THEN 0 ELSE 1)
            /\ asked' =
                 IF o # Done THEN [s \in Settings |-> NONE]
                 ELSE [freq |-> NONE, input |-> [is |-> "input", at |-> 0], gain |-> [is |-> "auto"],
                       filter |-> IF Calibrated(tries) THEN [is |-> "width", width |-> 6000] ELSE NONE]
            /\ UNCHANGED rafael_chip

\* The device is closed and opened, perhaps after it was plugged in again.
Reopen ==
    /\ calls > 0
    /\ shadow' = [r \in Regs |-> {}] /\ chip' = [r \in Regs |-> 0..7]
    /\ int_freq' = 0 /\ input' = 0 /\ init_done' = FALSE /\ awake' = FALSE
    /\ dirty' = Regs
    /\ asked' = [s \in Settings |-> NONE]
    /\ init_ok' = FALSE
    /\ faults' = 0 /\ calls' = 0
    /\ call' = [op |-> "none", ok |-> TRUE]
    /\ UNCHANGED rafael_chip
-----------------------------------------------------------------------------
Next ==
    \/ \E fine \in FineTunes, tries \in Tries : InitTuner(fine, tries)
    \/ \E f \in Freqs[rafael_chip], fine \in FineTunes, lock \in Locks : SetFreq(f, fine, lock)
    \/ \E g \in Gains : SetGain(g)
    \/ \E manual \in BOOLEAN : SetGainMode(manual)
    \/ SetGainExt(15, 15, 15)
    \/ \E w \in Widths : SetFilter(w)
    \/ Standby
    \/ Reopen

Spec == Init /\ [][Next]_vars
-----------------------------------------------------------------------------
\* The shadow is right about every register whose last write did not fail: a
\* masked write computes from it what the other bits of the chip will be.
Coherent == \A r \in Regs \ dirty : shadow[r] = chip[r]

\* What each call may change.
Owned == [freq   |-> {<<\h10, \heb>>, <<\h12, \he8>>, <<\h14, \hff>>, <<\h15, \hff>>, <<\h16, \hff>>,
                      <<\h17, \h08>>, <<\h1a, \hcf>>, <<\h1b, \hff>>, <<\h05, \h60>>},
          gain   |-> {<<\h05, \h1f>>, <<\h07, \h1f>>, <<\h0c, \h9f>>},
          filter |-> {<<\h0a, \h10>>, <<\h0b, \hef>>}]

\* Settings share registers, but only its own calls, and those that set up the
\* whole tuner, change a setting in the chip; others may carry out what a call
\* that failed has left in the shadow.
SettingsKept ==
    [][\A s \in DOMAIN Owned :
         call'.op \notin {s, "init", "standby", "none"} =>
           \A x \in Owned[s] :
             x[1] \in dirty \/ chip'[x[1]] \cap BitsOf[x[2]] = chip[x[1]] \cap BitsOf[x[2]]]_vars

Near(a, b) == a - b \in -1..1

\* While no later call failed to tune, the registers of the chip make the
\* oscillator's frequency that the last r82xx_set_freq to succeed asked for,
\* with the filters of its range: to 1 kHz, where some divider fits and the chip
\* answers the fine tuning expected of it.
TunedAsAsked ==
    LET lo == asked["freq"].at
    IN  asked["freq"].is = "tuned" /\ PllRange(lo) /\ asked["freq"].fine = 0 =>
        /\ Near(Synthesised(Value(chip[\h10]) \div 32, Value(chip[\h14]),
                            256 * Value(chip[\h16]) + Value(chip[\h15]), Xtal), lo)
        /\ Value(chip[\h1b]) = RangeOf(lo)[4]
        /\ Value(chip[\h17] \cap BitsOf[\h08]) = RangeOf(lo)[2]
        /\ Value(chip[\h1a] \cap BitsOf[\hc3]) = RangeOf(lo)[3]

\* The amplifiers follow the last gain call that succeeded, and the setup, unless
\* the first write of it was lost: by hand, no setting of the walk before theirs
\* reaches the gain asked for.
GainAsAsked ==
    LET l == Value(chip[\h05] \cap BitsOf[\h0f])
        m == Value(chip[\h07] \cap BitsOf[\h0f])
    IN  /\ asked["gain"].is = "auto" /\ {\h05, \h07} \cap dirty = {} => 4 \notin chip[\h05] /\ 4 \in chip[\h07]
        /\ asked["gain"].is = "manual" =>
             /\ 4 \in chip[\h05] /\ 4 \notin chip[\h07]
             /\ l - m \in 0..1
             /\ TotalGain(l, m) >= asked["gain"].gain \/ l + m = 30
             /\ l > m => TotalGain(m, m) < asked["gain"].gain
             /\ l = m /\ l > 0 => TotalGain(l, m - 1) < asked["gain"].gain

\* The filter of the chip and the intermediate frequency the driver tunes with
\* belong together, unless a bandwidth or the setup failed since, or the PLL did
\* not lock for the calibration.
FilterAsAsked ==
    asked["filter"].is = "width" =>
        LET filter == SetBandwidth(asked["filter"].width)
        IN  /\ int_freq = filter.int_freq
            /\ chip[\h0a] \cap BitsOf[\h10] = BitsOf[filter.reg_0a]
            /\ chip[\h0b] \cap BitsOf[\hef] = BitsOf[filter.reg_0b]

\* An R828D receives from the input of the frequency it was tuned to, unless the
\* write that was to switch it, or the last setup, failed: the driver believes
\* then that it did.
InputFollows ==
    rafael_chip = "R828D" /\ asked["input"].is = "input" /\ init_ok /\ \h05 \notin dirty =>
        Value(chip[\h05] \cap BitsOf[\h60]) = asked["input"].at

\* What does not depend on the history of calls is looked at once, before the first.
Once == calls = 0

\* The synthesiser over its whole range, with the crystal of the chip: a divider
\* fits, nothing is divided by zero and the error is within 1 kHz.
PllAccurate ==
    Once => \A lo \in {27657 + 1009 * n : n \in 0..1726} :
        LET fra == VcoFra(lo, Xtal)
        IN  /\ Valid(lo)
            /\ ~DividesByZero(fra, Xtal)
            /\ Near(Synthesised(DivField(lo, 0), NiSi(Nint(lo, Xtal)), Sdm(fra, Xtal), Xtal), lo)
=============================================================================
