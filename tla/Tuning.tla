------------------------------- MODULE Tuning --------------------------------
(***************************************************************************)
(* How librtlsdr.c tunes: rtlsdr_set_center_freq and the calls that retune *)
(* on the way (direct sampling, its automatic mode, offset tuning, sample  *)
(* rate, bandwidth, frequency correction, crystals), over the tuner chip   *)
(* and the down-converter (DDC) of the demodulator.                        *)
(*                                                                         *)
(* These functions call each other: set_center_freq may switch direct      *)
(* sampling, which tunes to the old frequency again, and setting the       *)
(* tuner's bandwidth tunes too.  A call is therefore kept as what is left  *)
(* to do, a sequence of steps of which the first is taken next and may put *)
(* others in front of the rest.  Frequencies are in kHz.                   *)
(*                                                                         *)
(* The demodulator's registers are always written: a USB error is not      *)
(* modelled here.  The tuner may refuse a frequency.  Whether the PLL of   *)
(* the R82xx then locks makes no difference to what these functions do.    *)
(***************************************************************************)
EXTENDS Integers, Sequences, R82xxFilter

CONSTANTS
    TunerTypes,     \* the tuners rtlsdr_open may find
    Freqs,          \* the frequencies asked for
    Thresholds,     \* thresholds for automatic direct sampling
    Rates, Widths,  \* sample rates, and bandwidths, where 0 means automatic
    Corrections,    \* corrections in ppm
    Xtals,          \* the crystals there may be, beside the one assumed at first
    TunerFails      \* may the tuner refuse a frequency or a bandwidth?

ASSUME TuningAssumption ==
    /\ Freqs \subseteq Nat \ {0}
    /\ Thresholds \subseteq Nat \ {0}
    /\ Rates \subseteq Nat \ {0}
    /\ Widths \subseteq Nat
    /\ Corrections \subseteq Int
    /\ Xtals \subseteq 28799..28801
    /\ TunerFails \in BOOLEAN

VARIABLES
    tuner_type, freq, direct_sampling, direct_sampling_mode, direct_sampling_threshold,
    offs_freq, rate, bw, corr, rtl_xtal, tun_xtal,  \* the fields of dev with these names
    int_freq,                    \* priv->int_freq of the R82xx
    lo, ddc,     \* what the tuner's oscillator and the DDC are set to
    input,       \* what the ADC samples: 0 the tuner, 1 or 2 the antenna
    repeater,    \* is the I2C repeater to the tuner on?
    todo,        \* the steps the current call has left
    r,           \* the last result, 0 or -1
    call         \* the call being made, or made last: "center", "again" for the
                 \* frequency already set, or any other

dsVars   == <<direct_sampling, direct_sampling_mode, direct_sampling_threshold>>
xtalVars == <<rtl_xtal, tun_xtal>>
cfgVars  == <<tuner_type, offs_freq, rate, bw, corr, xtalVars>>
chipVars == <<int_freq, lo, ddc, input, repeater>>
vars == <<freq, dsVars, cfgVars, chipVars, todo, r, call>>

\* RTLSDR_DS_IQ, _I, _Q, _I_BELOW, _Q_BELOW
DsModes   == 0..4
AutoModes == 3..4

\* The R82xx deliver a low intermediate frequency, the others none.
LowIF == tuner_type \in {"R820T", "R828D"}

\* R82XX_IF_FREQ, and the default of the zero-IF tuners.
DefaultIF == IF LowIF THEN 3570 ELSE 0

\* DEF_RTL_XTAL_FREQ, MIN_ and MAX_RTL_XTAL_FREQ, and R828D_XTAL_FREQ.
DefaultXtal == 28800
RtlXtals    == 28799..28801
TunerXtal   == IF tuner_type = "R828D" THEN 16000 ELSE DefaultXtal

\* Set, at a correction and for a crystal; the tuner's oscillator may also be
\* anywhere.  A new crystal of the RTL2832 reaches the DDC with the next call that
\* writes it, so no crystal is kept for the DDC.
Setting == [at : Int, corr : Int, xtal : Nat]
Unset   == [at |-> -1, corr |-> 0, xtal |-> 0]
Ddc(f)  == [at |-> f, corr |-> corr]

FieldTypes ==
    /\ tuner_type \in TunerTypes
    /\ freq \in Freqs \cup {0}
    /\ direct_sampling \in 0..2
    /\ direct_sampling_mode \in DsModes
    /\ direct_sampling_threshold \in Thresholds \cup {0}
    /\ offs_freq \in Nat
    /\ rate \in Rates \cup {0}
    /\ bw \in Widths \cup {0}
    /\ corr \in Corrections \cup {0}
    /\ int_freq \in Nat
    /\ rtl_xtal \in RtlXtals /\ tun_xtal \in RtlXtals \cup {16000}
    /\ lo \in Setting /\ ddc \in [at : Int, corr : Int]
    /\ input \in 0..2
    /\ repeater \in BOOLEAN
    /\ r \in {0, -1}

\* The calls that tune each other nest to a depth that neither the frequencies nor
\* the mode decide: no more steps than MaxNested are ever left.
MaxNested == 8
Nested    == Len(todo) <= MaxNested

\* The fields keep their ranges and the recursion of rtlsdr_set_center_freq its bound.
TypeOK == FieldTypes /\ Nested

\* A device that rtlsdr_open has just returned.
Init ==
    /\ tuner_type \in TunerTypes
    /\ freq = 0
    /\ direct_sampling = 0 /\ direct_sampling_mode = 0 /\ direct_sampling_threshold = 0
    /\ offs_freq = 0 /\ rate = 0 /\ bw = 0 /\ corr = 0
    /\ rtl_xtal = DefaultXtal /\ tun_xtal = TunerXtal
    /\ int_freq = DefaultIF
    /\ lo = Unset
    /\ ddc = [at |-> DefaultIF, corr |-> 0]
    /\ input = 0
    /\ repeater = FALSE
    /\ todo = <<>>
    /\ r = 0
    /\ call = "other"
-----------------------------------------------------------------------------
Idle == todo = <<>>

\* The step op with argument arg is next; it is replaced by those in steps.
At(op, arg) == ~Idle /\ Head(todo) = <<op, arg>>
Run(steps)  == todo' = steps \o Tail(todo)

\* A tuner operation, with the repeater on around it.
\* (Mutant: the repeater is switched off before the tuner is spoken to.)
RepeaterOffFirst(op, arg) == << <<"repeater", TRUE>>, <<"repeater", FALSE>>, <<op, arg>> >>
Repeated(op, arg) == << <<"repeater", TRUE>>, <<op, arg>>, <<"repeater", FALSE>> >>

SetRepeater(on) ==
    /\ At("repeater", on)
    /\ repeater' = on
    /\ Run(<<>>)
    /\ UNCHANGED <<freq, dsVars, cfgVars, int_freq, lo, ddc, input, r, call>>
-----------------------------------------------------------------------------
(***************************************************************************)
(* rtlsdr_set_center_freq and rtlsdr_update_ds.                            *)
(***************************************************************************)
NewDs(f) ==
    IF f < direct_sampling_threshold
    THEN IF direct_sampling_mode = 3 THEN 1 ELSE 2
    ELSE 0

\* One of the two modes that switch by themselves.
Automatic == direct_sampling_mode \in AutoModes

\* (Mutants: direct sampling is set without a look at what it is; the mode is
\* kept by the calls that set it only.)
SwitchesAlways(f) == Automatic
SwitchesNever(f)  == FALSE
Switches(f)       == Automatic /\ NewDs(f) # direct_sampling

SetCenterFreq(f) ==
    /\ At("center", f)
    /\ IF Switches(f)
       THEN Run(<< <<"direct", NewDs(f)>>, <<"tune", f>> >>)
       ELSE Run(<< <<"tune", f>> >>)
    /\ UNCHANGED <<freq, dsVars, cfgVars, chipVars, r, call>>

\* Direct sampling: the DDC selects the frequency.
TuneDdc(f) ==
    /\ At("tune", f)
    /\ direct_sampling # 0
    /\ ddc' = Ddc(f)
    /\ freq' = f
    /\ r' = 0
    /\ Run(<<>>)
    /\ UNCHANGED <<dsVars, cfgVars, int_freq, lo, input, repeater, call>>

\* Otherwise the tuner does.
TuneTuner(f) ==
    /\ At("tune", f)
    /\ direct_sampling = 0
    /\ Run(Repeated("oscillator", f))
    /\ UNCHANGED <<freq, dsVars, cfgVars, chipVars, r, call>>

\* r82xx_set_freq adds the intermediate frequency to what it is asked for.
LoFreq(f) == f - offs_freq + (IF LowIF THEN int_freq ELSE 0)

\* (Mutant: a frequency the tuner refused is kept.)
KeepFreq == UNCHANGED freq
NoFreq   == freq' = 0

\* (Mutant: a frequency that was refused is tried again.)
TryAgain(f) == << <<"repeater", FALSE>>, <<"repeater", TRUE>>, <<"oscillator", f>> >>
GiveUp(f)   == <<>>

SetOscillator(f) ==
    /\ At("oscillator", f)
    /\ \/ /\ lo' = [at |-> LoFreq(f), corr |-> corr, xtal |-> tun_xtal]
          /\ freq' = f
          /\ r' = 0
          /\ Run(<<>>)
       \/ /\ TunerFails
          /\ lo' = Unset
          /\ NoFreq
          /\ r' = -1
          /\ Run(GiveUp(f))
    /\ UNCHANGED <<dsVars, cfgVars, int_freq, ddc, input, repeater, call>>
-----------------------------------------------------------------------------
(***************************************************************************)
(* rtlsdr_set_direct_sampling: on puts the tuner in standby, off starts it *)
(* anew.  Both end by tuning to dev->freq.                                 *)
(***************************************************************************)
SetDirectSampling(on) ==
    /\ At("direct", on)
    /\ IF on # 0 THEN Run(Repeated("standby", 0) \o << <<"enter", on>> >>)
                 ELSE Run(Repeated("init", 0) \o << <<"leave", 0>> >>)
    /\ UNCHANGED <<freq, dsVars, cfgVars, chipVars, r, call>>

Standby ==
    /\ At("standby", 0)
    /\ lo' = Unset
    /\ Run(<<>>)
    /\ UNCHANGED <<freq, dsVars, cfgVars, int_freq, ddc, input, repeater, r, call>>

EnterDirect(on) ==
    /\ At("enter", on)
    /\ input' = on
    /\ direct_sampling' = on
    /\ Run(<< <<"center", freq>> >>)
    /\ UNCHANGED <<freq, direct_sampling_mode, direct_sampling_threshold, cfgVars,
                   int_freq, lo, ddc, repeater, r, call>>

\* tuner->init: the chip calibrates itself at a frequency of its own.
\* (Mutant: the intermediate frequency of the last bandwidth stays.)
KeepIF  == UNCHANGED int_freq
ResetIF == int_freq' = DefaultIF

InitTuner ==
    /\ At("init", 0)
    /\ ResetIF
    /\ lo' = Unset
    /\ Run(<<>>)
    /\ UNCHANGED <<freq, dsVars, cfgVars, ddc, input, repeater, r, call>>

LeaveDirect ==
    /\ At("leave", 0)
    /\ ddc' = Ddc(DefaultIF)
    /\ input' = 0
    /\ direct_sampling' = 0
    /\ Run(<< <<"center", freq>> >>)
    /\ UNCHANGED <<freq, direct_sampling_mode, direct_sampling_threshold, cfgVars,
                   int_freq, lo, repeater, r, call>>
-----------------------------------------------------------------------------
(***************************************************************************)
(* tuner->set_bw.  On the R82xx (r820t_set_bw) it moves the intermediate   *)
(* frequency, so the DDC follows and the tuner is tuned again.             *)
(***************************************************************************)
SetBwLowIF(width) ==
    /\ At("set_bw", width)
    /\ LowIF
    /\ int_freq' = SetBandwidth(width).int_freq
    /\ ddc' = Ddc(int_freq')
    /\ Run(<< <<"center", freq>> >>)
    /\ UNCHANGED <<freq, dsVars, cfgVars, lo, input, repeater, r, call>>

SetBwZeroIF(width) ==
    /\ At("set_bw", width)
    /\ ~LowIF
    /\ r' \in (IF TunerFails THEN {0, -1} ELSE {0})
    /\ Run(<<>>)
    /\ UNCHANGED <<freq, dsVars, cfgVars, chipVars, call>>

\* dev->bw is what was asked for, if it was set.
KeepBw(width) ==
    /\ At("keep_bw", width)
    /\ bw' = IF r = 0 THEN width ELSE bw
    /\ Run(<<>>)
    /\ UNCHANGED <<tuner_type, freq, dsVars, offs_freq, rate, corr, xtalVars, chipVars, r, call>>

\* What the tuner is given: the bandwidth asked for, or the sample rate.
WidthOr(width, samp_rate) == IF width > 0 THEN width ELSE samp_rate

(***************************************************************************)
(* rtlsdr_set_sample_rate after the tuner's bandwidth: the demodulator is  *)
(* reset, which writes the register that holds the repeater bit, and the   *)
(* offset follows the rate.                                                *)
(***************************************************************************)
AfterRate ==
    /\ At("after_rate", 0)
    /\ repeater' = FALSE
    /\ r' = 0
    /\ Run(IF offs_freq # 0 THEN << <<"offset", TRUE>> >> ELSE <<>>)
    /\ UNCHANGED <<freq, dsVars, cfgVars, int_freq, lo, ddc, input, call>>

\* rtlsdr_set_offset_tuning: refused by the R82xx and in direct sampling.
OffsetRefused == LowIF \/ direct_sampling # 0

NewOffset(on) == IF on THEN ((rate \div 2) * 170) \div 100 ELSE 0

SetOffsetTuning(on) ==
    /\ At("offset", on)
    /\ IF OffsetRefused
       THEN /\ r' = -1
            /\ Run(<<>>)
            /\ UNCHANGED <<offs_freq, ddc>>
       ELSE /\ offs_freq' = NewOffset(on)
            /\ ddc' = Ddc(offs_freq')
            /\ Run(Repeated("set_bw", IF on THEN 2 * offs_freq' ELSE WidthOr(bw, rate))
                   \o << <<"retune", 0>> >>)
            /\ UNCHANGED r
    /\ UNCHANGED <<tuner_type, freq, dsVars, rate, bw, corr, xtalVars, int_freq, lo, input,
                   repeater, call>>

Retune ==
    /\ At("retune", 0)
    /\ Run(IF freq > offs_freq THEN << <<"center", freq>> >> ELSE <<>>)
    /\ UNCHANGED <<freq, dsVars, cfgVars, chipVars, r, call>>
-----------------------------------------------------------------------------
(***************************************************************************)
(* The calls of the application, one at a time.                            *)
(***************************************************************************)
Called(op, steps) ==
    /\ Idle
    /\ call' = op
    /\ todo' = steps
    /\ r' = 0

CallCenterFreq(f) ==
    /\ Called(IF f = freq THEN "again" ELSE "center", << <<"center", f>> >>)
    /\ UNCHANGED <<freq, dsVars, cfgVars, chipVars>>

CallDirectSampling(on) ==
    /\ Called("other", << <<"direct", on>> >>)
    /\ UNCHANGED <<freq, dsVars, cfgVars, chipVars>>

\* Refused (-2) before a frequency was set.
CallDsMode(mode, threshold) ==
    /\ freq # 0
    /\ Called("other",
              (IF mode <= 2 THEN << <<"direct", mode>> >> ELSE <<>>)
              \o << <<"center", freq>> >>)
    /\ direct_sampling_mode' = mode
    /\ direct_sampling_threshold' = threshold
    /\ UNCHANGED <<freq, direct_sampling, cfgVars, chipVars>>

RateSteps(samp_rate) ==
    Repeated("set_bw", WidthOr(bw, samp_rate)) \o << <<"after_rate", 0>> >>

CallSampleRate(samp_rate) ==
    /\ Called("other", RateSteps(samp_rate))
    /\ rate' = samp_rate
    /\ UNCHANGED <<tuner_type, freq, dsVars, offs_freq, bw, corr, xtalVars, chipVars>>

CallBandwidth(width) ==
    /\ Called("other",
              Repeated("set_bw", WidthOr(width, rate)) \o << <<"keep_bw", width>> >>)
    /\ UNCHANGED <<freq, dsVars, cfgVars, chipVars>>

CallOffsetTuning(on) ==
    /\ Called("other", << <<"offset", on>> >>)
    /\ UNCHANGED <<freq, dsVars, cfgVars, chipVars>>

\* (Mutant: a new correction waits for the next call that tunes.)
NoRetune  == <<>>
RetuneNow == IF freq # 0 THEN << <<"center", freq>> >> ELSE <<>>

\* Refused (-2) when the correction is the current one.
CallFreqCorrection(ppm) ==
    /\ corr # ppm
    /\ Called("other", RetuneNow)
    /\ corr' = ppm
    /\ UNCHANGED <<tuner_type, freq, dsVars, offs_freq, rate, bw, xtalVars, chipVars>>

\* rtlsdr_set_xtal_freq: the resampler follows the crystal of the RTL2832, then
\* the tuner its own, where 0 stands for the crystal of the RTL2832.
CallXtalFreq(rtl, tun) ==
    LET new == rtl # 0 /\ rtl # rtl_xtal
    IN  /\ Called("other", (IF new /\ rate # 0 THEN RateSteps(rate) ELSE <<>>)
                               \o << <<"tuner_xtal", tun>> >>)
        /\ rtl_xtal' = IF new THEN rtl ELSE rtl_xtal
        /\ UNCHANGED <<tuner_type, freq, dsVars, offs_freq, rate, bw, corr, tun_xtal, chipVars>>

\* 0 stands for the crystal of the RTL2832.
XtalMeant(tun) == IF tun = 0 THEN rtl_xtal ELSE tun

SetTunerXtal(tun) ==
    /\ At("tuner_xtal", tun)
    /\ IF tun = tun_xtal
       THEN Run(<<>>) /\ UNCHANGED tun_xtal
       ELSE /\ tun_xtal' = XtalMeant(tun)
            /\ Run(RetuneNow)
    /\ UNCHANGED <<tuner_type, freq, dsVars, offs_freq, rate, bw, corr, rtl_xtal, chipVars, r, call>>

Call ==
    \/ \E f \in Freqs : CallCenterFreq(f)
    \/ \E on \in 0..2 : CallDirectSampling(on)
    \/ \E mode \in DsModes, threshold \in Thresholds : CallDsMode(mode, threshold)
    \/ \E samp_rate \in Rates : CallSampleRate(samp_rate)
    \/ \E width \in Widths : CallBandwidth(width)
    \/ \E on \in BOOLEAN : CallOffsetTuning(on)
    \/ \E ppm \in Corrections : CallFreqCorrection(ppm)
    \/ \E rtl, tun \in Xtals \cup {0} : CallXtalFreq(rtl, tun)

\* The arguments a step in todo can have.
Tuned == Freqs \cup {0}

Step ==
    \/ \E on \in BOOLEAN : SetRepeater(on) \/ SetOffsetTuning(on)
    \/ \E f \in Tuned :
          SetCenterFreq(f) \/ TuneDdc(f) \/ TuneTuner(f) \/ SetOscillator(f)
    \/ \E on \in 0..2 : SetDirectSampling(on) \/ EnterDirect(on)
    \/ \E tun \in Xtals \cup {0} : SetTunerXtal(tun)
    \/ Standby \/ InitTuner \/ LeaveDirect \/ AfterRate \/ Retune
    \/ ~Idle /\ \E width \in {Head(todo)[2]} :
          SetBwLowIF(width) \/ SetBwZeroIF(width) \/ KeepBw(width)

Next == Call \/ Step

\* A call that was made is carried on to its end.
Spec == Init /\ [][Next]_vars /\ WF_vars(Step)
-----------------------------------------------------------------------------
(***************************************************************************)
(* Properties.                                                             *)
(***************************************************************************)

\* The frequency at the centre of the samples: in direct sampling the DDC's,
\* otherwise the tuner's, whose output the DDC brings down.  The R82xx mixes
\* with an oscillator above the signal, the zero-IF tuners with one below.
Received ==
    IF input # 0 THEN ddc
    ELSE [at |-> IF LowIF THEN lo.at - ddc.at ELSE lo.at + ddc.at, corr |-> lo.corr]

\* Between two calls the device receives the frequency that
\* rtlsdr_get_center_freq reports, at the correction and, with the tuner, for the
\* crystal in force, unless it reports 0.
TunedAsReported ==
    Idle /\ freq # 0 =>
        /\ Received = [at |-> freq, corr |-> corr]
        /\ input = 0 => lo.xtal = tun_xtal

\* The same, while offset tuning is off: the R82xx do not have it.
TunedWithoutOffset == offs_freq = 0 => TunedAsReported

\* The tuner is only spoken to while the repeater is on, in whatever order the
\* calls nest, and the repeater is off between calls.
TunerOps == {"oscillator", "standby", "init", "set_bw"}
TunerReachable ==
    IF Idle THEN ~repeater ELSE Head(todo)[1] \in TunerOps => repeater

\* The automatic mode: direct sampling is on below the threshold only.
ModeFits == Automatic => direct_sampling = NewDs(freq)

\* A call of rtlsdr_set_center_freq that succeeds leaves the mode that fits.
AutoSwitches == Idle /\ call \in {"center", "again"} /\ r = 0 => ModeFits

\* ... and it does so when it is made for the frequency already set.
AutoSettles == Idle /\ call = "again" /\ r = 0 => ModeFits

\* The calls that tune each other come to an end.
CallsReturn == ~Idle ~> Idle
=============================================================================
