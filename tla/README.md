# Verification of RTLSDR.Swift

RTLSDR.Swift ports librtlsdr, the user-space driver of RTL2832U radio dongles, from C over libusb
to Swift over IOKit. The repository keeps the C sources (`RTLSDR.Swift/librtlsdr/`) as the
reference of the port; the Swift class brings a dongle up, and the streaming and tuning calls that
it still lacks exist in the C sources only. This project holds TLA+ models of both, the TLC runs
that check them and proofs about them that TLAPS checks.

Line numbers below are those of `PROJECT.json`, whose `map` gives the source lines of every
definition, and whose `hazards` lists what is hard to test in this code.

## 1. The system

| component | state | operations | works with |
|---|---|---|---|
| asynchronous stream (`librtlsdr.c` 2015-2061 and 2096-2331) | `async_status`, `async_cancel`, `dev_lost`, `xfer_errors`, the transfers and their buffers | `rtlsdr_read_async`, `rtlsdr_cancel_async`, `rtlsdr_close`, `_libusb_callback` | libusb's event handling calls back on the streaming thread; other threads cancel and close, no lock anywhere |
| tuning (`librtlsdr.c` 775-1609) | `freq`, `offs_freq`, `rate`, `bw`, `corr`, the crystals, direct sampling and its automatic mode; the demodulator's down-converter (DDC) and ADC input | `rtlsdr_set_center_freq`, `_set_direct_sampling`, `_set_ds_mode`, `_set_sample_rate`, `_set_tuner_bandwidth`, `_set_offset_tuning`, `_set_freq_correction`, `_set_xtal_freq` | the functions call each other; the tuner is behind the I2C repeater of the demodulator |
| R820T/R828D driver (`tuner_r82xx.c`) | shadow registers, `int_freq`, calibration, XTAL setting, gain | init, standby, set frequency, bandwidth, gain | called by tuning inside repeater brackets, writes I2C through `librtlsdr.c` |
| control transfers, EEPROM (`librtlsdr.c` 474-640, 931-1005) | registers of the chip, the EEPROM | register and array reads and writes | everything that writes a register |
| GPIO, bias tee, AGC, test mode (`librtlsdr.c` 643-667, 1396-1424, 2520) | GPIO output and direction, register 0:0x19 | setters | direct sampling and the bias tee share registers |
| open (`librtlsdr.c` 1808-2013) | the handle, the tuner found | `rtlsdr_open` | probes the tuners in a fixed order, resets GPIO in between |
| infrared receiver (`librtlsdr.c` 2390-2518) | `rc_active`, the receiver's buffer | `rtlsdr_ir_query` | polled by the application |
| Swift device object (`RTLSDR.swift`) | `rtlDeviceList` (static, unprotected), one object per dongle | `initWithRegistryID` with the whole bring-up | called by the application for each device |
| Swift tuner classes (`Tuners/*.swift`) | the tuner found | `discoverTuner`, the R820T's settings of the demodulator | the device object through a delegate |
| USB manager and demo (`USBManager.swift`, `AppDelegate.swift`) | the two IOKit iterators and their notifications | `start`, both callbacks | a serial dispatch queue beside the main thread |
| known devices, IOKit constants and property getters (`Utility/`) | none | table look-up, reads of the I/O registry | the device object |

Hard behaviours, and what correctness means for each component:

* *Stream.* Three kinds of threads and the kernel act on four unprotected fields. A stream has to
  end once it is cancelled, only when every buffer is back; closing has to come last and to
  return; a cancel must hit the stream it was made for; a device that streamed must stream again.
* *Tuning.* Mutual recursion (`set_center_freq` → `update_ds` → `set_direct_sampling` →
  `set_center_freq`, and `set_bw` → `set_center_freq`) with the old frequency on the way, and
  failure in the middle. What the hardware receives has to be what the driver reports, the tuner
  has to be spoken to through the repeater, and the recursion has to end.
* *Tuner driver.* Registers are cached, and the cache is written before the chip is; a PLL that
  does not lock is reported as success; 8-bit arithmetic at the ends of the range.
* *Hot plug.* Notifications are sent once per emptied iterator, on another thread than the first
  iteration; the device may vanish, or be another process's, between any two calls. No device may
  be forgotten, and the registry of devices must have one user at a time.
* *Control transfers, GPIO, infrared, open.* Registers that several functions write, by reads and
  writes whose results nearly nobody looks at; a process that may die in the middle of any call, so
  that an open has to bring back all it relies on. A call must leave alone what belongs to another,
  a code of the infrared receiver must not get lost, and what is written to the demodulator and the
  EEPROM must be what was meant.
* *Port to Swift.* The same registers, computed in a language whose integers trap where those of C
  wrap, and a program that ends at the first transfer that fails.

## 2. The modules

| module | what it is |
|---|---|
| `AsyncStream` | the stream: reader thread, cancelling threads, closing thread, libusb's transfers |
| `StreamContract` | what a stream promises to its caller; `AsyncStream` is shown to implement it |
| `MCAsyncStream` | instances of `AsyncStream` |
| `AsyncStreamProofs` | theorems about `AsyncStream` |
| `HotPlug` | IOKit's notifications, the USB manager's two threads, the bring-up of a device |
| `MCHotPlug`, `HotPlugProofs` | its instance and its theorems |
| `Tuning` | the tuning calls, over the tuner chip and the DDC |
| `MCTuning`, `TuningProofs` | its instances; theorems about the repeater, the frequency received, the automatic mode and the nesting |
| `R82xxTuner` | the driver of the R820T and R828D: shadow registers, chip and every operation |
| `R82xxPll`, `R82xxGain`, `R82xxFilter` | what it computes: dividers, gain steps, `r82xx_set_bandwidth` as a function (which `Tuning` uses too) |
| `Bytes` | registers as sets of bits |
| `MCR82xx`, `R82xxTunerProofs`, `R82xxTableProofs` | its instance; theorems about it, and about its tables, its synthesiser and the bits of a byte |
| `RtlDevice` | sessions on one dongle: open, close, setters, GPIO, infrared, the Swift bring-up, each with a fault |
| `RtlNumbers`, `BringUp` | what it computes: resampler, DDC, correction and FIR; the register writes of the C and of the Swift bring-up |
| `RtlEeprom` | the EEPROM of the dongle and the two calls that write and read it, one transfer at a time |
| `MCRtlDevice`, `RtlDeviceProofs`, `RtlEepromProofs`, `RtlNumbersProofs` | the instance of `RtlDevice` and `RtlEeprom`; theorems about both, and about what is computed |

### AsyncStream

One action per load or store of a field that another thread can see; a stretch of code that
touches no shared field is one action.

| in the model | in the code |
|---|---|
| `pc`, `i`, `next_status` | the reader's place in `rtlsdr_read_async` and its locals |
| `status[x]` | `dev->xfer[x]->status`, written by libusb when it reports a transfer |
| `urb[x]` | where the transfer is: with the user, with the kernel, asked back, or ended and waiting for event handling |
| `batch`, `cur` | the transfers one call of event handling reports, and the one whose data the user has |
| `cancel[t]` | thread `t` in `rtlsdr_cancel_async`: the test, the store of the status, the store of the flag |
| `closer` | the closing thread in `rtlsdr_close`: test of `dev_lost`, wait, free |
| `Reap*`, `Resubmit` | `_libusb_callback` by the status of its transfer; the user's callback runs between the two and may cancel |
| `Sweep*` | the loop over the transfers after a cancel, with event handling after each cancelled transfer |
| `Complete`, `Fail`, `Discard`, `Unplug`, `CancelLeaves` | libusb and the kernel (external) |

Event handling with `async_cancel` set does nothing, because the flag is passed to libusb as its
`completed` argument; that is why a stale flag matters. A wait that a signal interrupts takes the
loop round again, and the bias tee and demodulator writes of `rtlsdr_close` touch none of this
state. Zero-copy and ordinary buffers behave alike and are one case.

### Tuning

A call in progress is `todo`, the sequence of steps left: a step is a function or the part of one
between two nested calls, and a nested call puts its steps in front. The module keeps the fields of
`struct rtlsdr_dev` under their names, `int_freq` of the tuner's private data, what the tuner's
oscillator (`lo`) and the DDC are set to and at which correction, the ADC input and the repeater.
Frequencies are in kHz; `offs_freq` and `SetBandwidth` round as the code does, up to the unit.
The R820T and R828D deliver an intermediate frequency (`LowIF`); the zero-IF tuners, whose drivers
are not in the repository, are modelled from how `librtlsdr.c` uses them and may refuse any
frequency or bandwidth (`TunerFails`). `call` tells a `rtlsdr_set_center_freq` for a new frequency
(`"center"`) from one for the frequency already set (`"again"`); all other calls are alike.

`rtlsdr_set_xtal_freq` sets both crystals. A new RTL crystal reaches the DDC with the next write of
it, which may be made by this call (through the bandwidth of an R82xx, or a new frequency in direct
sampling) or by a later one. The crystal the DDC was last computed with is not kept in the model.

### HotPlug

`Register`, `IteratorNext` and `IteratorEmpty` are the two `IOServiceAddMatchingNotification`
calls and the loops of `usbDeviceAdded` and `usbDeviceRemoved`, which the main thread runs in
`start` and the dispatch queue in the callbacks. `Lookup`, `GetService`, `BringUp`, `Open`, `Close`
and `Insert` are `initWithRegistryID` with `init`: the steps of `Follow` are the plug-in interface,
`USBDeviceOpen`, the configuration, the pipes, `initBaseband`, the tuner and `USBDeviceClose`, in
the order of the calls. A device that fails in a step ends the application (`fatalError`), except
in `USBDeviceOpen`, whose result the code only prints. IOKit (external) is: an iterator that holds
the devices that match, armed when it is emptied, sending one notification when armed. The step
"tuner" is `RTLTuner.discoverTuner` as a whole.

### R82xxTuner

An operation is a *program*, a sequence of transfers `<<reg, val, mask>>`, computed from the state
when the operation starts together with what the chip will answer (lock of the PLL, calibration
code, fine tuning). `Run` carries a program out from the shadow on; the outcome is `Done`, or the
transfer `k` that fails, which ends the program with an error, and whether it `landed` in the chip
for all that. As in the code (`shadow_store`), the shadow has the value before it is sent.

| in the model | in the code |
|---|---|
| `shadow`, `chip` | `priv->regs`, and the registers of the chip |
| `dirty` | none: the registers whose last write failed |
| `asked` | none: per setting, what the last call that succeeded asked for |
| `InitTuner` | `r82xx_init` with `r82xx_set_tv_standard` and `r82xx_sysfreq_sel`; the first write goes out in pieces of seven (`Bursts`) and its result is not looked at |
| `SetFreq`, `Mux`, `Pll*`, `InputSwitch` | `r82xx_set_freq` with `r82xx_set_mux` and `r82xx_set_pll` |
| `SetGain`, `SetGainMode`, `SetGainExt` | `r82xx_set_gain` as `r820t_set_gain*` call it |
| `SetFilter`, `Standby` | `r82xx_set_bandwidth`, `r82xx_standby` |
| `Reopen` | `rtlsdr_close` and `rtlsdr_open`, which clear the driver's memory |

`R82xxPll`, `R82xxGain` and `R82xxFilter` compute with the widths of the code: the divider field and
`nint` wrap at 8 bits, the modulator's shares come from a 16-bit number shifted until it is 0.

### RtlDevice, BringUp and RtlEeprom

A call is a program again: writes, read-modify-writes (`Mask`) and words with the tuner (`probe`,
`init`, `exit`, `set`). Nearly all of `librtlsdr.c` goes on when a transfer fails, so a program runs
to its end with one fault at one step: the step is lost; or it landed, though reported as failed; or
a read failed and left uninitialised bytes to be written back (`garbage`); or the process died
there (`crash`), after which there is no device and the chip keeps what it has. Only
`rtlsdr_ir_query` stops at a failed transfer.

| in the model | in the code |
|---|---|
| `regs` | the registers that several functions write, as sets of bits |
| `fitted`, `tuner`, `missed` | the tuner soldered in, whether it is set up, and whether it was spoken to while it could not hear |
| `Open`, `Probing`, `SetUp` | `rtlsdr_open` from `rtlsdr_init_baseband` on: E4000, FC0013, R820T, R828D, the reset by GPIO 5, FC2580, FC0012 |
| `Close` | `rtlsdr_close` with the bias tee and `rtlsdr_deinit_baseband` |
| `DirectSampling`, `SetGain`, `SetSampleRate`, `SetTestMode`, `SetAgcMode`, `SetBiasTee` | the setters, for what they write to shared registers; their numbers are in `Tuning` and `RtlNumbers` |
| `IrQuery`, `ir`, `answer` | `rtlsdr_ir_query`; `ir` is the receiver: off, listening, or the length of the code that waits |
| `SwiftBringUp` | `RTLSDR.init` on the same dongle between two sessions; a fault ends the program (`fatalError`) |

`RtlNumbers` has functions of their arguments. `BringUp` lists the two bring-ups of an R820T write
by write, `COpen` and `SwiftInit`, and `Left` what a list of writes leaves in the registers; both
programs of `RtlDevice` are made from these lists. The Swift arithmetic is kept as it is written,
with the conversions that end the program as a predicate (`FirTraps`).

`RtlEeprom` has variables of its own: the cells (`eeprom`), the call that is under way with its
arguments, its loop counter (`done`), `cmd[1]` and its next transfer (`at`). `Compare` is the two
transfers that read a byte and the comparison, `Put` the one that writes it, `Fetch` one byte of
`rtlsdr_read_eeprom`; `WriteCall` and `ReadCall` are what comes before the loops. The result of the
read in `Compare` is not looked at by the code: if its second transfer fails the byte compared is
what `cmd[1]` held, uninitialised at first, and if its first fails, that of another cell. A failing
write may have landed; the process may end between any two transfers (`Die`). `spared` remembers the
cells that such a read left out.

No other call looks at the EEPROM, and its two calls look at nothing else, so `MCRtlDevice` puts the
two modules side by side (`DongleNext`) and follows the EEPROM from one state of the chip only, that
after the first `rtlsdr_open` of a dongle.

## 3. The runs

| run | question | result |
|---|---|---|
| `async_faults` | whatever fails, with prompt cancels: does a buffer outlive its stream? | `BuffersHome`, `FlagMeansCancel` and the refinement `KeepsContract` hold |
| `async_orderly` | with an application that waits for its cancels and a device that works: does closing return and come last, do samples flow, can the device stream again? | `NoUseAfterFree`, `ReadyAgain`, `SamplesFlow`, `CloseReturns` hold |
| `async_hostile` | with every fault of libusb: does a cancelled stream return? | `CancelStops` and `CloseIsLast` hold |
| `async_close_lost` | the device is lost while it is closed | `NoUseAfterFree` is violated |
| `async_close_hangs` | two cancels overlap the end of a stream | `CloseReturns` is violated |
| `async_stale_flag` | a cancel is still under way when the next stream starts | `SamplesFlow` is violated |
| `tuning_calls` | every sequence of tuning calls, crystals included, on both kinds of tuner | `TunedWithoutOffset`, `TunerReachable`, `AutoSettles`, `CallsReturn` hold; `TypeOK` bounds the nesting |
| `tuning_auto` | does the automatic mode switch when the frequency crosses the threshold? | `AutoSwitches` is violated |
| `tuning_offset` | is the reported frequency received with offset tuning? | `TunedAsReported` is violated |
| `hot_plug` | two dongles and another device come, go and are held by another process | `OneAtATime`, `NoLostDevice`, `CrashHasCause`, `DongleServed` hold |
| `r82xx_driver` | every sequence of four driver calls, with a transfer that fails anywhere: is the shadow right, is each setting in the chip as asked, do calls disturb each other's settings? | `Coherent`, `TunedAsAsked`, `GainAsAsked`, `FilterAsAsked`, `InputFollows`, `SettingsKept` hold, and over grids of inputs `PllAccurate` |
| `rtl_device` | sessions with a fault or a crash at any step: does the next open find the tuner and restore the mode, is a closed dongle quiet, do calls that share registers respect each other, is the infrared receiver started and its code kept and delivered, is the EEPROM as written, does the port leave what the C code leaves? | `TunerFound`, `ModeAgrees`, `QuietAfterClose`, `OwnBits`, `CodeKept`, `ReceiverStarts`, `IrServed`, `EepromWritten`, `PortAgrees` hold, and over grids of inputs `RateExact`, `NumbersExact` |

### Bounds

* *AsyncStream.* Three transfers where only safety is checked or the liveness is cheap, else two:
  a sweep then has a transfer behind it, one at its index and one ahead of it. `MaxRuns = 2`
  streams: what a stream leaves behind (`async_cancel`, `async_status`, `dev_lost`) can meet the
  next one, and a third would find no other leftovers. One cancelling thread besides the callback
  gives two cancels at once. `xfer_errors` needs no bound: failed transfers are not resubmitted.
* *Tuning.* Two frequencies on the two sides of the threshold and 0 for "none"; two sample rates and
  the widths "automatic" and 300 kHz, which give the R820T three different intermediate frequencies
  and the zero-IF tuner two offsets; two corrections; one other crystal. Calls nest at most four
  deep; `TypeOK` bounds `todo` by eight steps (`MaxNested`), which is proved for all arguments.
* *HotPlug.* One dongle may be handled by `start` while another arrives by notification, and the
  third device is no dongle. A device that is plugged in again has a new registry ID and is another
  device for this code, so each comes and goes once.
* *R82xxTuner.* `MaxCalls = 4`: set up, a setting, a call that fails, and one that carries out or
  overwrites what it left; a register has no other memory. `MaxFaults` is 1 on the R828D, which runs
  all of the driver, and 0 on the R820T: two faults in one device would only make more registers
  dirty. Frequencies of the R820T below, inside and above the range of the PLL (24, 400 and 1800
  MHz, where the divider wraps), of the R828D on each side of its input switch at 345 MHz. One gain
  and one width, since what the tables hold is proved for all of them (`R82xxTableProofs`); the PLL locks at the
  second look or not at all; a calibration that needs two tries, and one that fails. `PllAccurate`
  looks at 1727 oscillator frequencies from 27.7 to 1769 MHz, 1009 kHz apart, so that the
  fractions of the reference vary.
* *RtlDevice.* One fault, at every step of every call. One tuner for each way through `rtlsdr_open`:
  found at once (R820T), found last, after the reset (FC0012), none. A code that fits one buffer and
  not the other.
  Rates on a grid of 499 and 4999 Hz and at the limits, DDC frequencies 7919 Hz apart up to half the
  crystal, every correction to 488 ppm, coefficients at the ends of 12 bits and of bytes.
* *RtlEeprom.* Two cells of two values and blocks of up to three bytes (`MaxLen`): a block fills the
  EEPROM or a part, leaves a cell alone, is too long, or would wrap; a byte is equal or not. Two
  errors (`MaxErrors`): a byte left out because its read failed, before a write that fails. Bytes are
  dealt with one by one, so more of them bring nothing new; the proof is for any number.

Deadlock is not checked in the stream and hot-plug runs: a closed device, all streams used up, or
a process that crashed or waits for devices really have nothing left to do. `Tuning`,
`R82xxTuner` and `RtlDevice` never stop and are checked for deadlock.

### Fairness

* *AsyncStream.* Weak fairness of the reader, of each thread inside `rtlsdr_cancel_async` and of
  the closing thread: they are threads the operating system schedules, and none of their steps
  waits for a lock. Weak fairness of `Complete` and `Discard`: a device that is there delivers, and
  the kernel returns a discarded transfer. No fairness of calls, of failures or of unplugging.
* *Tuning.* Weak fairness of `Step`: a call that was made runs on.
* *HotPlug.* Weak fairness of the main thread and of the queue, which includes the delivery of
  posted notifications.
* *RtlDevice.* Weak fairness of an infrared query with the largest buffer while a code waits: the
  application polls, as `rtlsdr_ir_query` is made to be used. `IrServed` says that this is enough
  once the last transfer has failed (`faults = MaxFaults`): the code that waits then is handed over,
  `answer` being its length, whatever failed before. `R82xxTuner` has no liveness property and no fairness.

### Assumptions about the surroundings

* The API is used as its comments ask: one thread streams; no call starts once `rtlsdr_close` was
  called, and close is not called between the reader's test of `async_status` and its store.
  `AppWaits` is the further condition that an application waits for its cancel calls to return
  before it streams again; the violation `async_stale_flag` is what happens without it.
* `PromptCancel`: event handling does not fail, a cancelled transfer comes back before the events
  handled next, and one that had already ended is reported as cancelled. `BuffersHome` and the
  contract depend on it. `LATE_CANCEL`, `SLOW_CANCEL` and `EVENTS` lift it, and `async_hostile`
  says what is left then: the stream returns, but its buffers may not be home.
* `Tuning`: writes of demodulator registers do not fail; frequencies lie above the offsets.
* `R82xxTuner` (external): the synthesiser (`Synthesised`), a chip that keeps what is written, reads
  that return what they want. A calibration code has four bits (`tuner_r82xx.c` 923), and the
  calibration is tried once or twice. What the chip answers is arbitrary within the constants; `TunedAsAsked`
  speaks of the expected fine tuning only.
* `RtlDevice` (external): a tuner hears if bit 3 of 1:01 and bit 7 of `DEMOD_CTL` are set; a code
  stops the receiver until it is cleared and started. `Aliased` says whether the address alone
  selects a register: the infrared set-up uses block `USBB` for registers that belong to `SYSB`, and
  with `Aliased` it changes the very registers the others use, which is the worse case and the one
  checked.
* The properties name their exceptions, cases in which the code reports success although the chip
  is not as asked: `GainAsAsked` and `FilterAsAsked` a calibration without lock, `InputFollows` a
  failed switch or set-up, `TunedAsAsked` an oscillator out of range, `RateExact` rates within 32 Hz
  of the limits with other crystals, `EepromWritten` bytes whose read
  failed (`spared`), `CodeKept` and `ReceiverStarts` a query of which a transfer fails. `OwnBits` speaks
  of calls in which nothing fails, `QuietAfterClose` of sessions in which nothing failed. Section 4 lists what happens then.
* `HotPlug`: another process that opened a device keeps it; dongles have the strings that
  `init` unwraps by force.

## 4. What the violations show

1. `async_close_lost`: `_libusb_callback` sets `dev_lost` on the streaming thread, and
   `rtlsdr_close` then skips its wait and frees the device while `rtlsdr_read_async` still sweeps.
2. `async_close_hangs`: `rtlsdr_cancel_async` tests `RUNNING`, another cancel ends the stream, and
   the late store of `CANCELING` turns the inactive device into one nobody will ever set inactive:
   `rtlsdr_close` waits for ever.
3. `async_stale_flag`: the second store of a late cancel sets `async_cancel` for the next stream,
   whose event handling then returns at once for ever.
4. `tuning_auto`: to switch, `set_center_freq` calls `set_direct_sampling`, which tunes to the old
   frequency, for which the automatic mode switches back. The new frequency is then tuned in the
   old mode. A second call for the same frequency settles it (`AutoSettles` holds).
5. `tuning_offset`: leaving direct sampling sets the DDC of a zero-IF tuner to 0 with `offs_freq`
   still subtracted from the oscillator.

### Two documented results that differ

The code is not as its header says in two more places. There is no run to be violated for them: the
properties that hold state the results as the code has them.

* `rtl-sdr.h` 142, and `RTLSDR.swift` 1023 after it, give "0 on success" for `rtlsdr_read_eeprom`. It
  returns `r` (`librtlsdr.c` 1004), the result of its last transfer, which is the number of bytes of
  that: 1 for every read that succeeds (`EepromWritten`).
* `rtl-sdr.h` 437 gives "0 if no signal, >0 number of bytes written into buf, <0 for error" for
  `rtlsdr_ir_query`. With a code longer than the buffer it leaves at 2492 with `ret` as it is: -1,
  or, if this query has set the receiver up, 1 from the last write of the set-up (2457), though no
  byte of a code was written into `buf` (`CodeKept`).

### What else the models show

These follow from the code, and no statement of the repository that we found says otherwise; the
properties except them by name, or state the part that holds.

*Tuner driver.*
* Oscillator frequencies from 27.657 to 1770 MHz are made to within 1 kHz. Below, the divider falls
  out of its field: the call succeeds and the oscillator is near 1764 MHz. A little above, about
  1803.57 MHz, an R820T refuses and an R828D accepts values that mean something else. With the
  crystals of the chips nothing is divided by zero; one of 32.768 MHz and more, which
  `rtlsdr_set_xtal_freq` accepts, reaches it.
* The gains of `rtlsdr_get_tuner_gains` are exact; more than 49.6 dB gives 48.8. Gain mode "manual"
  sets a gain of 0 dB; after a set-up, direct sampling or a change of mode `dev->gain` is stale.
* A PLL that does not lock is success; the input of an R828D is then not switched. After a failed
  write of the switch, or a set-up that failed, `priv->input` says what the chip has not, and the
  input is not switched again until the frequency has crossed 345 MHz.
* The bits of a write that failed are sent by whichever call next writes the register. A first
  write of which a piece is lost, with a calibration that does not lock, leaves the old gain of the
  mixer though the set-up succeeds.

*Device.*
* With other crystals rates near the limits lose bit 28 of the ratio (`librtlsdr.c` 1346): 300000
  at a crystal of 28799970 Hz is set and reported as about 900 kHz. A correction beyond 488 ppm
  wraps (805).
* `rtlsdr_write_eeprom` ignores errors of the read that decides whether a byte is written.
* A code longer than the buffer is neither read nor dropped, and blocks the receiver until a larger
  buffer comes. A length that is misread loses it, and a refresh that fails half way loses the code
  and leaves the receiver stopped, until the device is opened again.
* A failed read of a GPIO register is written back as it comes. `rtlsdr_close` turns the bias tee
  off, `rtlsdr_open` does not: after a crash the antenna stays powered. Test mode and AGC write the
  same register and switch each other off. 0:08 is never written for a zero-IF tuner until it has
  been in direct sampling.
* A probe that fails makes the tuner unknown, and `rtlsdr_open` succeeds, in direct sampling. There,
  gain and rate calls speak to a tuner in standby.

*Swift.*
* For an R820T the Swift bring-up leaves every register as `rtlsdr_open` does. It never sends
  anything to the tuner but the probe. It knows no other tuner: such a dongle stays in zero-IF
  mode without a set-up, where the C code goes on probing and, if it finds none, uses direct sampling.
* A negative coefficient that comes first in a 12-bit pair ends the program (`RTLSDR.swift` 897);
  those it has do not. `readDemodRegister` loses the high byte of two, but nobody uses it.

Two more hazards of the stream are in the list without a property of their own: a device that is
lost just after `rtlsdr_close` looked for it, and failed transfers too scattered to be counted.

## 5. What is proved

The theorems hold for every value of the constants that satisfies the named assumptions of the
modules (`StreamAssumption`, `HotPlugAssumption`, `TunerAssumption`, `TuningAssumption`, `DeviceAssumption`,
`EepromAssumption`), TLC's runs
for the instances above.

* `AsyncStreamProofs!TypeCorrect`: `Spec => []TypeOK`, for any number of transfers, threads and
  any faults. `TypeOK` alone is not inductive: a submission and the return from a sweep use the
  index `i`, which has to be one of the transfers there (`IndexOK`).
* `CloseIsLastAlways`: `Spec => []CloseIsLast`, for any faults. The invariant is that the status is
  not `INACTIVE` while the reader uses the device (`Held`), and that no stream is claimed once
  `rtlsdr_close` was called (`Closing`): a close that waited for `INACTIVE` therefore found the
  reader out, and it stays out; one that did not wait had seen `dev_lost`.
* `BuffersAreHome`: under `PromptCancel`, `Spec => []BuffersHome`. `BuffersHome` says something
  about the end of a stream only; the invariant `Home` follows the sweep that leads there. Every
  transfer below the sweep's index is idle (`Swept`); one that is skipped was last seen cancelled
  and is not resubmitted (`Settled`); one that is cancelled is in the batch that event handling
  reports next (`Reported`); so at the end of the last sweep all are idle (`AllHome`). Invariants
  `Typed` and `Held` come in where the loop is left.
* `StreamKeepsContract`: under `PromptCancel`, `Spec => KeepsContract`, the refinement of
  `StreamContract` with `phase` and `lent` as the mapping. The contract's `Finish` needs an empty
  `lent`, which is `AllHome`, and the stream it ends must be draining, which is the invariant
  `Draining`: from the first sweep to the end the status is `CANCELING`, because only the reader
  could change it back.
* `HotPlugProofs!DevicesTypeCorrect` and `OneAtATimeAlways`: `Spec => []TypeOK` and
  `Spec => []OneAtATime`, for any set of devices. `OneAtATime` is not inductive. The strengthening
  gives each iterator one *token* that is armed, posted, or in the hands of the thread that empties
  it, never two of these. The main thread holds the one of the added devices from `Register` until
  it goes on to the removed ones, and then never touches the registry again; the queue enters it
  with that token only.

* `FlagAlwaysMeansCancel`: under `AppWaits`, `Spec => []FlagMeansCancel`, for any number of
  cancelling threads. In its invariant `FlagInvariant` no cancel is past its test when a stream
  begins, and one that is about to store the flag in a stream has already stored `CANCELING` for
  that stream.
* `NoUseAfterFreeIfReliable`: when the device is not lost and neither transfers, submissions nor
  event handling fail (`Reliable`), `Spec => []NoUseAfterFree`: nobody sets `dev_lost` (`Works`), so
  `rtlsdr_close` waited, and with `Closing` from above the reader is out.
* `ReadyAgainAlways`: for one cancelling thread at a time (`OneCanceller`) on a `Reliable` device,
  `Spec => []ReadyAgain`. In the invariant `Ready` a cancel that is about to store the status finds
  the stream still running, because nobody else can end it. `async_close_hangs` shows that two
  cancels do break it.
* `NoDeviceIsLost`: `Spec => []NoLostDevice`. Every notification that was asked for is armed, posted,
  or its iterator is being emptied, and an armed iterator is empty (`Watched`).
* `CrashAlwaysHasCause`: `Spec => []CrashHasCause`, from the tokens and from what each step of a
  bring-up knows about the device it holds (`Blamed`).
* `R82xxTunerProofs!ShadowIsRight`: `Spec => []Coherent`, for any chips, arguments, answers, calls
  and failures. `Coherent` is inductive as it stands. All operations run through `Run`, and the
  lemma `RunKeeps` proves of it that a register is in `dirty'`, or is not written and keeps its
  agreement, or was sent with what the shadow holds. The rest shows that each operation is a finite
  sequence of transfers.
* `SettingsAlwaysKept`: `Spec => SettingsKept`, for any arguments, answers and failures. A program
  *spares* a setting if no transfer has bits of it in its mask (`Spares`); `BitsKept` and `RunSpares`
  carry that over to the shadow and, by `Coherent`, to the chip, however far the program got. The
  only register two settings share is 0x05, where the masks 0x1f and 0x60 are disjoint (`Masks`).
* `TuningProofs!TunerAlwaysReachable`: `Spec => []TunerReachable`, for any tuners, arguments and
  refusals. The invariant `Brackets` says that `todo` is well-bracketed: a tuner operation comes
  right after the step that switches the repeater on, every such step is followed by one that
  switches it off, and if the repeater is on now, one that switches it off is left. Each step puts
  in front of the rest a sequence that is bracketed in itself (`Join`, `Rest`).
* `TuningProofs!FrequencyIsTrue`: `Spec => []TunedWithoutOffset`, for any tuners, frequencies,
  rates, widths, corrections, crystals and refusals. In the middle of a call what the device receives
  is not what it reports; the invariant `Retuning` says what is still to come. Whoever puts the tuner
  to sleep, changes its intermediate frequency or leaves the mode has a step left in `todo` that tunes
  (`Pending`); a set-up of the tuner is followed by the step that leaves direct sampling, with nothing
  in between (`Well`); the DDC has the tuner's intermediate frequency unless such a step is left. At
  the end of a call nothing is left, so oscillator, DDC and `freq` agree. The theorem rests on
  `R82xxTableProofs!FilterFits`: no bandwidth gives an intermediate frequency of 0.
* `TuningProofs!RepeatSettles`: `Spec => []AutoSettles`. In a second call for the same frequency
  direct sampling is switched before anything is tuned, and all that is tuned is that frequency
  (`Settling`); so the automatic mode, which looks at `freq`, decides the same at every depth.
* `RecursionBounded`: at most eight steps (`MaxNested`) are ever left, however calls nest.
  `set_center_freq` and `set_direct_sampling` call each other. The recursion ends because a switch has
  been made when the inner call looks at it, and is not made again for the same frequency. The
  invariant gives each step the room that it and all it puts in its place may need (`RoomAt`); the
  room of a step and the number of steps behind it are never more than eight together (`Room`). It
  needs `SwitchFirst`: before a switch there are only steps that do not nest, and only the last step
  may ask for another frequency than the one that is set. `TypesHold`: `Spec => []TypeOK`, which adds
  the fields to that.
* `R82xxTunerProofs!InputIsFollowed`, `FilterIsAsAsked`, `GainIsAsAsked`: `Spec => []InputFollows`,
  `[]FilterAsAsked` and `[]GainAsAsked`, for any frequencies, gains, widths, answers and failures. The
  properties speak of the chip, the calls write the shadow and the chip side by side, and a failed
  call may leave either with half a program. For each setting the lemmas name the bits its programs
  leave behind: the last transfer that touches them sets them so (`Leaves`), and if the program ran to
  its end then shadow and chip both have them (`RunLeaves`); programs of other settings do not touch
  them (`Within`, `Misses`), wherever they fail (`RunHolds`). The invariants `Followed` (the driver's note
  of the input is what the shadow has, from a set-up to the next standby), `Amplified` and `Filtered`
  (the shadow and the chip have what was asked for) are needed because the property alone says nothing
  of the shadow, from which the next call starts. `TunerTypes`: `Spec => []TypeOK`.
* `R82xxTableProofs!FilterFits`, `WalkStopsAtGain`: for every bandwidth the intermediate frequency is
  in 1085..4570 kHz, the registers are bytes, and up to 8 MHz the filters are not narrower than asked;
  for every gain the walk stops at the first step whose total reaches it, within the tables.
  `ListedGainsAreReached`: asked for a gain that the driver lists, it stops at exactly that gain,
  because the totals along the walk only rise (`TotalsRise`) and each listed gain is one of them.
* `R82xxTableProofs!PllIsAccurate`: for every frequency that a divider brings into the range of the
  oscillator, and with either crystal, the synthesiser is within 1 kHz. Exactly one divider fits
  (`DividerFits`); the integer part comes back from its two fields (`NiSiHolds`); the modulator takes
  its 16 bits in fifteen steps, and the invariant `Owes` bounds after each step what is left of the
  fraction, in units of 1/256 kHz, and what the divisions that round down have cost so far. The
  bounds of the last step, divided by the divider, are less than 1 kHz.
* `R82xxTunerProofs!FrequencyIsAsAsked`: `Spec => []TunedAsAsked`. `PllIsAccurate` is about numbers;
  this is about the registers, after any calls and failures. A frequency call that returns success
  leaves the fields of divider, integer part, fraction and filters, each by the last transfer that
  touches its bits (`TuningLeaves`), and the invariant `Tuned` says that shadow and chip both hold
  them until the next frequency call or set-up. No other call touches those bits. What the bytes of
  the chip stand for is then `ValueOfByte` and `UpperThree`. `PllAlwaysAccurate`:
  `Spec => []PllAccurate`.
* `RtlDeviceProofs!DeviceTypes`, `OwnBitsOnly`, `CodesKept`, `ReceiversStart`: `Spec => []TypeOK`,
  `Spec => OwnBits`, `Spec => CodeKept` and `Spec => ReceiverStarts`, for any tuners, codes, buffers
  and failures, and for both values of `Aliased`. `OwnBits` speaks of calls without a failure,
  `CodeKept` and `ReceiverStarts` of all, with the failing query as the exception they name. A call is a *program*, a sequence of steps on the chip, and each lemma about a call says from which
  set of steps its program is made. What no step of the set leaves the whole program keeps, wherever
  it stops (`RunStays`): the types; the bits of other calls, since a step writes no bit outside its
  mask and the masks of a call lie within what it owns (`Own`); a code in the receiver, as long as
  the program has no step that reads or starts it (`Keepers`), which only a query has
  (`OnlyQueriesAsk`). A query without a failure either hands the code over and answers its length, or
  keeps it and answers what the code has in `ret` then (`QueryKeepsCode`). The start of the receiver
  is the last step of its set-up, and `rc_active` is set behind it: a set-up that stops before leaves
  `rc_active` as it was.
* `TunerIsFound`, `ModeAlwaysAgrees`, `ClosesQuietly`: `Spec => []TunerFound`, `[]ModeAgrees` and
  `[]QuietAfterClose`, from whatever an earlier session left in the chip. None of the three is
  inductive: what `rtlsdr_close` leaves depends on the tuner found and on the demodulator being on when
  it begins, and the mode after a call depends on the bits the call does not write. The invariant is
  `Settled`: while a device is open and nothing failed, its `tuner_type` is the tuner fitted, the chip
  is in the mode of `direct_sampling`, the repeater is off, the demodulator is on, and no word was
  missed. Here it matters what a program does up to its end. `RunsTo` says that a program, with nothing
  failing, takes the chip from one state to another, and `RunJoin` composes programs, so that
  `rtlsdr_open` is followed piece by piece: the registers of `rtlsdr_init_baseband`, probes in the
  order of the code up to the first tuner that answers, the set-up for that tuner. The
  program of `rtlsdr_init_baseband` is made from the list of all its writes, of which the model keeps
  those to registers it has (`AsProgram`); the lemmas `JoinNamed` and `JoinUnnamed` do this one write
  after the other.
* `RtlEepromProofs!EepromTypes`, `EepromAlwaysWritten`: `EepromSpec => []EepromTypeOK` and
  `EepromSpec => []EepromWritten`, for an EEPROM of any size, blocks of any length and any errors.
  `EepromWritten` says nothing while a call is under way. The invariant `Inv` adds that in a write the
  first `done` bytes of the block are in their cells, but for those an unchecked read has spared, and
  the result is still 0 (`Writing`); and that in a read the bytes so far are those of the cells, and
  the result is that of the last transfer, 1 (`Reading`). In a block that fits no cell number wraps (`CellIs`),
  so writing a byte disturbs none that is written already (`HoldsMore`).
* `RtlNumbersProofs`: the runs compute on grids, these theorems are about all arguments.
  `AcceptedRateIsExact`: every rate that `rtlsdr_set_sample_rate` accepts is made to the Hz with a
  crystal of 28.8 MHz; `RateIsExactNearby` for crystals up to 1 kHz off, except within 32 Hz of the limits,
  where the ratio loses bit 28 (section 4). The ratio is cut to a multiple of 4, so it is off by less
  than 4; it is more than four times the rate, so the rate that it makes, rounded down, is the one
  asked for. `IfIsExact`: up to half the crystal the DDC is off by at most its step
  of 6.87 Hz; the shift by 22 bits in `Shifted`, done digit by digit to keep TLC within 32 bits, is
  a division with remainder (`ShiftedIs`). `CorrectionIsExact`: up to 488 ppm the 14 bits hold the
  correction. `FilterIsExact`: filters that fit 8 and 12 bits are read back. `SwiftIfIsC` and
  `SwiftFilterIsC`: the Swift arithmetic writes what the C code writes, or ends the program.
* `RtlDeviceProofs!RatesAlwaysExact`, `NumbersAlwaysExact`: `Spec => []RateExact` and
  `Spec => []NumbersExact`, which follow from these. `PortAlwaysAgrees`: `Spec => []PortAgrees`. The
  two bring-ups write the same bytes to the same registers in the same order (`SameWrites`); that
  after the Swift one the dongle demodulates uses the lemmas about `rtlsdr_init_baseband`, whose
  program `SwiftProgram` shares, and holds from whatever an earlier session left in the chip.

Only model-checked:

* all liveness (`CancelStops`, `SamplesFlow`, `CloseReturns`, `CallsReturn`, `DongleServed`,
  `IrServed`): the provers have no rules for fairness, which speaks of `ENABLED`.

`EepromTypeOK` is proved and is not in the list of a run: it is part of `Inv`, on which
`EepromAlwaysWritten` rests.

No module uses RECURSIVE operators, so none is out of the prover's reach for that reason.

## 6. What is not modelled

* The functions named `rtlsdr_*` of `RTLSDR.swift` are empty.
* The drivers of the E4000, FC0012, FC0013 and FC2580 tuners and the RPC layer are not in the
  repository.
* The tables and property getters in `Utility/` compute nothing that changes.
* References to IOKit objects. The service of a known dongle is released twice, by `RTLSDR.init`
  (`RTLSDR.swift` 292) and by the function that looked it up and called `init` (199); the objects of
  the iterators are released once each (`USBManager` 167, 192). What a second release does depends on
  counts that the kernel keeps.
* The fallback for libusb before 1.0.9 (`librtlsdr.c` 44-47), where event handling does not know
  `async_cancel`: a stream that ends goes round its loop without it. `AsyncStream` has the event
  handling with that argument.
* Two threads that stream on one handle at once; the API has no such use.
* Enumeration and USB strings (`rtlsdr_get_device_count`, `_get_index_by_serial` and so on),
  `rtlsdr_read_sync` and `rtlsdr_reset_buffer`: reads of libusb's list, and one transfer, without a
  state of their own. Nor has what `rtlsdr_open` does before `rtlsdr_init_baseband`.
* `r82xx_set_gain_old` and `r82xx_xtal_check` are compiled and never called.
* Errors of single transfers inside tuning calls: `R82xxTuner` and `RtlDevice` have them, `Tuning`
  only the refusal of a frequency. The crystal the DDC was computed with.
* `RTLTuner`'s operations in Swift return 0 and do nothing; `RTLTunerR820T` stores its registers and
  sends none.

## 7. Plan

Done, in this order because of what was at stake: the stream (memory, hangs), tuning (wrong
frequency), hot plug (threads of the Swift side), the tuner driver, the device over its sessions,
the Swift bring-up against the C code; the theorems of section 5.

Left:

1. Failing transfers inside `Tuning`, on top of what `R82xxTuner` says they leave behind.
