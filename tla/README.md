# A TLA+ model of the MacBookPro13,1 audio driver

The repository collects what Fedora needs on a MacBookPro13,1. Its one large
program is the sound driver `src/audio/cs8409-mbp131-dkms/hda/codecs/cirrus/cs8409.c`
(2446 lines, called `cs8409.c` here): the HDA codec driver for the Cirrus CS8409
bridge, with a board of this Mac (the `mbp131_*` functions) next to the Dell
boards it comes from. Behind the bridge, on an I2C bus of its own, are a CS42L83
(headphones, headset microphone, jack) and four SSM3515 speaker amplifiers.

This directory holds TLA+ modules of that driver, TLC configurations for small
instances of them, and theorems with proofs for TLAPS. Line numbers below and in
the modules are those of `cs8409.c` unless another file is named.

## 1. Inventory

### 1.1 Components of cs8409.c

| component | state it keeps | operations | what makes it correct |
|---|---|---|---|
| I2C bridge (102-369, 1049-1128) | `i2c_mux`, `i2c_clck_enabled` and the clock bit, `dev_addr` and the address register, `last_page` of each paged chip and its page register, `i2c_clk_work`, `suspended` of each device | `cs8409_i2c_read/_write`, the bulk forms, the clock work, `cs8409_suspend_i2c()`, the hw_init functions | an access reaches the register it names, whatever was cached; the clock is turned off by somebody; a suspend leaves nothing running |
| Jack (644-898, 1918-2026, 2085-2133) | masks, latches and detection state of the CS42L83, `hp_jack_in`/`mic_jack_in`, `irq_sync_work`, `jack_lock`, runtime PM references | unsolicited response, jack handler, sync work, type detection, the look of the light resume | a jack that stays is reported, nothing is believed of one that is gone, the line is never left low unread |
| Suspend and resume (2059-2259) | `power_state`, runtime PM status, `full_init_done`, `init_done`, reset line | standby and light resume, system suspend and full init, aborted sleeps | no handler on a chip in reset, no I2C sequence into that of a suspend |
| Streams, amps, volumes (521-642, 1661-1916) | `playback_started`, `capture_started`, `scodec_clk_on`, power, clock and serial port of the CS42L83, power and volume of the amps, volumes of the controls | PCM hooks, volume controls, `mbp131_update_speakers()`, init and suspend of the amps | speakers on exactly while something plays to them, at the volume set; order of power, clock, port; silence in standby |
| Dell boards (442-464, 1009-1270) | one CS42L42, its jack, the GPIO word (chip reset and speaker switch) | unlocked response handler, suspend, hw_init, boot detection, speaker switch | no write of the GPIO word undoes another; ALSA knows what the driver believes; a jack is noticed in the end |
| Dolphin (1450-1638) | two CS42L42, two resets in the GPIO word | the same for two chips on one worker, pin sense answered by the driver | the same, for each chip |
| CDB35L56 (1272-1436) | bound component amps, GPIO switch | component bind and unbind, playback hook | - |
| Vendor coefficients (89-100, `cs8409-tables.c`) | index and data of one indirect register file, the tables of nine boards | get, set, init verbs and hw_init of each board | the data of one user never goes to the index of another; after any init the file is what the table says |
| Manual type detection, volume arithmetic (469-551, 680-772) | none | pure decisions | the type for each comparator result, register value for each volume |
| Probe, removal (29-87, 371-391, 983-995, 2261-2446) | the spec structure | sequential calls of the HDA core | works stopped before the spec goes |

### 1.2 How they interact

* `i2c_mux` serialises single I2C calls, `jack_lock` whole sequences: PCM hooks, speaker
  volume, jack handler, sync work, and the system branch of `mbp131_suspend()`. The
  headphone and microphone volume controls and all of the resume take no `jack_lock`.
* The CS42L83 pulls a GPIO low while an unmasked status is latched. The CS8409 sends an
  unsolicited response on the edge; the HDA core drops it until the card is registered
  and around a system sleep. `irq_sync_work` reads the level later.
* The handler takes a runtime PM reference (`pm_runtime_get_if_active()`), which keeps
  runtime suspends away but not forced ones; a system resume runs with runtime PM off,
  and then the call gives neither a reference nor a refusal.
* All of them, and the commands of every init, share the vendor coefficients. The I2C
  helpers use them under `i2c_mux`; init verbs and hw_init tables go without it.
* On the Dell boards and Dolphin there is one lock less: the response handler, the PM
  callbacks and the speaker switch meet on the chips and in the GPIO word.
* On the MacBook, PM callbacks wait for the sync work, then (system branch) for
  `jack_lock`, then for the clock work, which takes `i2c_mux`.

### 1.3 What is hard

Interleavings of the PM thread with a handler in flight; a lost edge of a
level interrupt; caches of hardware state (address, page, clock, jack) across
resets and power losses; reads that fail after they cleared a latch; sleeps
aborted half way, which leave `power_state` behind; streams up across a sleep,
for which no hook runs. `PROJECT.json` lists every hazard at its line with the
properties that watch it.

### 1.4 The rest of the repository

A patch to `applesmc` for the battery charge limit, one to `applespi`, one to
`brcmfmac`, the `ec_poke` module, scripts, kernel configurations, decompiled
ACPI tables and notes. Patches to drivers that are not in the repository can be
modelled only as far as the patch shows; scripts, tables and notes have nothing
to model. They are listed in `PROJECT.json` with the reason.

## 2. The modules

| module | models | lines of TLA+ |
|---|---|---|
| `I2CBridge` | the I2C helpers, the clock work, suspend and resume of the bus, both kinds of board | with invariants, 615 |
| `RegFile` | what the helpers promise: a register file with whole calls | 72 |
| `Mbp131Jack` | jack, interrupt line, handler, sync work, runtime PM and system sleep | 709 |
| `Mbp131Stream` | PCM hooks, clock and power of the CS42L83, amps, volumes, under suspends | 464 |
| `Cs42l42Jack` | the jacks of the Dell boards and of Dolphin, their handler, PM, boot and speaker switch | 646 |
| `VendorCoef` | the coefficient file, an access being two commands, under callers, clock work and PM | 336 |
| `CoefFile` | what its users rely on: registers read and written at once | 52 |
| `Cs8409Tables` | init verbs and hw_init tables of the nine boards, slots of their chips | 154 |
| `CoefBoards` | `VendorCoef` with those tables: what an init leaves, and what the proofs need of tables | 112 |
| `I2CBridge_proof`, `I2CBridgeRegFile_proof` | theorems: accesses, clock, suspend and resets; the refinement of `RegFile` | |
| `Mbp131Jack_proof`, `Mbp131JackWatch_proof` | theorems: handlers against PM; what is noticed and what is believed | |
| `Mbp131Stream_proof`, `VendorCoef_proof`, `CoefBoards_proof`, `Cs42l42Jack_proof` | theorems about the module of that name | |
| `MCI2CBridge`, `MCMbp131Jack`, `MCMbp131Stream`, `MCCs42l42Jack` | instances for TLC | |

Definitions named `...Only`, `...Once` and the like with a comment `Fault:` are
mistakes somebody could make in the code; no specification uses them. Put in
place of the definition below them, each makes TLC report the property
`PROJECT.json` names under `mutants`.

### 2.1 I2CBridge

Everything the driver believes stands beside what the hardware holds:
`clkEnabled`/`hwClk` (`i2c_clck_enabled`, bit 3 of coefficient 0),
`devAddr`/`hwAddr` (`spec->dev_addr`, `CS8409_I2C_ADDR`), `lastPage`/`hwPage`.
A caller is a program counter through `cs8409_i2c_read()` and its siblings:
`Enter` tests `suspended` before the mutex, `Lock`, then `EnableClock` and
`SetAddr` in the order of the single calls or of the bulk ones, `SkipPage` or
`WritePage` and `RecordPage`, `Transfer`; the failures of
`cs8409_i2c_wait_complete()` are actions of their own. The delayed work is `timer`
(queued) and `worker` (running, waiting for the mutex). `PmStep` is a suspend and
a resume of the codec: the devices in turn, their power-down sequences through
the same helpers, marks, reset, `cs8409_suspend_i2c()`; `PowerLoss` may follow.

`Mbp131` chooses the board. On the MacBook board the jack handler and the hooks
are *guarded*: a runtime suspend does not start while one runs, the system
branch takes `jack_lock`. Control writes of user space (`Users`) are not guarded,
and on the Dell boards (`Mbp131 = FALSE`) nobody is.

An access is one step under `i2c_mux`: that index and data of the vendor coefficient may
be taken as one is what `VendorCoef` shows. Offsets within a page are not cached, so a
page is one register. Values are two.

`RegFile` is the abstract specification: registers by device and page, calls
that do their entries in order, `EIO`, `EPERM`, and resets never under a call.
`RegFileSpec` is `RegFile!Spec` with `active` as the refinement of `pc`, and TLC
checks that `I2CBridge` implements it.

### 2.2 Mbp131Jack

One variable per mask, latch and flag that decides. A jack is a number, new at
each insertion, so that being taken for another jack can be said: `believed` is
what `hp_jack_in` and `mic_jack_in` stand for, `reported` what ALSA was told.
`Bits` sets the interrupt bits and sends a response if that makes the line fall.
Handlers (`unsol`, `sync`) go through `GetReference`, `TakeLock`, `ReadStatus`,
`ReadTip` and from there through the branches of `cs42l42_jack_unsol_event()`
and `cs42l42_handle_tip_sense()` to `Release`; each I2C access that matters is a
step, because the chip moves between them. The PM thread goes through
`mbp131_suspend()` (`CancelSync`, `Standby` or `ShutDown`), or through
`mbp131_hw_init()` (`HwInit`, `BringUp`, `Clear`, `Unmask`, `EnableUr`, `Look`,
detection, `Finish`), with the probe as its first pass (`Build`, `Register`).

External parts, from how the code uses them: the chip (`Insert`, `Debounced`,
`Pull`, `AutoDone`), the HDA core (`TakeResponse`, `Register`), runtime PM and
system sleep (`RuntimeSuspend`, `RuntimeResume`, `Prepare`, `ForceSuspend`,
`Abort`, `LosePower`, `Wake`).

Timing that is assumed: the autosuspend delay (a second or more) is longer than
the 200 ms of the sync work and than a type detection, so a runtime suspend does
not start before they are over, except where the core drops responses for as long
as it likes. `Seen` lets a detection find a jack on its way in or not.

### 2.3 Mbp131Stream

Two threads can be inside a sequence of writes: the holder of `jack_lock` and
the PM callback, the two `Lanes`. What is left of a sequence is a list of steps
(`prog`), built as the code builds it (`PrepareHook`, `CleanupHook`, `Speakers`,
`SuspendSteps`, `LightSteps`, `FullSteps`), and every action takes the first step
of a lane. `cs42l42_volume_put()` takes no lock and runs beside both as `Store`,
`TestStarted`, `WriteLevel`.

I2C writes succeed here, or are refused by `suspended`; the one read whose
failure changes what is done, that of `CS42L42_PWR_CTL1`, may fail. A power loss
needs no action: after one only the full init runs, and that resets everything.
Pin controls and converters belong to the generic HDA parser and are left out.
User tasks are frozen around a system sleep, so no hook or control starts in it;
a runtime suspend needs all streams closed.

### 2.4 VendorCoef, Cs8409Tables, CoefBoards

A process runs a program of coefficient operations; each takes `SendIndex` and
`SendData`, as in `cs8409_vendor_coef_get()` and `_set()`. Callers of the I2C
helpers run a transaction under `i2c_mux` (`Enter`, `Transact`, `Leave`), after
the read and write that turn the I2C clock on if it is off (`ToggleClk`); the
delayed work and the suspend turn it off (`DisableClock`). `Suspend`, `SuspendI2C`,
`ApplyVerbs`, the light way out of standby (`LookAtStandby`, `ReadProbe`,
`LightDone`) and `HwInit` are the PM callbacks; init verbs and the table go without
the mutex. `PowerLoss` and `Firmware` change the file in a suspend.

`CoefFile` is the abstract specification: no index and no mutex. An operation begins
with its index command and takes effect at once with its data command
(`AtomicCoef`).

`Cs8409Tables` is the data of `cs8409-tables.c` as far as it goes into that file, and
from the sequences of the companion chips the slots they listen and talk in.
`CoefBoards` puts the two together, all boards in one run. Its three assumptions say what
the proofs rest on in the tables: `TablesAssumption` (they only set, the I2C transactions
write registers of their own, the verbs of the MacBook are the last word on theirs),
`PortsAssumption` (no table sets up a port behind the write that enables it) and
`LayoutAssumption` (the values a table ends with put the channels in their slots). They
are statements about literal data; TLC evaluates them on the nine tables in run `coef`.

### 2.5 Cs42l42Jack

One module for `board = "dell"` with chip 0 and `board = "dolphin"` with chips 0 and 1
(1 is the line out without type detection). A chip is a record: tip sense, the two
interrupts with latch and mask, HSDET. `Drive` writes the GPIO word; a chip whose bit
falls or rises in it starts anew, so each reset, whoever does it, costs what it costs.
`gpioData` is `spec->gpio_data`, `gpio` the outputs.

The handler goes through `ReadDone` and `ReadTip`, the detections of `HandlerDetects`,
`StopDetect` (by hand, if the chip's own detection gave nothing usable: `ManualHsDet`
with two comparators and two settings of the switches, `HsType`), `Judge`, `UnmaskTip`,
`Report`, which tells ALSA of the one chip handled. `DownCodec` to `SyncJacks` are
suspend and init, chip by chip, with the boot as the first init (`BuildControls`,
`Register`). `PutStart` and `PutWrite` are the speaker switch: the word is computed and
stored, then sent by a verb that may have to resume the codec first.

The reads of `CODEC_STATUS` (821) and `TSRS_PLUG_STATUS` (823) are two steps, because a
detection may end or the tip change between them. `HS_DET_STATUS` (822) is read with the
first: a detection that ended between 821 and 822 gives a type nobody uses without its
`AUTO_DONE`. A detection by hand is three steps, switching HSDET to manual (689), the
reading with the first setting of the switches, and the second with HSDET off (760); the
first and the last end an automatic detection that an overlapping resume has started.
The writes of `cs42l42_run_jack_detect()` around its delay are two steps: within each
half a handler that comes in between changes nothing about who unmasks the tip, since
the handler's own mask of the detection (836) is always followed by its unmasking (877).
What comparators read and what is believed when a handler meets a resume (`mixed`,
below) is not claimed.

Responses are a set of what they say: a second one with the same lines adds nothing.
A runtime suspend starts with none waiting and no handler at work (the autosuspend
delay is longer than either), so overlaps of handler and PM are those of system
sleeps and of resumes. A loss of power is an outcome of `Resume`. Reads of a chip
that is up do not fail here.

`spoiled` is no state of the code. It notes what the code is known not to cope with:
a jack moved during a detection with its tip sense masked (`moved`), a handler at work
during a PM callback (`mixed`), a response dropped before the card was registered
(`lost`). Properties that do not hold after one of them name it, and a resume that
starts afresh clears it.

## 3. What the runs show

| run | configuration | result |
|---|---|---|
| `bridge_mbp131` | two guarded callers and PM, one paged codec, one amp, two pages, two values, calls that change page, device and order; 1.2 million states | the properties below hold, and the bridge implements `RegFile` |
| `bridge_live` | one guarded caller and a control write, timed-out page writes that landed; `FairSpec`; 74 thousand states | a suspend that began ends; the clock stops once callers do |
| `bridge_dell` | one handler of the Dell boards | **violation** of `AddrCoherent` |
| `jack_sleep` | two insertions, a runtime suspend, a system sleep that may be aborted, a failed read; 1.3 million states | handlers and PM exclude each other where the code says so |
| `jack_runtime` | two insertions, two runtime suspends, no sleep; `FairSpec`; 120 thousand states | the line is watched, the standby is not deaf, jacks are noticed |
| `jack_line` | one insertion, one system sleep | **violation** of `LineWatched` |
| `jack_stale` | two insertions as quick as one likes | **violation** of `NoStaleJack` |
| `stream_play` | two amps, two volumes, a failed read, control writes; 537 thousand states | amps follow streams and jack, standby is quiet, power, clock and port come in order |
| `stream_pop` | the same without the failed read | **violation** of `HpUpMuted` |
| `coef` | two callers, clock work, suspends, sleeps and power losses, the tables of all nine boards; 128 thousand states | accesses are atomic to their users, every init leaves what its table says |
| `boards` | Dell with three events of any kind, Dolphin with one, switch written in use; `Spec` with fairness; 586 thousand states | GPIO word, what the tip sense is masked for, what ALSA knows and the driver believes, jacks are noticed |
| `dell_speaker` | Dell, the switch written in standby as well | **violation** of `ChipsOut` |

### 3.1 Properties

Bridge. `RightDevice`, `RightPage`: at a transfer the clock runs, the device of
the call is addressed and out of reset, and its page is the one wanted.
`ClockOwned`: a running clock has a queued or running work, or the suspend, to
stop it; this is what the comment at 140-145 argues of the cancel that does not
wait. `ClockKnown`: it never runs unknown to the flag, but in the full init, which
sets the bit with its table. `SuspendQuiet`: after `cs8409_suspend_i2c()` nothing
runs, is queued or cached. `ResetAlone`: no reset under a call. `IInv`: the
invariant the proofs use. `SuspendCompletes`, `ClockStops`: liveness.

Jack. `ChipAwake`: no handler works on a chip in reset, forced suspends included.
`RuntimeExclusive`: none works in a runtime suspend or resume. `NoStaleJack`: where no
read failed, for a jack believed in that is not the one in there is somebody on the way
to `TSRS_PLUG_STATUS` or to a reset, or an edge still to come. A line that is low is not
enough for that (`Outstanding`): it counts with a response waiting, the sync work
queued, a resume asked for or a handler ahead of the read. Past a system sleep the
property speaks of a high line and a core that passes responses on, because there the
line can stay low with nobody to read it (`jack_line`). `LineWatched`: the line does not
stay low with nobody to read the status. `TipSenseWatched`: in standby the tip sense
interrupt is unmasked, or what will unmask it is on its way. `DetectUnknown`: no
detection starts on a jack whose type is known. `JackNoticed`: liveness.

Streams. `SpeakersFollow`: between sequences, amps are on exactly while something
plays and no headphones are in. `AmpVolume`: an amp that is on has the volume of
the control, or is being set. `StreamsRun`: a started stream has its blocks, port
and clock, and the clock goes with the last one. `ChannelsAfterClock`: no serial
port is enabled ahead of the switch to the bit clock. `HpUpMuted`: the headphone
amplifier is powered with the mixer muted. `QuietStandby`: in standby nothing is
on. It is about runtime suspends: in a forced one a handler in flight may power an
amp again before it is marked, and the next init resets it.

Coefficients. `AtomicCoef`: the two commands implement `CoefFile`. `IInv`: the
invariant of its proof; its `CommandsLand` says that data goes to the register its
own user named. `InitComplete`: after a boot, any resume and the light way, which
writes no table, every coefficient a table or verb names holds the last value given
there. `PortsLast`: no serial port is enabled before its clocks and slots are set.
`Wired`: each channel of a companion chip lies where the bridge sends or expects it,
and the transmitters of the MacBook's ports do not overlap.

Dell and Dolphin. `ChipsOut`: between the PM callbacks a chip that is not marked
suspended is out of reset. `SwitchKept`: the speaker switch is as the user left it,
across suspends and power losses. `Told`: between two handlings ALSA knows what the
driver believes, and the speaker pin follows the jack. `MaskedToDetect`: the tip sense
of a chip in use is masked between two handlings only for a detection that runs, or is
done and lets its interrupt through, whatever handler and callback overlapped.
`PlugKnown`: with nothing left to do a seated plug is reported present, also when a jack
moved under a detection. `TypeKnown`: every jack is then believed to be what it is and
its tip is watched, unless `spoiled`. `TypeNoticed`: jacks that no longer change get
there, and are reported so.

### 3.2 Where the code does not do what its comments say

* `bridge_dell`. `cs8409_suspend_i2c()` forgets `dev_addr` "with one device on the
  bus the cached address would never be written again" (1057-1061), but outside
  `i2c_mux`. A handler of the Dell boards past its `suspended` test takes the mutex
  afterwards and caches the address anew; after a power loss it is stale. The
  headphone volume control can do the same on this Mac, if it is delayed for
  longer than the autosuspend delay; `Threads = {u}`, `Users = {u}` and
  `Mbp131 = TRUE` in `I2CBridge_dell.cfg` show it.
* `jack_line`. In a forced resume `pm_runtime_get_if_active()` is negative, and
  since `cs42l42_resume()` allows responses again (936-939) a handler can run inside
  the sequence of the resume, which 1963-1965 says it must not. It can then unmask
  the tip sense under a running detection; when that ends between the handler's
  reads of `CODEC_STATUS` and `TSRS_PLUG_STATUS`, the line stays low and nobody looks.
* `jack_stale`. The second look after a detection (880-882) asks only whether
  nothing is plugged: a jack that replaced another before the handling, which waits
  until the card is registered, keeps the other's type.
* `stream_pop`. `cs42l42_volume_put()` tests `playback_started` and writes the mixer
  without a lock: a cleanup between leaves it unmuted, and the next prepare powers the
  headphone amplifier with it so, against 1834.
* `dell_speaker`. `cs8409_spk_sw_gpio_put()` stores a word computed from a `gpio_data`
  in which the suspended chip is in reset, and its verb resumes the codec first
  (449-455). The resume brings the chip out of reset (912), then the old word puts it
  back, and it is not marked suspended: it hears no jack until the next suspend.

Limits of other properties, visible with a changed constant: `RightPage` needs `LostAck
= FALSE`, because a page write that timed out and yet reached the chip leaves the old
`last_page` cached; `TipSenseWatched` needs `MaxErrors = 0`, because a failed read after
`CODEC_STATUS` was cleared drops the end of a detection and with it the unmasking;
`NoStaleJack` needs no failed read either, and past a system sleep both its conditions:
without the one on the core, a jack pulled in the sleep is believed in until the wake if
the chip lost its power and its latch; without the one on the line it fails as
`LineWatched` does; `ChannelsAfterClock` and `StreamsRun` need no failed read of
`CS42L42_PWR_CTL1`, which skips a teardown. `AtomicCoef` needs `Late = {}`: a caller
past its `suspended` test that no suspend waits for (the handler of the Dell boards, a
control write delayed for longer than the autosuspend delay) may send a command between
the two of an init. `TypeKnown`, `PlugKnown` and `TypeNoticed` exclude a handler that
overlapped a callback: on the Dell boards and Dolphin one that unmasks the tip under the
resume's detection can, as in `jack_line`, find its end between two reads and leave the
line low, and these boards have no sync work to look later.

### 3.3 Bounds

The properties are about who meets whom, and each configuration has one more of
everything than a meeting needs. Bridge: two callers and PM is the least that lets
one caller wait while another changes what it cached; two pages and two devices
are the least that can be mixed up. Jack: two jacks are the least that can be
taken for each other; two runtime
suspends let the state one leaves meet the next; responses that wait beyond
`MaxResponses` find nothing that the ones before left. A system sleep is one,
since full init forgets everything. Streams: one amp to a channel; the amps are
written in one order, so more of them add only length. `MaxErrors = 1`: the code
has no retry that a second failure could defeat. Coefficients: two callers let one
wait for the mutex while another or a PM callback uses the file; the transactions are
a read and a write as the helpers make them; values past 16 bits stand for contents
nothing states. Nothing else is bounded there. Boards: `MaxEvents` counts insertions,
removals, switch writes, suspends and sleeps together: three on the Dell boards, so
that a jack can go and come across a suspend, one on Dolphin, whose two chips
already meet in a boot and in a move or a suspend. `CTIA` and `HEADPHONE` are plugged in on
Dell, `OMTP` on Dolphin, which gives each branch of the detection by hand a plug.

`CHECK_DEADLOCK FALSE` for `Mbp131Jack` and `Cs42l42Jack`: once insertions, suspends
and sleeps are used up, an idle codec really has nothing to do. Bridge, streams and
coefficients are checked for deadlock.

### 3.4 Fairness

`I2CBridge!FairSpec`: callers, clock work and PM thread are strongly fair. All
three wait for a kernel mutex or for each other; a kernel mutex hands itself on to
a waiter that was passed over, and each I2C wait is bounded by
`CS42L42_I2C_TIMEOUT_US`. Calls, suspends and power losses are never forced.

`Mbp131Jack!FairSpec`: works run, delays end, the chip answers (weak fairness);
`TakeLock`, `ShutDown` and `CancelSync` are strongly fair as waits for a mutex and for a
work. `AutoDone` is also strongly fair while `jack_lock` is free: without that, a
detection could end between two reads of a handler every single time, which no
timing of a detection of tens of milliseconds would do. Nobody need move a jack,
open a stream or suspend; a sleep that began ends.

`Cs42l42Jack!Spec`: the chip debounces, handler, PM callback, registration and a write
under way go on, and a verb that waits for the codec resumes it (weak fairness). `AutoDone`
is strongly fair while the handler is idle, for the reason above. Nobody need move a
jack, suspend or wake the codec, and the properties speak of a codec in use for good.

## 4. Proofs

| theorem | states | 
|---|---|
| `I2CBridge_proof!BridgeTypeCorrect` | `Spec => []TypeOK`, for any board, callers, devices, pages and calls |
| `I2CBridge_proof!BridgeRightDevice` | `AllGuarded => (Spec => []RightDevice)` |
| `I2CBridge_proof!BridgeRightPage` | the same for `RightPage`, with `~LostAck` |
| `I2CBridge_proof!BridgeAddrCoherent` | the same for `AddrCoherent` |
| `I2CBridge_proof!InvariantHolds` | `AllGuarded => (Spec => []IInv)` |
| `I2CBridge_proof!BridgeClockOwned` | `Spec => []ClockOwned`, for any board and any callers |
| `I2CBridge_proof!BridgeClockKnown` | `AllGuarded => (Spec => []ClockKnown)` |
| `I2CBridge_proof!BridgeSuspendQuiet` | the same for `SuspendQuiet` |
| `I2CBridge_proof!BridgeResetAlone` | the same for the action property `ResetAlone` |
| `I2CBridgeRegFile_proof!BridgeRefinesRegFile` | `AllGuarded` and `~LostAck` give `Spec => RegFileSpec` |
| `Mbp131Jack_proof!JackInvariant` | `Spec => []IInv` |
| `Mbp131Jack_proof!JackTypeCorrect` | `Spec => []TypeOK` |
| `Mbp131Jack_proof!JackChipAwake` | `Spec => []ChipAwake` |
| `Mbp131Jack_proof!JackRuntimeExclusive` | `Spec => []RuntimeExclusive` |
| `Mbp131JackWatch_proof!JackLineWatched` | `Spec => [](Quiet => LineWatched)`, `Quiet` being no system sleep and no failed read so far |
| `Mbp131JackWatch_proof!JackTipSenseWatched` | `Spec => [](errors = 0 => TipSenseWatched)` |
| `Mbp131JackWatch_proof!JackDetectUntilSleep` | no detection of a known jack until the first system sleep |
| `Mbp131JackWatch_proof!JackDetectUnknown` | `MaxSleeps = 0` gives `Spec => DetectUnknown` |
| `Mbp131JackWatch_proof!JackNoStaleJack` | `~QuickSwap` gives `Spec => []NoStaleJack` |
| `Mbp131Stream_proof!StreamInvariant` | `Spec => []IInv`, for any amps, volumes, sleeps and failed reads |
| `Mbp131Stream_proof!StreamTypeOK` | `Spec => []TypeOK` |
| `Mbp131Stream_proof!StreamSpeakersFollow` | `Spec => []SpeakersFollow` |
| `Mbp131Stream_proof!StreamAmpVolume` | `Spec => []AmpVolume` |
| `Mbp131Stream_proof!StreamQuietStandby` | `Spec => []QuietStandby` |
| `Mbp131Stream_proof!StreamStreamsRun` | `Spec => []StreamsRun` |
| `Mbp131Stream_proof!StreamChannelsAfterClock` | `Spec => ChannelsAfterClock` |
| `Mbp131Stream_proof!StreamPowerMuted` | `~Controls` gives that until a read failed the headphone amplifier is powered muted |
| `Mbp131Stream_proof!StreamHpUpMuted` | `~Controls` and `MaxErrors = 0` give `Spec => HpUpMuted` |
| `VendorCoef_proof!Invariant` | `Late = {}` gives `Spec => []IInv`, for any boards, tables, callers, transactions |
| `VendorCoef_proof!CommandsLandAlways` | the same for `CommandsLand` |
| `VendorCoef_proof!Refinement` | `Late = {}` gives `Spec => AtomicCoef` |
| `CoefBoards_proof!CoefInvariant` | `Late = {}` gives `Spec => []CInv`, for any tables that meet the three assumptions |
| `CoefBoards_proof!InitCompleteAlways` | the same for `InitComplete` |
| `CoefBoards_proof!PortsLastAlways` | the same for the action property `PortsLast` |
| `CoefBoards_proof!WiredAlways` | the same for `Wired` |
| `Cs42l42Jack_proof!BoardsTypeCorrect` | `Spec => []TypeOK`, for any plugs and any number of events |
| `Cs42l42Jack_proof!ChipsStayOut` | `AwakePuts` gives `Spec => []ChipsOut` |
| `Cs42l42Jack_proof!SwitchStays` | `AwakePuts` gives `Spec => []SwitchKept` |
| `Cs42l42Jack_proof!ToldAlways` | `Spec => []Told` |
| `Cs42l42Jack_proof!TypeKnownAlways` | `AwakePuts` gives `Spec => []TypeKnown` |
| `Cs42l42Jack_proof!MaskedToDetectAlways` | `AwakePuts` gives `Spec => []MaskedToDetect` |

They use nothing but the named assumptions of the modules, which say what the
constants are, and the conditions stated. `AllGuarded` and `Late = {}` say that every
caller is one a suspend waits for; `bridge_dell` shows that it cannot be dropped.
`~LostAck`: a page write that timed out did not reach the chip, else the page cache is
wrong until the next select. `AwakePuts`: the speaker switch is written in use only;
`dell_speaker` shows that this is needed. `~QuickSwap`: no jack is swapped for another
before its removal was dealt with, which `jack_stale` shows to be needed. `Quiet` is
what `jack_line` shows to be needed of `LineWatched`, and the theorem holds up to the
first sleep or failed read of any behaviour. `MaxSleeps = 0` is a machine that is never
put to sleep: after a forced resume a handler and the callback may be in the chip
together. `~Controls`: nobody writes a volume; `stream_pop` shows what comes of it else.
Every condition on reads (`errors = 0`) is over the behaviour so far.

*Bridge.* `RightDevice` is not inductive: it speaks of the moment of the transfer,
and what makes it true was done steps before. `IInv` adds who holds `i2c_mux`
(`MuxInv`), that caches and hardware agree (`CacheInv`), what the holder has
established at each point (`HolderInv`), who may be in a call while PM is at work
(`ExclusionInv`) and how far a suspend has come (`QuiesceInv`). The heart is that
only the holder of the mutex changes address and page, that the clock goes off
under the mutex only, and that the unlocked writes of the PM thread (`last_page`,
reset, `dev_addr`) happen when nobody is in a call. `CallerSafe` has a step per action
of a caller, `PmSafe` one per action of a suspend or resume, `IInvNext` joins them.

`ClockOwned` is inductive as it stands, on any board: only `DisableClock` and the power
loss clear the flag, and the cancel that does not wait either finds a timer, which the
enable sets anew, or a worker that still has to take the mutex. `ClockKnown` and
`SuspendQuiet` need `ClockInv` on top of `IInv`: where the full init has set the bit the
PM thread is on its way to its first access (`KnownInv`), and from the cancel of the
work in the suspend on there is no timer, from the flush on no worker (`QuietInv`).

*Register file.* The refinement mapping forgets all but the memory, the calls and who
is in one. `CallerRefines` maps every step of a caller to `Entry`, `Fail` or a stutter,
`EnterRefines` the entry to `Start` or `Refuse`, a reset or loss of power to `Lose`. What
makes a transfer an `Entry` is `TransferTarget`: by `HolderInv` the one device reached
is that of the call and its page the wanted one. `Lose` may not hit a caller in a call,
which is `ResetAlone` again.

*Jack.* `ChipAwake` needs that a handler at work holds `jack_lock` (`LockInv`), that
`ShutDown` takes it, and that a chip marked `suspended` has no handler at work
(`ChipInv`). The standby takes no lock: there the references do it (`RefInv`), with
what the PM core keeps between its state and the callback (`PmInv`). `HandlerFrame`
and `PmFrame` say what a step leaves alone, so that `HandlerSafe`, `EntrySafe` and
`PmSafe` need look at few variables each. The bounds are constants in the
theorems: they hold for any number of insertions, suspends, sleeps and failures.

*What the jack handler notices and believes.* Four invariants, each on top of `IInv`.
`WatchInv`, for `LineWatched`: a low line has a handler before the read of the latch
that holds it (`LineInv`), which rests on the sync work of every activation (`SyncInv`),
on detections running with the tip sense masked (`DetectInv`) and on the order of the
probe (`BuiltInv`). `MaskInv`, for `TipSenseWatched`: a masked tip sense has its
detection running, or done and unread, or a handler past that. `FreshInv`, for
`DetectUnknown`: who is about to start one believes in no jack. `KnownInv`, for
`NoStaleJack`: the jack believed in and the result of a detection are those of the jack
that is in or of none (`BelievedInv`, `ResultInv`), the tip sense tells of the jack
that went or is about to be asked (`StaleInv`), and the one handler that a forced resume
can meet finds no result of the time before (`ForcedInv`). That somebody comes for the
tip sense then follows from `WatchInv` up to the first sleep, and past it, for a high
line, from `MaskInv`: a masked tip sense has its detection or its handler, an unmasked one
has its latch still to come. A chip without power believes in a jack only in a
sleep (`SenseInv`).

*Streams.* The state of the chip in the middle of a hook is explained by what the hook
has still to do, so the invariant is over the rest of the two sequences in `prog`. A
sequence is reasoned about as a set: `Shape` says that its steps are in the order of
their `Rank` and none comes twice, and that the three steps a failed read skips stand
together; `Due` gives, per operation, the arguments still to come. `TailDue` and
`SkipDue` say what a step and a skip take away, and one lemma per sequence
(`PrepareDue`, `SuspendDue`, ...) what there is at its start; the lengths of the loops
over the amps appear nowhere else. `IInv` then says which steps each thread may still
have (`LaneInv`), that what has begun has its rest ahead (`WholeInv`), and relates the
amps to the stream and the jack (`FollowInv`), the volumes to the control (`VolInv`),
blocks, channels and clock to the streams (`ClockInv`, `RunInv`), each up to what is
due; `StartInv`, `PutInv` and `MarkInv` keep the two threads and the volume writes, which
take no lock, out of each other's way. An init resets the volume of an amp; it also
powers the amp down, and nothing is started from a suspend on (`StartInv`), so that the
next prepare writes the volume ahead of the power. There is one lemma `...Keeps` per
action. TLC checked `IInv` on the instance of `stream_play` first.

`HpUpMuted` is what 1831-1835 promise of the hooks, and for the hooks it is proved.
`MuteInv` says that without power the mixer is muted, that in the
prepare hook what unmutes comes behind what powers, and in cleanups and suspends what
mutes ahead of what takes the power. A failed read of `CS42L42_PWR_CTL1` skips the power
and not the unmuting behind it, so the theorem goes up to the first one. The volume
control without its lock is left, and `stream_pop` is about that.

*Coefficients.* That the data command lands (`CommandsLand`) needs that one process at a
time sends commands. `Exclusive` says who may: the holder of the mutex, or the PM thread
in the states without it. Those are safe because of `Quiet`: from the moment the suspend
has waited for the clock work until the codec is up, callers and work are out. `Marked`
and `Enter` keep them out. `NextInv` has a step per action. `StepRefines` then maps each
step to `CoefFile`: an index command to `Begin` (`IndexBegins`), a data command to `End`
(`DataEnds`), a change of program to `Use` or nothing, power loss and firmware to
`Lose`, which needs `Quiet` once more.

*Tables.* `InitComplete` needs, in the middle of an init, that the part of the table
already written is in the file (`TableInv`, by place: for each register the last of the
writes behind `at[Pm]`), and that the process at work is still in the table of its board
(`ProgramInv`). `LastPlace` gives each register that a table names a last place, so that
at the end of the table "written so far" is `Target` (`WholeTable`). Nobody else writes
what a table sets: a caller under the mutex has a transaction or the clock bit, computed
from what the register holds and not from what it held before (`GuestInv`). `HeldInv`
carries the file through a suspend up to the choice of the way back: a loss of power or
firmware rules the light way out. There the verbs are written anew, and by
`TablesAssumption` put back what the table had left (`VerbsHold`); the look at
the standby mark only reads (`LookInv`). `PortsLast` follows as an action property: the
one step that can enable a port is the write of a table whose later places leave the
port's registers alone. `Wired` is `InitComplete` and `LayoutAssumption`, through
`CompleteWired`. TLC checked `CInv` on the instance of `coef` first.

*Dell and Dolphin.* `ChipsOut` looks at the outputs; what the next writer drives is in
another word. `WireInv` therefore speaks of both: an unsuspended chip is out of reset in
`gpio` and in `gpio_data` (`ResetInv`), and both have the switch as it was set, from the
first write of a resume to the end of the next suspend (`SwitchInv`), because a word on
its way to its verb meets no callback (`PutInv`). `PmInv` says which chips a suspend has
marked, so that a loss of power finds them all marked. For `Told`, `ToldInv` says that
a handler that changed what is believed is on its way to report it, that without an
overlap nothing is believed from the marks to the end of the init, and that the speaker
pin is on meanwhile; the difficulty is a handler that goes on into a suspend and is
forgotten by the next resume (`HandlerSuspended`, `HandlerSpeaker`).

`TypeKnown` is about the end of a handling, and its invariant `KnownInv` about every
place in one. A chip the handler is not at is `Watching` (tip unmasked, and what is
believed of its jack right or a latched or coming change of the tip says that it is not)
or `Detecting` (tip masked, and what is found will be the jack or nothing); the one it is
at has what its place says (`Handled`), with a result right up to the same change of
the tip. A line that is low has a response waiting that names it, or the handler still
to read that chip (`Heard`), so that an idle driver without responses leaves no latch
unread. In an init the chips behind the loop are `Detecting` already; nothing was
believed when it began (`ToldInv`), so it passes over none. `SeatInv` relates the tip
sense to the jack, `AwakeInv` says which chips an init has unmarked, without which reads
and writes would be refused. `ManualRight` is the lemma about the two comparators:
with the tip at rest they tell the type, the first one fooled or not. `AwakePuts` comes
in with `WireInv`: a switch written in standby resets a chip under its detection.
TLC checked `KnownInv` on the instance of `boards` first.

`MaskedToDetect` makes no exception for overlaps. `MaskInv` says of every moment that a
masked tip sense has somebody on the way to unmask it (the resume at
`EnableDetect`, or a handler that has read the end of a detection) or a detection it is
masked for, with its interrupt let through (running, done, or about to be started by the
handler or the resume). That holds chip by chip (`MaskWorld`, `MaskHandler`, `MaskPm`): a
handler and a resume on the same chip take each other's detection away, but each leaves
behind a place of its own. `WireInv` keeps GPIO writes from resetting a chip in use.

Only model-checked: liveness, since fairness and `ENABLED` are out of the prover's
reach: `SuspendCompletes`, `ClockStops`, `JackNoticed`, `TypeNoticed` (whose end states
`TypeKnownAlways` and `ToldAlways` are about); and of the safety properties `PlugKnown`,
half of which is beyond `KnownInv`, as jacks may move under a detection. What the tables
hold, as the three assumptions of `CoefBoards` state it, is evaluated by TLC. Facts
about recursive definitions would need induction over data, which the prover cannot do
here either; no module proved about has one. Where the property of a violation run has a
theorem, it is with the condition that excludes what the run shows.

## 5. Not modelled

Left out of a part that is modelled: pin controls and converters (generic HDA parser),
the values of the volume registers (`cs42l42_mute()`, `cs42l42_volume_info()`), failed
reads on the Dell boards and Dolphin while the chip is up, registers of the chips'
sequences that nothing decides on, the data race on the bits of `struct sub_codec`.

Not modelled: the driver's removal and the choice of a fixup (sequential calls of the
HDA core); the amplifiers of CDB35L56 (calls of the component framework and no state
of their own); `ec_poke` (a debugging module that promises nothing of two users); the
patches to `applesmc`, `applespi` and `brcmfmac` (the drivers are not in the
repository, and what they do around the patch could only be guessed); the sound replay
patch (an older driver, not in the repository either); scripts, ACPI tables, notes,
kernel headers.

## 6. Plan

In this order:

1. A composition of jack, streams and PM for the MacBook board: one PM thread, one
   `jack_lock`, `hp_jack_in` shared, so that `SpeakersFollow` is about the real jack.
2. The volume registers against a reference definition over all inputs.
3. Proofs: the invariants of the jack and of the streams over the composition of 1.
