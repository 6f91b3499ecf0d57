------------------------------ MODULE Cs42l42Jack ------------------------------
(***************************************************************************)
(* The jacks of the boards whose companion codecs are CS42L42s: the Dell   *)
(* ones with one chip, and Dolphin with a headset and a line out chip      *)
(* (cs8409.c). One unsolicited response worker, the PM callbacks of the    *)
(* codec and the fixup actions of the boot work on the chips; there is no  *)
(* lock between them. The speaker switch of the Dell boards drives a GPIO  *)
(* of the word that holds the resets.                                      *)
(*                                                                         *)
(* A step is an I2C access, a verb, or a run of them that nothing the      *)
(* others do can tell apart. How an access is done is I2CBridge.           *)
(***************************************************************************)
EXTENDS Integers

CONSTANTS
  Boards,       \* the boards looked at: some of "dell", "dolphin"
  Plugs,        \* for each, what is plugged in: some of "CTIA", "OMTP", "HEADPHONE"
  MaxEvents,    \* bound, for each: insertions and removals, writes of the
                \* speaker switch, runtime suspends and system sleeps
  Sleeps,       \* the boards that are put to sleep
  AwakePuts     \* is the switch written only while the codec is in use?

Nothing == "none"
PlugTypes == {"CTIA", "OMTP", "HEADPHONE"}

ASSUME JackAssumption ==
  /\ Boards \subseteq {"dell", "dolphin"}
  /\ \A b \in Boards : Plugs[b] \subseteq PlugTypes /\ MaxEvents[b] \in Nat
  /\ Sleeps \subseteq Boards /\ AwakePuts \in BOOLEAN

VARIABLES
  board,
  jack,                 \* what is in each jack
  chip,                 \* of each CS42L42: the tip sense, its interrupts, ...
  ur, responses,        \* unsolicited responses: enabled; the ones waiting
  gpio, gpioData,       \* the outputs that are high, and spec->gpio_data
  registered, powerOn,  \* of the HDA core: registered, power_state == ON
  rpm,                  \* runtime PM status
  suspended, believed,  \* scodec->suspended; hp_jack_in and mic_jack_in
  built,                \* build_ctrl_done
  reported, speaker,    \* what ALSA was told; the speaker pin on
  hdl, pm, put,         \* the worker, the PM or probe thread, the user
  setting,              \* the speaker switch as the user left it
  events,               \* how many there were
  spoiled               \* what has happened that the code does not cope with

drv   == <<suspended, believed, built, reported, speaker>>
wires == <<gpio, gpioData>>
core  == <<registered, powerOn, rpm>>
user  == <<put, setting>>
vars == <<board, jack, chip, ur, responses, wires, core, drv, hdl, pm, user,
          events, spoiled>>

Scodecs == IF board = "dell" THEN {0} ELSE {0, 1}
Last == IF board = "dell" THEN 0 ELSE 1
Pdn == 2                           \* speaker_pdn_gpio; the reset of a chip is its number
NoTypeDect(c) == c = 1             \* the line out chip of Dolphin

\* hp_jack_in and mic_jack_in with the type they were set for, which the headset
\* switches follow.
Belief == PlugTypes \union {Nothing}
PmStates == {"idle", "down", "reset", "gpio", "bring", "out", "enable", "ur", "build",
             "detect", "start", "sync"}
HdlStates == {"idle", "look", "tip", "stop", "manual", "first", "second", "judge",
              "unmask", "detect", "start", "report"}

TypeOK ==
  /\ board \in Boards
  /\ jack \in [Scodecs -> Plugs[board] \union {Nothing}]
  /\ chip \in [Scodecs -> [ts : {"unplug", "trans", "plug"}, tsLatch : BOOLEAN,
                           tsMask : BOOLEAN, hsLatch : BOOLEAN, hsMask : BOOLEAN,
                           hsRun : BOOLEAN, hsType : PlugTypes \union {"INVALID"}]]
  /\ ur \in BOOLEAN /\ responses \subseteq (SUBSET Scodecs) \ {{}}
  /\ gpio \subseteq Scodecs \union {Pdn} /\ gpioData \subseteq Scodecs \union {Pdn}
  /\ {registered, powerOn, built, speaker, setting} \subseteq BOOLEAN
  /\ rpm \in {"active", "suspended"}
  /\ suspended \in [Scodecs -> BOOLEAN]
  /\ believed \in [Scodecs -> Belief]
  /\ reported \in [Scodecs -> [hp : BOOLEAN, mic : BOOLEAN]]
  /\ hdl \in [pc : HdlStates, todo : SUBSET Scodecs, c : Scodecs,
             done : {"yes", "no", "error"}, tip : {"unplug", "trans", "plug"},
             first : SUBSET {1, 2}, type : PlugTypes \union {"INVALID"}]
  /\ pm \in [pc : PmStates, c : Scodecs]
  /\ put \in [pc : {"idle", "write"}, word : SUBSET (Scodecs \union {Pdn})]
  /\ events \in 0..MaxEvents[board]
  /\ spoiled \subseteq {"moved", "mixed", "lost"}

-----------------------------------------------------------------------------
(* The chips. Out of reset every interrupt is masked, by default and again *)
(* by the init sequence.                                                   *)

Fresh(plug) ==
  [ts |-> IF plug = Nothing THEN "unplug" ELSE "trans", tsLatch |-> FALSE,
   tsMask |-> TRUE, hsLatch |-> FALSE, hsMask |-> TRUE, hsRun |-> FALSE,
   hsType |-> "INVALID"]

Low(x) == (x.tsLatch /\ ~x.tsMask) \/ (x.hsLatch /\ ~x.hsMask)
LinesLow(chips) == {c \in Scodecs : Low(chips[c])}

\* The chips as they become. A response goes out whenever a line changes, with the
\* levels of them all; one with every line high is ignored by the handlers, and a
\* second one with the levels of one that waits means nothing new.
Become(chips) ==
  /\ chip' = chips
  /\ responses' = IF ur /\ LinesLow(chips) \notin {LinesLow(chip), {}}
                    THEN responses \union {LinesLow(chips)} ELSE responses

\* An access to chip c; while it is suspended a write is not done.
Change(c, x) == IF suspended[c] THEN UNCHANGED <<chip, responses>>
                                ELSE Become([chip EXCEPT ![c] = x])

\* The GPIO word written: a chip put into reset, or taken out, starts anew.
Drive(word) ==
  /\ gpio' = word
  /\ Become([c \in Scodecs |-> IF c \in word /\ c \in gpio THEN chip[c]
                                                          ELSE Fresh(jack[c])])

InReset(c) == c \notin gpio
KeepChips == UNCHANGED <<chip, responses>>

Sense(c, s) ==
  Become([chip EXCEPT ![c] = [@ EXCEPT !.ts = s, !.tsLatch = @ \/ ~InReset(c)]])

Event == events < MaxEvents[board] /\ events' = events + 1

Move(c, plug) ==
  /\ Event
  /\ jack' = [jack EXCEPT ![c] = plug]
  /\ Sense(c, IF plug = Nothing THEN "unplug" ELSE "trans")
  /\ UNCHANGED <<board, ur, wires, core, drv, hdl, pm, user>>

Insert == \E c \in Scodecs, plug \in Plugs[board] : jack[c] = Nothing /\ Move(c, plug)
Pull   == \E c \in Scodecs : jack[c] # Nothing /\ Move(c, Nothing)

Debounced(c) ==
  /\ chip[c].ts = "trans" /\ ~InReset(c)
  /\ Sense(c, "plug")
  /\ UNCHANGED <<board, jack, ur, wires, core, drv, hdl, pm, user, events>>

\* A seated plug may be recognised, one on its way in or out is not; `invalid' stands
\* for `headphone' too, which is not believed either.
AutoTypes(c) ==
  {"INVALID"} \union (IF chip[c].ts = "plug" THEN {jack[c]} \ {Nothing} ELSE {})

AutoDone(c) ==
  /\ chip[c].hsRun
  /\ \E type \in AutoTypes(c) :
       Become([chip EXCEPT ![c] =
                 [@ EXCEPT !.hsRun = FALSE, !.hsLatch = TRUE, !.hsType = type]])
  /\ UNCHANGED <<board, jack, ur, wires, core, drv, hdl, pm, user, events>>

\* The interrupt statuses, which reading clears; a type is read with its AUTO_DONE only.
DoneRead(x)   == [x EXCEPT !.hsLatch = FALSE, !.hsType = "INVALID"]
TipRead(x)    == [x EXCEPT !.tsLatch = FALSE]
StatusRead(x) == TipRead(DoneRead(x))

\* Fault: the interrupt of the detection stays as it is.
DetectMaskedOnly(x) == [StatusRead(x) EXCEPT !.tsMask = TRUE, !.hsRun = FALSE]

\* cs42l42_run_jack_detect() before and after its delay: the statuses cleared, the
\* tip sense masked, HSDET off; then its interrupt unmasked and HSDET on.
DetectMasked(x)  == [StatusRead(x) EXCEPT !.tsMask = TRUE, !.hsMask = FALSE,
                                          !.hsRun = FALSE]
DetectStarted(x) == [x EXCEPT !.hsRun = TRUE]

-----------------------------------------------------------------------------
(* The unsolicited response worker: cs8409_cs42l42_jack_unsol_event(),     *)
(* dolphin_jack_unsol_event() and cs42l42_jack_unsol_event().              *)

KeepCore == UNCHANGED <<board, jack, ur, wires, core, suspended, built, pm, user,
                        events>>
KeepTold == UNCHANGED <<reported, speaker>>
Goto(l) == hdl' = [hdl EXCEPT !.pc = l]

HdlIdle == [pc |-> "idle", todo |-> {}, c |-> 0, done |-> "no", tip |-> "trans",
            first |-> {}, type |-> "INVALID"]

\* On to the first of these chips, or done.
Visit(chips) ==
  hdl' = IF chips = {} THEN HdlIdle
         ELSE LET c == IF 0 \in chips THEN 0 ELSE 1
              IN [HdlIdle EXCEPT !.pc = "look", !.c = c, !.todo = chips \ {c}]

\* Dropped by the core, or given to the handler with the lines that are low.
TakeResponse ==
  /\ hdl.pc = "idle"
  /\ \E lows \in responses :
       /\ responses' = responses \ {lows}
       /\ Visit(IF registered /\ powerOn THEN lows ELSE {})
  /\ UNCHANGED <<chip, believed>> /\ KeepTold /\ KeepCore

\* cs42l42_handle_tip_sense(): what it leaves in hp_jack_in, and says of a change.
\* Without ts_rise_dbnc a jack believed in is detected again.
TipBelief(c, tip) ==
  IF tip = "unplug" THEN Nothing
  ELSE IF tip = "plug" /\ NoTypeDect(c) THEN "HEADPHONE" ELSE believed[c]
TipChanged(c, tip) == tip = "unplug" \/ (tip = "plug" /\ NoTypeDect(c))

\* CODEC_STATUS and HS_DET_STATUS: is a detection done, and with which type? On
\* Dolphin a suspended chip is passed over; on the Dell boards its reads fail.
ReadDone ==
  LET c == hdl.c
      x == chip[c]
  IN
  /\ hdl.pc = "look"
  /\ IF suspended[c]
       THEN /\ IF board = "dell" THEN hdl' = [hdl EXCEPT !.pc = "tip", !.done = "error"]
                                 ELSE Visit(hdl.todo)
            /\ KeepChips
       ELSE /\ Become([chip EXCEPT ![c] = DoneRead(x)])
            /\ hdl' = [hdl EXCEPT !.pc = "tip",
                                  !.done = IF x.hsLatch THEN "yes" ELSE "no",
                                  !.type = IF NoTypeDect(c) THEN @ ELSE x.hsType]
  /\ UNCHANGED believed /\ KeepTold /\ KeepCore

\* TSRS_PLUG_STATUS, and cs42l42_handle_tip_sense() unless a detection was done. A
\* read that failed, this one or an earlier one, counts as a change.
ReadTip ==
  LET c == hdl.c
      tip == chip[c].ts
      failed == suspended[c] \/ hdl.done = "error"
  IN
  /\ hdl.pc = "tip"
  /\ Change(c, TipRead(chip[c]))
  /\ \/ /\ failed
        /\ hdl' = [hdl EXCEPT !.pc = "report", !.done = "no", !.type = "INVALID"]
        /\ UNCHANGED believed
     \/ /\ ~failed /\ hdl.done = "yes"
        /\ hdl' = [hdl EXCEPT !.pc = "stop", !.done = "no",
                              !.tip = IF NoTypeDect(c) THEN tip ELSE @]
        /\ UNCHANGED believed
     \/ /\ ~failed /\ hdl.done = "no"
        /\ believed' = [believed EXCEPT ![c] = TipBelief(c, tip)]
        /\ IF TipChanged(c, tip) THEN Goto("report")
           ELSE IF tip = "plug" THEN Goto("detect") ELSE Visit(hdl.todo)
  /\ KeepTold /\ KeepCore

HandlerDetects ==
  LET c == hdl.c IN
  \/ /\ hdl.pc = "detect"
     /\ Change(c, DetectMasked(chip[c])) /\ Goto("start")
     /\ UNCHANGED believed /\ KeepTold /\ KeepCore
  \/ /\ hdl.pc = "start"
     /\ Change(c, DetectStarted(chip[c])) /\ Visit(hdl.todo)
     /\ UNCHANGED believed /\ KeepTold /\ KeepCore

\* HSDET_AUTO_DONE: its interrupt masked, HSDET off.
StopDetect ==
  LET c == hdl.c IN
  /\ hdl.pc = "stop"
  /\ Change(c, [chip[c] EXCEPT !.hsMask = TRUE, !.hsRun = FALSE])
  /\ Goto(IF ~NoTypeDect(c) /\ hdl.type \in {"INVALID", "HEADPHONE"}
            THEN "manual" ELSE "judge")
  /\ UNCHANGED believed /\ KeepTold /\ KeepCore

\* Is the microphone contact above the threshold with the switches for type s?
Level(plug, s) == plug = Nothing \/ plug = (IF s = 1 THEN "CTIA" ELSE "OMTP")

\* The comparators that are high. The first, with the lower threshold, may be so
\* whatever the switches; a plug on its way may read as none, and so does a chip
\* that cannot be read.
Seated(plug, s, weak) == {k \in {1, 2} : Level(plug, s) \/ (k = 1 /\ weak)}
Comparators(c, s, weak) ==
  IF suspended[c] THEN {{1, 2}}
  ELSE {Seated(jack[c], s, weak)} \union (IF chip[c].ts = "trans" THEN {{1, 2}} ELSE {})

\* Fault: no second threshold.
HsTypeComp1(comp1, comp2) ==
  CASE comp1 = 1 -> "CTIA" [] comp1 = 2 -> "OMTP" [] comp1 = 0 -> "HEADPHONE"
    [] OTHER -> "INVALID"

\* The type of what the two comparators read, the second reading being bit 1.
HsType(comp1, comp2) ==
  CASE comp1 = 1 -> "CTIA" [] comp1 = 2 -> "OMTP"
    [] comp1 \notin {1, 2} /\ comp2 = 1 -> "CTIA"
    [] comp1 \notin {1, 2} /\ comp2 = 2 -> "OMTP"
    [] comp1 \notin {1, 2} /\ comp2 = 0 -> "HEADPHONE"
    [] OTHER -> "INVALID"

\* cs42l42_manual_hs_det(): HSDET set to manual, which ends a detection that runs; a
\* reading with each setting of the switches, a tenth of a second apart; HSDET off.
ManualHsDet ==
  LET c == hdl.c IN
  \/ /\ hdl.pc = "manual"
     /\ Change(c, [chip[c] EXCEPT !.hsRun = FALSE])
     /\ Goto("first")
     /\ UNCHANGED believed /\ KeepTold /\ KeepCore
  \/ /\ hdl.pc = "first"
     /\ \E weak \in BOOLEAN : \E one \in Comparators(c, 1, weak) :
          hdl' = [hdl EXCEPT !.pc = "second", !.first = one]
     /\ KeepChips /\ UNCHANGED believed /\ KeepTold /\ KeepCore
  \/ /\ hdl.pc = "second"
     /\ \E weak \in BOOLEAN :
          /\ 1 \in hdl.first <=> weak \/ 2 \in hdl.first      \* as in the first reading
          /\ \E two \in Comparators(c, 2, weak) :
               LET Comp(k) == (IF k \in hdl.first THEN 1 ELSE 0) + (IF k \in two THEN 2 ELSE 0)
               IN hdl' = [hdl EXCEPT !.pc = "judge", !.first = {},
                                     !.type = HsType(Comp(1), Comp(2))]
     /\ Change(c, [chip[c] EXCEPT !.hsRun = FALSE])
     /\ UNCHANGED believed /\ KeepTold /\ KeepCore

Judge ==
  LET c == hdl.c IN
  /\ hdl.pc = "judge"
  /\ believed' = [believed EXCEPT ![c] =
                    IF NoTypeDect(c) THEN TipBelief(c, hdl.tip)
                    ELSE IF hdl.type = "INVALID" THEN Nothing ELSE hdl.type]
  /\ hdl' = [hdl EXCEPT !.pc = "unmask", !.type = "INVALID"]
  /\ KeepChips /\ KeepTold /\ KeepCore

\* Fault: a jack of no known type is left masked.
UnmaskKnown ==
  LET c == hdl.c IN
  /\ hdl.pc = "unmask"
  /\ IF believed[c] # Nothing THEN Change(c, [chip[c] EXCEPT !.tsMask = FALSE])
                             ELSE KeepChips
  /\ IF NoTypeDect(c) => TipChanged(c, hdl.tip) THEN Goto("report") ELSE Visit(hdl.todo)
  /\ UNCHANGED believed /\ KeepTold /\ KeepCore

UnmaskTip ==
  LET c == hdl.c IN
  /\ hdl.pc = "unmask"
  /\ Change(c, [chip[c] EXCEPT !.tsMask = FALSE])
  /\ IF NoTypeDect(c) => TipChanged(c, hdl.tip) THEN Goto("report") ELSE Visit(hdl.todo)
  /\ UNCHANGED believed /\ KeepTold /\ KeepCore

\* A verb of another thread resumes a codec in standby, and waits for it; during a
\* PM callback it goes through.
Reachable == rpm = "active" \/ pm.pc # "idle"

\* The pin sense verbs, which the driver answers itself: the headphone or line out pin
\* with hp_jack_in, the microphone pin with mic_jack_in.
PinSense(belief) == [hp |-> belief # Nothing, mic |-> belief \in {"CTIA", "OMTP"}]
Senses == [c \in Scodecs |-> PinSense(believed[c])]
TellOf(c) == reported' = [reported EXCEPT ![c] = PinSense(believed[c])]

\* Fault: the jacks only.
ReportJacks ==
  /\ hdl.pc = "report"
  /\ board = "dell" => Reachable
  /\ TellOf(hdl.c)
  /\ Visit(hdl.todo)
  /\ KeepChips /\ UNCHANGED <<believed, speaker>> /\ KeepCore

\* The speaker pin, a verb; then the jacks of this chip, whose pin sense is read.
Report ==
  /\ hdl.pc = "report"
  /\ board = "dell" => Reachable
  /\ TellOf(hdl.c)
  /\ speaker' = IF board = "dell" THEN believed[0] = Nothing ELSE speaker
  /\ Visit(hdl.todo)
  /\ KeepChips /\ UNCHANGED believed /\ KeepCore

HandlerStep ==
  \/ TakeResponse \/ ReadDone \/ ReadTip \/ HandlerDetects
  \/ StopDetect \/ ManualHsDet \/ Judge \/ UnmaskTip \/ Report

-----------------------------------------------------------------------------
(* The PM callbacks of the codec, cs8409_cs42l42_suspend() and             *)
(* cs8409_cs42l42_hw_init() or dolphin_hw_init(), and the INIT and BUILD   *)
(* actions of the fixups, which the boot takes one after the other.        *)

KeepPm == UNCHANGED <<board, jack, registered, hdl, user, events>>
Step(l, c) == pm' = [pc |-> l, c |-> c]
Done == Step("idle", 0)

\* cs8409_enable_ur(0), and on to the first chip.
SuspendBegins == ur' = FALSE /\ Step("down", 0)

\* Nothing was done for the autosuspend delay, a second at least; the overlaps of a
\* response that comes in just then are those of a system sleep.
RuntimeSuspend ==
  /\ rpm = "active" /\ pm.pc = "idle" /\ registered /\ powerOn
  /\ hdl.pc = "idle" /\ responses = {} /\ \A c \in Scodecs : ~chip[c].hsRun
  /\ AwakePuts => put.pc = "idle"
  /\ Event
  /\ SuspendBegins
  /\ KeepChips
  /\ UNCHANGED <<board, jack, registered, powerOn, rpm, wires, drv, hdl,
                 user>>

\* A system sleep waits for user space, not for the worker; a codec in standby
\* stays there.
SystemSleep ==
  /\ pm.pc = "idle" /\ registered /\ powerOn /\ put.pc = "idle"
  /\ board \in Sleeps /\ Event
  /\ powerOn' = FALSE
  /\ IF rpm = "active" THEN SuspendBegins ELSE UNCHANGED <<ur, pm>>
  /\ KeepChips
  /\ UNCHANGED <<board, jack, registered, rpm, wires, drv, hdl, user>>

\* cs42l42_suspend() up to the read of the GPIO word; its last write.
DownCodec ==
  /\ pm.pc = "down"
  /\ suspended' = [suspended EXCEPT ![pm.c] = TRUE]
  /\ believed' = [believed EXCEPT ![pm.c] = Nothing]
  /\ gpioData' = gpio \ {pm.c}
  /\ Step("reset", pm.c)
  /\ KeepChips /\ KeepPm
  /\ UNCHANGED <<ur, gpio, powerOn, rpm, built, reported, speaker>>

ResetCodec ==
  /\ pm.pc = "reset"
  /\ Drive(gpioData)
  /\ IF pm.c = Last THEN Done /\ rpm' = "suspended"
                    ELSE Step("down", pm.c + 1) /\ UNCHANGED rpm
  /\ KeepPm /\ UNCHANGED <<ur, gpioData, powerOn, drv>>

\* A use of the codec, or the end of the system sleep; the CS8409 may have lost its
\* power meanwhile. snd_hda_gen_init() comes first and turns the speaker pin on.
Resume ==
  /\ rpm = "suspended" /\ pm.pc = "idle"
  /\ \E word \in {gpio, {}} : Drive(word)
  /\ Step("gpio", 0)
  /\ speaker' = TRUE
  /\ KeepPm
  /\ UNCHANGED <<ur, gpioData, powerOn, rpm, suspended, believed, built, reported>>

\* Fault: the GPIO word is left to the chips' resets.
NoGpio ==
  /\ pm.pc = "gpio"
  /\ Step("bring", 0)
  /\ KeepChips /\ KeepPm /\ UNCHANGED <<ur, wires, powerOn, rpm, drv>>

\* snd_hda_codec_set_gpio(); the coefficients are VendorCoef.
SetGpio ==
  /\ pm.pc = "gpio"
  /\ Drive(gpioData)
  /\ Step("bring", 0)
  /\ KeepPm /\ UNCHANGED <<ur, gpioData, powerOn, rpm, drv>>

\* Fault: the word is not read, only the chip's own reset is in it.
BringAlone ==
  /\ pm.pc = "bring"
  /\ gpioData' = {pm.c, Pdn}
  /\ Step("out", pm.c)
  /\ KeepChips /\ KeepPm /\ UNCHANGED <<ur, gpio, powerOn, rpm, drv>>

\* cs42l42_resume(): the GPIO word read, and written with the chip out of reset; the
\* init sequence, which masks every interrupt.
BringCodec ==
  /\ pm.pc = "bring"
  /\ gpioData' = gpio \union {pm.c}
  /\ Step("out", pm.c)
  /\ KeepChips /\ KeepPm /\ UNCHANGED <<ur, gpio, powerOn, rpm, drv>>

OutOfReset ==
  /\ pm.pc = "out"
  /\ Drive(gpioData)
  /\ suspended' = [suspended EXCEPT ![pm.c] = FALSE]
  /\ Step("enable", pm.c)
  /\ KeepPm /\ UNCHANGED <<ur, gpioData, powerOn, rpm, believed, built, reported, speaker>>

\* The statuses read, unsolicited responses allowed during the resume, and
\* cs42l42_enable_jack_detect(): the status read again, the tip sense unmasked.
EnableDetect ==
  /\ pm.pc = "enable"
  /\ Become([chip EXCEPT ![pm.c] = [StatusRead(@) EXCEPT !.tsMask = FALSE]])
  /\ powerOn' = TRUE
  /\ IF pm.c = Last THEN Step("ur", 0) ELSE Step("bring", pm.c + 1)
  /\ KeepPm /\ UNCHANGED <<ur, wires, rpm, drv>>

\* Only a change of a line sends a response: what fell before does not.
EnableUr ==
  /\ pm.pc = "ur"
  /\ ur' = TRUE
  /\ IF built THEN Step("detect", 0) ELSE Step("build", 0)
  /\ KeepChips /\ KeepPm /\ UNCHANGED <<wires, powerOn, rpm, drv>>

\* HDA_FIXUP_ACT_BUILD.
BuildControls ==
  /\ pm.pc = "build"
  /\ built' = TRUE
  /\ Step("detect", 0)
  /\ KeepChips /\ KeepPm
  /\ UNCHANGED <<ur, wires, powerOn, rpm, suspended, believed, reported, speaker>>

\* Fault: one codec too many.
NextCodecAfter == IF pm.c > Last THEN Step("sync", 0) ELSE Step("detect", pm.c + 1)

NextCodec == IF pm.c = Last THEN Step("sync", 0) ELSE Step("detect", pm.c + 1)

\* Fault: no detection on the first chip.
DetectLast ==
  /\ pm.pc = "detect"
  /\ IF believed[pm.c] = Nothing /\ pm.c # 0
       THEN Become([chip EXCEPT ![pm.c] = DetectMasked(@)]) /\ Step("start", pm.c)
       ELSE KeepChips /\ NextCodec
  /\ KeepPm /\ UNCHANGED <<ur, wires, powerOn, rpm, drv>>

\* cs42l42_run_jack_detect() of each chip no jack is believed in of.
RunDetect ==
  /\ pm.pc = "detect"
  /\ IF believed[pm.c] = Nothing
       THEN Become([chip EXCEPT ![pm.c] = DetectMasked(@)]) /\ Step("start", pm.c)
       ELSE KeepChips /\ NextCodec
  /\ KeepPm /\ UNCHANGED <<ur, wires, powerOn, rpm, drv>>

StartDetect ==
  /\ pm.pc = "start"
  /\ Become([chip EXCEPT ![pm.c] = DetectStarted(@)])
  /\ NextCodec
  /\ KeepPm /\ UNCHANGED <<ur, wires, powerOn, rpm, drv>>

\* The core reports every jack after a resume, and the controls when they are built.
SyncJacks ==
  /\ pm.pc = "sync"
  /\ reported' = Senses
  /\ Done /\ rpm' = "active"
  /\ KeepChips /\ KeepPm
  /\ UNCHANGED <<ur, wires, powerOn, suspended, believed, built, speaker>>

Register ==
  /\ ~registered /\ built /\ pm.pc = "idle"
  /\ registered' = TRUE
  /\ KeepChips
  /\ UNCHANGED <<board, jack, ur, wires, powerOn, rpm, drv, hdl, pm, user, events>>

PmStep ==
  \/ DownCodec \/ ResetCodec \/ SetGpio \/ BringCodec \/ OutOfReset \/ EnableDetect
  \/ EnableUr \/ BuildControls \/ RunDetect \/ StartDetect \/ SyncJacks

-----------------------------------------------------------------------------
(* cs8409_spk_sw_gpio_put(): the word is computed and stored, then sent as *)
(* the argument of a verb.                                                 *)

KeepUser == UNCHANGED <<board, jack, ur, core, drv, hdl, pm>>

PutStart ==
  /\ board = "dell" /\ registered /\ powerOn
  /\ put.pc = "idle" /\ Event
  /\ AwakePuts => rpm = "active" /\ pm.pc = "idle"
  /\ LET on == Pdn \notin gpioData
         word == (gpioData \ {Pdn}) \union (IF on THEN {Pdn} ELSE {})
     IN /\ gpioData' = word
        /\ put' = [pc |-> "write", word |-> word]
        /\ setting' = on
  /\ KeepChips /\ UNCHANGED gpio /\ KeepUser

PutWrite ==
  /\ put.pc = "write" /\ Reachable
  /\ Drive(put.word)
  /\ put' = [pc |-> "idle", word |-> {}]
  /\ UNCHANGED <<gpioData, setting, events>> /\ KeepUser

-----------------------------------------------------------------------------
Init ==
  /\ board \in Boards
  /\ jack \in [Scodecs -> Plugs[board] \union {Nothing}]
  /\ chip = [c \in Scodecs |-> Fresh(jack[c])]
  /\ ur = FALSE /\ responses = {}
  /\ gpio = {} /\ gpioData = (IF board = "dell" THEN {Pdn} ELSE {})
  /\ registered = FALSE /\ powerOn = TRUE /\ rpm = "suspended"
  /\ suspended = [c \in Scodecs |-> TRUE]
  /\ believed = [c \in Scodecs |-> Nothing] /\ built = FALSE
  /\ reported = Senses /\ speaker = TRUE
  /\ hdl = HdlIdle /\ pm = [pc |-> "gpio", c |-> 0]
  /\ put = [pc |-> "idle", word |-> {}] /\ setting = (board = "dell")
  /\ events = 0 /\ spoiled = {}

\* A detection runs with the tip sense masked, and what the tip does is not looked
\* at before its end.
Deaf(c) == chip[c].tsMask /\ ~chip[c].hsMask /\ ~(hdl.pc = "stop" /\ hdl.c = c)

\* What the code does not cope with: a jack moved meanwhile, a handler at work during
\* a PM callback, a response dropped before the card is registered. A resume that
\* finds no handler at work and no jack believed in starts afresh.
Noted == spoiled' =
  (IF pm.pc = "gpio" /\ believed = [c \in Scodecs |-> Nothing] THEN {} ELSE spoiled)
  \union (IF \E c \in Scodecs : Deaf(c) /\ jack'[c] # jack[c] THEN {"moved"} ELSE {})
  \union (IF pm'.pc # "idle" /\ hdl'.pc # "idle" THEN {"mixed"} ELSE {})
  \union (IF ~registered /\ ~(responses \subseteq responses') THEN {"lost"} ELSE {})

Next ==
  /\ \/ Insert \/ Pull \/ (\E c \in Scodecs : Debounced(c) \/ AutoDone(c))
     \/ HandlerStep \/ RuntimeSuspend \/ SystemSleep \/ Resume \/ PmStep
     \/ Register \/ PutStart \/ PutWrite
  /\ Noted

\* A verb waits for this codec.
Wanted == (board = "dell" /\ hdl.pc = "report") \/ put.pc = "write"

\* The chip answers, work queued is run, a callback and a system call finish, and a
\* verb that needs the codec resumes it. Nobody has to suspend it or to wake it up. A
\* detection takes tens of milliseconds: it does not end, every time, in the moment a
\* handler needs from a read of the status to the next detection.
Fairness ==
  /\ \A c \in {0, 1} : WF_vars(c \in Scodecs /\ Debounced(c) /\ Noted)
                       /\ SF_vars(c \in Scodecs /\ hdl.pc = "idle" /\ AutoDone(c) /\ Noted)
  /\ WF_vars(HandlerStep /\ Noted) /\ WF_vars(PmStep /\ Noted)
  /\ WF_vars(Register /\ Noted) /\ WF_vars(PutWrite /\ Noted)
  /\ WF_vars(Wanted /\ Resume /\ Noted)

Spec == Init /\ [][Next]_vars /\ Fairness

-----------------------------------------------------------------------------
(* What the code promises.                                                 *)

Up == rpm = "active" /\ pm.pc = "idle"
Quiet == Up /\ hdl.pc = "idle" /\ put.pc = "idle"

\* `Bring CS42L42 out of Reset' (cs8409.c:912): between the PM callbacks a chip that
\* is not marked suspended is out of reset, whoever wrote the GPIO word last.
ChipsOut == Quiet => \A c \in Scodecs : ~suspended[c] => ~InReset(c)

\* The speaker switch is as the user left it whenever the codec is in use and no write
\* is under way, also after the CS8409 lost power or a chip's reset was written.
SwitchKept == Up /\ put.pc = "idle" => (setting <=> Pdn \in gpio)

\* Between two handlings ALSA knows what the driver believes, and the speaker pin of a
\* Dell board is off with a jack in and on without, unless a handler overlapped a PM
\* callback (cs8409.c:1017-1034, 1459-1486).
Told == Quiet /\ "mixed" \notin spoiled =>
  /\ reported = Senses
  /\ board = "dell" => (speaker <=> believed[0] = Nothing)

\* Between two handlings the tip sense of a chip in use is masked for a detection only,
\* one that runs, or is done and lets its interrupt through (cs8409.c:666-677, 834-877):
\* whichever handler and PM callback overlapped, they never leave it masked with
\* nobody to unmask it.
MaskedToDetect == Quiet => \A c \in Scodecs :
  ~suspended[c] /\ chip[c].tsMask => ~chip[c].hsMask /\ (chip[c].hsRun \/ chip[c].hsLatch)

\* When nothing is left to do, no detection running and no response waiting, a plug
\* that is seated is reported present, also one that was moved during a detection:
\* what the mask of the tip sense hides is a removal, never an insertion.
PlugKnown == Quiet /\ responses = {} /\ spoiled \subseteq {"moved"} =>
  \A c \in Scodecs : ~chip[c].hsRun /\ chip[c].ts = "plug" => reported[c].hp

\* What ALSA is told of a jack that is to be: on Dolphin's line out a plug is all.
Due(c) == IF NoTypeDect(c) /\ jack[c] # Nothing THEN "HEADPHONE" ELSE jack[c]

\* When nothing is left to do, no detection running, no response waiting and the tip
\* still, every jack is believed to be what it is and the next move of it will be
\* heard, unless one of the three things happened that the code does not cope with.
TypeKnown == Quiet /\ responses = {} /\ spoiled = {} =>
  \A c \in Scodecs : ~chip[c].hsRun /\ chip[c].ts # "trans" =>
    believed[c] = Due(c) /\ ~chip[c].tsMask

\* A jack that no longer changes is believed to be what it is, the microphone contact
\* found, and reported so, a removed one as removed, unless one of the three things
\* happened that the code does not cope with.
TypeNoticed == \A c \in {0, 1} :
  <>[](c \in Scodecs /\ Up /\ spoiled = {})
    => <>[](c \in Scodecs => believed[c] = Due(c) /\ reported[c] = PinSense(Due(c)))
=============================================================================
