------------------------------ MODULE Mbp131Jack ------------------------------
(***************************************************************************)
(* The headphone jack of the MacBookPro13,1 from the tip sense of the      *)
(* CS42L83 to what ALSA is told: the interrupt line and its unsolicited    *)
(* responses, the jack handler and the sync work, and the runtime and      *)
(* system PM callbacks they race with (cs8409.c).                          *)
(*                                                                         *)
(* The line is low while an unmasked status is latched; a response is sent *)
(* on its falling edge only, and the HDA core drops responses until the    *)
(* card is registered and around a system sleep.                           *)
(*                                                                         *)
(* A jack is a number, a new one for every insertion, 0 for none.  What    *)
(* hp_jack_in and mic_jack_in hold is the jack whose type was detected:    *)
(* `believed', 0 when both are 0.  An I2C access is a step here; how it is *)
(* done is I2CBridge.                                                      *)
(***************************************************************************)
EXTENDS Integers

CONSTANTS
  MaxJacks,      \* bound: insertions
  MaxSuspends,   \* bound: runtime suspends
  MaxSleeps,     \* bound: system sleeps, aborted ones included
  MaxErrors,     \* bound: failed I2C reads in the handler
  MaxResponses,  \* bound: responses waiting; more of them mean nothing new
  QuickSwap,     \* can a jack be back before its removal was dealt with?
  Aborts         \* are system sleeps aborted after their prepare?

ASSUME JackAssumption ==
  /\ MaxJacks \in Nat /\ MaxSuspends \in Nat /\ MaxSleeps \in Nat
  /\ MaxErrors \in Nat /\ MaxResponses \in Nat \ {0}
  /\ QuickSwap \in BOOLEAN /\ Aborts \in BOOLEAN

VARIABLES
  jack, jacks,              \* the jack that is in, and how many have been
  ts,                       \* tip sense status, debounced on its rise
  tsLatch, tsMask,          \* TSRS_PLUG_STATUS interrupt and its mask
  hsLatch, hsMask,          \* HSDET_AUTO_DONE in CODEC_STATUS and its mask
  hsRun, hsType,            \* type detection under way, and its last result
  chipUp,                   \* CS42L83 out of reset
  ur, responses,            \* unsolicited responses: enabled; waiting
  registered, powerOn,      \* of the HDA core: registered, power_state == ON
  rpm, noRpm, resumeReq,    \* runtime PM: status, disabled, resume requested
  suspended, fullDone, buildDone,  \* cs42l83->suspended, full_init_done, ...
  believed, reported,       \* hp_jack_in/mic_jack_in, and what ALSA was told
  sync,                     \* irq_sync_work
  lock, pc, ref, cdc,       \* jack_lock, and the handlers that take it
  pm, light,                \* the thread in a PM callback or a fixup
  sleep,                    \* system sleep
  suspends, sleeps, errors  \* counts, for the bounds

chip   == <<ts, tsLatch, tsMask, hsLatch, hsMask, hsRun, hsType, chipUp>>
hdaVars == <<registered, powerOn, rpm, noRpm, resumeReq, sleep>>
drvVars == <<suspended, fullDone, buildDone, believed, reported>>
hdlVars == <<lock, pc, ref, cdc>>
counts == <<suspends, sleeps, errors>>
vars == <<jack, jacks, chip, ur, responses, hdaVars, drvVars, sync, hdlVars, pm,
          light, counts>>

Handlers == {"unsol", "sync"}
NoHolder == "none"
PcStates == {"idle", "entered", "lock", "status", "tip", "hsoff", "type", "unmask",
             "relook", "report", "detect", "start", "release"}
\* In jack_lock, and at work on the chip.
Locked  == PcStates \ {"idle", "entered", "lock"}
Working == Locked \ {"release"}
PmStates == {"idle", "cancel", "standby", "down", "init", "bring", "clear", "unmask",
             "look", "report", "ur", "detect", "start", "build", "finish"}

-----------------------------------------------------------------------------
(* The chip.                                                               *)

Low(tl, tm, hl, hm) == (tl /\ ~tm) \/ (hl /\ ~hm)
LineLow == Low(tsLatch, tsMask, hsLatch, hsMask)

\* The interrupt bits as they become, and the response to a falling edge.
Bits(tl, tm, hl, hm) ==
  /\ tsLatch' = tl /\ tsMask' = tm /\ hsLatch' = hl /\ hsMask' = hm
  /\ responses' = IF ur /\ ~LineLow /\ Low(tl, tm, hl, hm) /\ responses < MaxResponses
                    THEN responses + 1 ELSE responses

NoEvent == UNCHANGED <<ur, hdaVars, drvVars, sync, hdlVars, pm, light, counts>>

\* The line will yet fall: a detection that will end, a plug that will be debounced.
EdgeToCome == ~LineLow /\ ((hsRun /\ ~hsMask) \/ (ts = "trans" /\ ~tsMask))

\* Someone is on the way to TSRS_PLUG_STATUS or to a reset. A high line keeps the sync
\* work, and a low one is no help unless somebody comes for it.
Outstanding ==
  \/ LineLow /\ \/ responses > 0 \/ sync = "queued" \/ resumeReq
                \/ \E h \in Handlers : pc[h] \in {"entered", "lock", "status"}
  \/ \E h \in Handlers : pc[h] \in {"tip", "hsoff", "type", "unmask", "relook", "start"}
  \/ pm \notin {"idle", "cancel", "standby"}
  \/ EdgeToCome

Sense(s) == /\ ts' = s
            /\ IF chipUp THEN Bits(TRUE, tsMask, hsLatch, hsMask)
                         ELSE UNCHANGED <<tsLatch, tsMask, hsLatch, hsMask, responses>>

\* Nothing is known, or is being found out, about an earlier jack.
Forgotten ==
  /\ believed = 0 /\ ~hsRun /\ ~hsLatch
  /\ \A h \in Handlers : pc[h] \notin {"tip", "hsoff", "type"}

\* A plug shows as in transition at once, as plugged after 1 s.
Insert ==
  /\ jack = 0 /\ jacks < MaxJacks
  /\ QuickSwap \/ Forgotten
  /\ jack' = jacks + 1 /\ jacks' = jacks + 1
  /\ Sense("trans")
  /\ UNCHANGED <<hsRun, hsType, chipUp>> /\ NoEvent

Debounced ==
  /\ ts = "trans" /\ chipUp
  /\ Sense("plug")
  /\ UNCHANGED <<jack, jacks, hsRun, hsType, chipUp>> /\ NoEvent

Pull ==
  /\ jack # 0
  /\ jack' = 0
  /\ Sense("unplug")
  /\ UNCHANGED <<jacks, hsRun, hsType, chipUp>> /\ NoEvent

\* A seated jack is recognised, one on its way in may be, an empty one is not.
Seen == IF jack = 0 THEN {0} ELSE IF ts = "plug" THEN {jack} ELSE {0, jack}

AutoDone ==
  /\ hsRun /\ chipUp
  /\ hsRun' = FALSE
  /\ hsType' \in Seen
  /\ Bits(tsLatch, tsMask, TRUE, hsMask)
  /\ UNCHANGED <<jack, jacks, ts, chipUp>> /\ NoEvent

Chip == Insert \/ Debounced \/ Pull \/ AutoDone

-----------------------------------------------------------------------------
(* The jack handler, mbp131_jack_unsol_event(), and the sync work,         *)
(* mbp131_irq_sync(): both take jack_lock and call mbp131_jack_event().    *)

KeepChip == UNCHANGED <<chip, responses>>
KeepPm   == UNCHANGED <<jack, jacks, ur, registered, powerOn, rpm, noRpm, suspended,
                        fullDone, buildDone, pm, light, sleep, suspends, sleeps>>
Goto(h, l) == pc' = [pc EXCEPT ![h] = l]

\* Fault: pm_runtime_get_noresume(), which never says no.
AlwaysActive == TRUE

\* pm_runtime_get_if_active(): 1 and a reference, 0 if not active, negative and no
\* reference with runtime PM off.
Active == noRpm \/ rpm = "active"

\* One response, dropped by the core or given to the handler.
TakeResponse ==
  /\ responses > 0 /\ pc["unsol"] = "idle"
  /\ responses' = responses - 1
  /\ IF registered /\ powerOn THEN Goto("unsol", "entered") ELSE UNCHANGED pc
  /\ UNCHANGED <<chip, resumeReq, believed, reported, sync, lock, ref, cdc, errors>>
  /\ KeepPm

\* The delay is over; it starts again while responses would be dropped.
SyncFires ==
  /\ sync = "queued" /\ pc["sync"] = "idle"
  /\ registered /\ powerOn
  /\ sync' = "running"
  /\ Goto("sync", "entered")
  /\ UNCHANGED <<resumeReq, believed, reported, lock, ref, cdc, errors>>
  /\ KeepChip /\ KeepPm

\* Without a reference to be had the handler asks for a resume, which a codec on
\* its way down does next and one on its way up ignores; the work comes back
\* later, or has nothing to do once the codec is suspended.
GetReference(h) ==
  /\ pc[h] = "entered"
  /\ Goto(h, IF Active THEN "lock" ELSE "idle")
  /\ ref' = [ref EXCEPT ![h] = IF ~Active THEN 0 ELSE IF noRpm THEN -1 ELSE 1]
  /\ resumeReq' = (resumeReq \/ (h = "unsol" /\ ~Active /\ rpm # "resuming"))
  /\ sync' = IF h = "sync" /\ ~Active
               THEN IF sync = "queued" \/ rpm # "suspended" THEN "queued" ELSE "idle"
               ELSE sync
  /\ UNCHANGED <<believed, reported, lock, cdc, errors>> /\ KeepChip /\ KeepPm

\* Fault: `suspended' is not looked at.
TakeLockOnly(h) ==
  /\ pc[h] = "lock" /\ lock = NoHolder
  /\ lock' = h
  /\ Goto(h, IF h = "sync" /\ ~LineLow THEN "release" ELSE "status")
  /\ UNCHANGED <<resumeReq, believed, reported, sync, ref, cdc, errors>>
  /\ KeepChip /\ KeepPm

\* The handler believes the level of its response, the work reads it.
TakeLock(h) ==
  /\ pc[h] = "lock" /\ lock = NoHolder
  /\ lock' = h
  /\ Goto(h, IF suspended \/ (h = "sync" /\ ~LineLow) THEN "release" ELSE "status")
  /\ UNCHANGED <<resumeReq, believed, reported, sync, ref, cdc, errors>>
  /\ KeepChip /\ KeepPm

KeepJack == UNCHANGED <<resumeReq, believed, reported, sync, lock, ref>> /\ KeepPm

\* CODEC_STATUS and HS_DET_STATUS; reading clears the latch.
ReadStatus(h) ==
  /\ pc[h] = "status"
  /\ cdc' = [cdc EXCEPT ![h] = hsLatch]
  /\ Bits(tsLatch, tsMask, FALSE, hsMask)
  /\ Goto(h, "tip")
  /\ UNCHANGED <<ts, hsRun, hsType, chipUp, errors>> /\ KeepJack

\* A read of the status registers failed, this one or a later one: before it, or
\* after what it reads was cleared. The others are done, and their result dropped.
ReadFails(h) ==
  /\ pc[h] \in {"status", "tip"} /\ errors < MaxErrors
  /\ errors' = errors + 1
  /\ \/ KeepChip
     \/ Bits(tsLatch, tsMask, FALSE, hsMask) /\ UNCHANGED <<ts, hsRun, hsType, chipUp>>
     \/ Bits(FALSE, tsMask, FALSE, hsMask) /\ UNCHANGED <<ts, hsRun, hsType, chipUp>>
  /\ Goto(h, "release")
  /\ UNCHANGED cdc /\ KeepJack

\* Fault: a plug always starts a detection.
ReadTipAnew(h) ==
  /\ pc[h] = "tip"
  /\ Bits(FALSE, tsMask, hsLatch, hsMask)
  /\ believed' = IF ~cdc[h] /\ ts = "unplug" THEN 0 ELSE believed
  /\ Goto(h, IF cdc[h] THEN "hsoff"
             ELSE IF ts = "unplug" THEN "report"
             ELSE IF ts = "plug" THEN "detect" ELSE "release")
  /\ UNCHANGED <<ts, hsRun, hsType, chipUp, resumeReq, reported, sync, lock, ref, cdc,
                 errors>> /\ KeepPm

\* TSRS_PLUG_STATUS, and cs42l42_handle_tip_sense() unless a detection is done:
\* a jack already believed in is not detected again.
ReadTip(h) ==
  /\ pc[h] = "tip"
  /\ Bits(FALSE, tsMask, hsLatch, hsMask)
  /\ believed' = IF ~cdc[h] /\ ts = "unplug" THEN 0 ELSE believed
  /\ Goto(h, IF cdc[h] THEN "hsoff"
             ELSE IF ts = "unplug" THEN "report"
             ELSE IF ts = "plug" /\ believed = 0 THEN "detect" ELSE "release")
  /\ UNCHANGED <<ts, hsRun, hsType, chipUp, resumeReq, reported, sync, lock, ref, cdc,
                 errors>> /\ KeepPm

\* HSDET_AUTO_DONE: its interrupt masked again, the detection off.
StopDetect(h) ==
  /\ pc[h] = "hsoff"
  /\ Bits(tsLatch, tsMask, hsLatch, TRUE)
  /\ hsRun' = FALSE
  /\ Goto(h, "type")
  /\ UNCHANGED <<ts, hsType, chipUp, cdc, errors>> /\ KeepJack

\* The result of the automatic detection, or of the manual one after it.
SetType(h) ==
  /\ pc[h] = "type"
  /\ believed' \in Seen \union ({hsType} \ {0})
  /\ Goto(h, "unmask")
  /\ UNCHANGED <<resumeReq, reported, sync, lock, ref, cdc, errors>>
  /\ KeepChip /\ KeepPm

\* Fault: the tip sense stays masked after the detection.
LeaveMasked(h) ==
  /\ pc[h] = "unmask"
  /\ Goto(h, IF believed # 0 THEN "relook" ELSE "report")
  /\ UNCHANGED <<cdc, errors>> /\ KeepChip /\ KeepJack

UnmaskTip(h) ==
  /\ pc[h] = "unmask"
  /\ Bits(tsLatch, FALSE, hsLatch, hsMask)
  /\ Goto(h, IF believed # 0 THEN "relook" ELSE "report")
  /\ UNCHANGED <<ts, hsRun, hsType, chipUp, cdc, errors>> /\ KeepJack

\* Fault: the second look reads the status, which clears it, and nothing more.
RelookOnly(h) ==
  /\ pc[h] = "relook"
  /\ Bits(FALSE, tsMask, hsLatch, hsMask)
  /\ Goto(h, "report")
  /\ UNCHANGED <<ts, hsRun, hsType, chipUp, cdc, errors>> /\ KeepJack

\* `Look once more, now that the interrupt is back'.
Relook(h) ==
  /\ pc[h] = "relook"
  /\ Bits(FALSE, tsMask, hsLatch, hsMask)
  /\ believed' = IF ts = "unplug" THEN 0 ELSE believed
  /\ Goto(h, "report")
  /\ UNCHANGED <<ts, hsRun, hsType, chipUp, resumeReq, reported, sync, lock, ref, cdc,
                 errors>> /\ KeepPm

\* `reg_ts_status >= 0': without a status the jack is still believed in.
RelookFails(h) ==
  /\ pc[h] = "relook" /\ errors < MaxErrors
  /\ errors' = errors + 1
  /\ KeepChip \/ (Bits(FALSE, tsMask, hsLatch, hsMask)
                 /\ UNCHANGED <<ts, hsRun, hsType, chipUp>>)
  /\ Goto(h, "report")
  /\ UNCHANGED cdc /\ KeepJack

Report(h) ==
  /\ pc[h] = "report"
  /\ reported' = believed
  /\ Goto(h, "release")
  /\ UNCHANGED <<resumeReq, believed, sync, lock, ref, cdc, errors>>
  /\ KeepChip /\ KeepPm

\* cs42l42_run_jack_detect(): the status cleared, the tip sense masked.
Masked == Bits(FALSE, TRUE, FALSE, hsMask)

MaskTip(h) ==
  /\ pc[h] = "detect"
  /\ Masked
  /\ Goto(h, "start")
  /\ UNCHANGED <<ts, hsRun, hsType, chipUp, cdc, errors>> /\ KeepJack

Started == Bits(tsLatch, tsMask, hsLatch, FALSE) /\ hsRun' = TRUE

StartDetect(h) ==
  /\ pc[h] = "start"
  /\ Started
  /\ Goto(h, "release")
  /\ UNCHANGED <<ts, hsType, chipUp, cdc, errors>> /\ KeepJack

Release(h) ==
  /\ pc[h] = "release"
  /\ lock' = NoHolder
  /\ ref' = [ref EXCEPT ![h] = 0]
  /\ Goto(h, "idle")
  /\ sync' = IF h = "sync" /\ sync = "running" THEN "idle" ELSE sync
  /\ UNCHANGED <<resumeReq, believed, reported, cdc, errors>> /\ KeepChip /\ KeepPm

HandlerStep(h) ==
  \/ GetReference(h) \/ TakeLock(h) \/ ReadStatus(h) \/ ReadTip(h) \/ StopDetect(h)
  \/ SetType(h) \/ UnmaskTip(h) \/ Relook(h) \/ Report(h) \/ MaskTip(h)
  \/ StartDetect(h) \/ Release(h)

-----------------------------------------------------------------------------
(* The PM callbacks of the codec, one at a time: mbp131_suspend(), and      *)
(* mbp131_hw_init() with the fixup that calls it. None of the resume side   *)
(* takes jack_lock.                                                         *)

KeepHda == UNCHANGED <<jack, jacks, registered, powerOn, noRpm, sleep, hdlVars, counts>>
Then(p) == pm' = p

\* The user opens a stream or a control.
Use ==
  /\ rpm = "suspended" /\ sleep = "awake" /\ ~resumeReq
  /\ resumeReq' = TRUE
  /\ UNCHANGED <<ur, rpm, drvVars, sync, pm, light>> /\ KeepChip /\ KeepHda

\* The card is registered, after the controls were built.
Register ==
  /\ ~registered /\ buildDone /\ pm = "idle"
  /\ registered' = TRUE
  /\ UNCHANGED <<jack, jacks, ur, powerOn, rpm, noRpm, resumeReq, sleep, drvVars, sync,
                 hdlVars, pm, light, counts>> /\ KeepChip

\* Idle for the autosuspend delay, a second at least: the sync work, 200 ms after
\* a resume, and a type detection are over by then, unless the core still drops
\* responses, and so is a handler that a system resume found without a reference.
RuntimeSuspend ==
  /\ rpm = "active" /\ pm = "idle" /\ sleep = "awake" /\ registered
  /\ \A h \in Handlers : ref[h] = 0
  /\ powerOn => sync = "idle" /\ ~hsRun
  /\ suspends < MaxSuspends /\ suspends' = suspends + 1
  /\ rpm' = "suspending" /\ Then("cancel")
  /\ UNCHANGED <<jack, jacks, ur, registered, powerOn, noRpm, resumeReq, sleep, drvVars,
                 sync, hdlVars, light, sleeps, errors>> /\ KeepChip

\* The sleep begins once resumes asked for are done: responses are dropped from
\* here, user space is frozen and no runtime suspend starts.
Prepare ==
  /\ sleep = "awake" /\ registered /\ pm = "idle" /\ ~resumeReq
  /\ rpm \in {"active", "suspended"}
  /\ sleeps < MaxSleeps /\ sleeps' = sleeps + 1
  /\ sleep' = "prepared" /\ powerOn' = FALSE
  /\ UNCHANGED <<jack, jacks, ur, registered, rpm, noRpm, resumeReq, drvVars, sync,
                 hdlVars, pm, light, suspends, errors>> /\ KeepChip

\* A codec in use is suspended by force, runtime PM disabled; one in standby is
\* left as it is.
ForceSuspend ==
  /\ sleep = "prepared" /\ pm = "idle"
  /\ IF rpm = "active"
       THEN /\ noRpm' = TRUE /\ rpm' = "suspending" /\ Then("cancel") /\ UNCHANGED sleep
       ELSE sleep' = "asleep" /\ UNCHANGED <<noRpm, rpm, pm>>
  /\ UNCHANGED <<jack, jacks, ur, registered, powerOn, resumeReq, drvVars, sync, hdlVars,
                 light, counts>> /\ KeepChip

\* The sleep is given up before any callback ran: power_state is not ON again.
Abort ==
  /\ Aborts /\ sleep = "prepared" /\ pm = "idle"
  /\ sleep' = "awake"
  /\ resumeReq' = (rpm = "suspended")
  /\ UNCHANGED <<jack, jacks, ur, registered, powerOn, rpm, noRpm, drvVars, sync, hdlVars,
                 pm, light, counts>> /\ KeepChip

\* cancel_delayed_work_sync() waits for the work to end.
CancelSync ==
  /\ pm = "cancel" /\ pc["sync"] = "idle"
  /\ sync' = "idle"
  /\ Then(IF powerOn THEN "standby" ELSE "down")
  /\ UNCHANGED <<ur, rpm, resumeReq, drvVars, light>> /\ KeepChip /\ KeepHda

\* mbp131_cs42l83_standby(): out of reset, the interrupts as they are.
Standby ==
  /\ pm = "standby"
  /\ suspended' = TRUE
  /\ rpm' = "suspended" /\ Then("idle")
  /\ UNCHANGED <<ur, resumeReq, fullDone, buildDone, believed, reported, sync, light>>
  /\ KeepChip /\ KeepHda

\* The chip in reset: interrupts masked, none latched, nothing running.
InReset ==
  /\ tsLatch' = FALSE /\ tsMask' = TRUE /\ hsLatch' = FALSE /\ hsMask' = TRUE
  /\ hsRun' = FALSE /\ hsType' = 0 /\ chipUp' = FALSE
  /\ ts' = IF jack = 0 THEN "unplug" ELSE "trans"
  /\ UNCHANGED responses

\* Fault: the handler in flight is not waited for.
ShutDownAtOnce ==
  /\ pm = "down"
  /\ ur' = FALSE /\ suspended' = TRUE /\ believed' = 0
  /\ InReset
  /\ rpm' = "suspended" /\ Then("idle")
  /\ sleep' = IF sleep = "prepared" THEN "asleep" ELSE sleep
  /\ UNCHANGED <<jack, jacks, registered, powerOn, noRpm, resumeReq, fullDone, buildDone,
                 reported, sync, hdlVars, light, counts>>

\* The other branch: a handler in flight finishes first, then the responses are
\* disabled and the chip put into reset.
ShutDown ==
  /\ pm = "down" /\ lock = NoHolder
  /\ ur' = FALSE /\ suspended' = TRUE /\ believed' = 0
  /\ InReset
  /\ rpm' = "suspended" /\ Then("idle")
  /\ sleep' = IF sleep = "prepared" THEN "asleep" ELSE sleep
  /\ UNCHANGED <<jack, jacks, registered, powerOn, noRpm, resumeReq, fullDone, buildDone,
                 reported, sync, hdlVars, light, counts>>

\* S3 takes the power of both chips.
LosePower ==
  /\ sleep = "asleep" /\ rpm = "suspended" /\ chipUp
  /\ InReset /\ ur' = FALSE
  /\ UNCHANGED <<rpm, resumeReq, drvVars, sync, pm, light>> /\ KeepHda

\* The system is back, the responses of meanwhile dropped. A codec that was
\* suspended by force is resumed with runtime PM still off; one that was in standby
\* is asked to resume.
Wake ==
  /\ sleep = "asleep" /\ rpm = "suspended"
  /\ responses' = 0
  /\ IF noRpm
       THEN rpm' = "resuming" /\ Then("init") /\ UNCHANGED <<resumeReq, sleep>>
       ELSE resumeReq' = TRUE /\ sleep' = "awake" /\ UNCHANGED <<rpm, pm>>
  /\ UNCHANGED <<jack, jacks, chip, ur, registered, powerOn, noRpm, drvVars, sync, hdlVars,
                 light, counts>>

RuntimeResume ==
  /\ resumeReq /\ rpm = "suspended" /\ pm = "idle" /\ sleep = "awake"
  /\ resumeReq' = FALSE
  /\ rpm' = "resuming" /\ Then("init")
  /\ UNCHANGED <<ur, drvVars, sync, light>> /\ KeepChip /\ KeepHda

\* mbp131_hw_init(): power_state ON and the registers as the standby left them let
\* it leave the standby; the rest starts from reset, with nothing known.
HwInit ==
  /\ pm = "init"
  /\ light' = (fullDone /\ powerOn /\ chipUp)
  /\ IF light' THEN /\ suspended' = FALSE /\ Then("clear") /\ KeepChip
                    /\ UNCHANGED believed
               ELSE /\ believed' = 0 /\ InReset /\ Then("bring")
                    /\ UNCHANGED suspended
  /\ UNCHANGED <<ur, rpm, resumeReq, fullDone, buildDone, reported, sync>> /\ KeepHda

\* cs42l42_resume(): out of reset, and responses allowed even in a system resume.
BringUp ==
  /\ pm = "bring"
  /\ chipUp' = TRUE /\ suspended' = FALSE /\ powerOn' = TRUE
  /\ Bits(FALSE, TRUE, FALSE, TRUE)
  /\ Then("clear")
  /\ UNCHANGED <<jack, jacks, ts, hsRun, hsType, ur, registered, rpm, noRpm, resumeReq,
                 sleep, fullDone, buildDone, believed, reported, sync, hdlVars, light,
                 counts>>

\* cs42l42_enable_jack_detect(): status cleared, then the interrupt unmasked.
Clear ==
  /\ pm = "clear"
  /\ Bits(FALSE, tsMask, hsLatch, hsMask)
  /\ Then("unmask")
  /\ UNCHANGED <<ts, hsRun, hsType, chipUp, ur, rpm, resumeReq, drvVars, sync, light>>
  /\ KeepHda

Unmask ==
  /\ pm = "unmask"
  /\ Bits(tsLatch, FALSE, hsLatch, hsMask)
  /\ Then("ur")
  /\ UNCHANGED <<ts, hsRun, hsType, chipUp, ur, rpm, resumeReq, drvVars, sync, light>>
  /\ KeepHda

\* cs8409_enable_ur(); a full init with the controls built detects the jack.
EnableUr ==
  /\ pm = "ur"
  /\ ur' = TRUE /\ fullDone' = (fullDone \/ ~light)
  /\ Then(IF light THEN "look"
          ELSE IF buildDone /\ believed = 0 THEN "detect" ELSE "finish")
  /\ UNCHANGED <<rpm, resumeReq, suspended, buildDone, believed, reported, sync, light>>
  /\ KeepChip /\ KeepHda

\* The tip sense status compared with what was known before the standby.
Look ==
  /\ pm = "look"
  /\ Bits(FALSE, tsMask, hsLatch, hsMask)
  /\ believed' = IF ts # "plug" THEN 0 ELSE believed
  /\ Then(IF believed' # believed THEN "report"
          ELSE IF ts = "plug" /\ believed = 0 THEN "detect" ELSE "finish")
  /\ UNCHANGED <<ts, hsRun, hsType, chipUp, ur, rpm, resumeReq, suspended, fullDone,
                 buildDone, reported, sync, light>> /\ KeepHda

LookFails ==
  /\ pm = "look" /\ errors < MaxErrors
  /\ errors' = errors + 1
  /\ KeepChip \/ (Bits(FALSE, tsMask, hsLatch, hsMask)
                 /\ UNCHANGED <<ts, hsRun, hsType, chipUp>>)
  /\ Then("finish")
  /\ UNCHANGED <<jack, jacks, ur, hdaVars, drvVars, sync, hdlVars, light, suspends, sleeps>>

PmReport ==
  /\ pm = "report"
  /\ reported' = believed
  /\ Then("finish")
  /\ UNCHANGED <<ur, rpm, resumeReq, suspended, fullDone, buildDone, believed, sync, light>>
  /\ KeepChip /\ KeepHda

\* cs42l42_run_jack_detect(), called without jack_lock.
PmMaskTip ==
  /\ pm = "detect"
  /\ Masked
  /\ Then("start")
  /\ UNCHANGED <<ts, hsRun, hsType, chipUp, ur, rpm, resumeReq, drvVars, sync, light>>
  /\ KeepHda

PmStartDetect ==
  /\ pm = "start"
  /\ Started
  /\ Then("finish")
  /\ UNCHANGED <<ts, hsType, chipUp, ur, rpm, resumeReq, drvVars, sync, light>> /\ KeepHda

\* HDA_FIXUP_ACT_BUILD, at the probe: a jack that was in before the controls.
Build ==
  /\ pm = "build"
  /\ buildDone' = TRUE
  /\ Then(IF believed = 0 THEN "detect" ELSE "finish")
  /\ UNCHANGED <<ur, rpm, resumeReq, suspended, fullDone, believed, reported, sync, light>>
  /\ KeepChip /\ KeepHda

\* Fault: the sync work is not armed.
FinishUnarmed ==
  /\ pm = "finish"
  /\ IF buildDone
       THEN /\ Then("idle") /\ rpm' = "active" /\ noRpm' = FALSE /\ powerOn' = TRUE
            /\ reported' = believed /\ sleep' = "awake"
       ELSE Then("build") /\ UNCHANGED <<rpm, noRpm, powerOn, reported, sleep>>
  /\ UNCHANGED <<jack, jacks, ur, registered, resumeReq, suspended, fullDone, buildDone,
                 believed, sync, hdlVars, light, counts>> /\ KeepChip

\* The sync work is armed, the core reports every jack and the codec is active.
Finish ==
  /\ pm = "finish"
  /\ sync' = "queued"
  /\ IF buildDone
       THEN /\ Then("idle") /\ rpm' = "active" /\ noRpm' = FALSE /\ powerOn' = TRUE
            /\ reported' = believed /\ sleep' = "awake"
       ELSE Then("build") /\ UNCHANGED <<rpm, noRpm, powerOn, reported, sleep>>
  /\ UNCHANGED <<jack, jacks, ur, registered, resumeReq, suspended, fullDone, buildDone,
                 believed, hdlVars, light, counts>> /\ KeepChip

Callback ==
  \/ CancelSync \/ Standby \/ ShutDown \/ HwInit \/ BringUp \/ Clear \/ Unmask \/ EnableUr
  \/ Look \/ PmReport \/ PmMaskTip \/ PmStartDetect \/ Build \/ Finish

Pm == \/ Use \/ Register \/ RuntimeSuspend \/ Prepare \/ ForceSuspend \/ Abort
      \/ LosePower \/ Wake \/ RuntimeResume \/ LookFails \/ Callback

-----------------------------------------------------------------------------
\* The probe: the codec active, the chip in reset, a jack in or not.
Init ==
  /\ jack \in {0, 1} /\ jacks = jack
  /\ ts = (IF jack = 0 THEN "unplug" ELSE "trans")
  /\ tsLatch = FALSE /\ tsMask = TRUE /\ hsLatch = FALSE /\ hsMask = TRUE
  /\ hsRun = FALSE /\ hsType = 0 /\ chipUp = FALSE
  /\ ur = FALSE /\ responses = 0 /\ registered = FALSE /\ powerOn = TRUE
  /\ rpm = "active" /\ noRpm = FALSE /\ resumeReq = FALSE
  /\ suspended = FALSE /\ fullDone = FALSE /\ buildDone = FALSE
  /\ believed = 0 /\ reported = 0 /\ sync = "idle"
  /\ lock = NoHolder /\ pc = [h \in Handlers |-> "idle"]
  /\ ref = [h \in Handlers |-> 0] /\ cdc = [h \in Handlers |-> FALSE]
  /\ pm = "init" /\ light = FALSE /\ sleep = "awake"
  /\ suspends = 0 /\ sleeps = 0 /\ errors = 0

Next ==
  \/ Chip \/ TakeResponse \/ SyncFires \/ Pm
  \/ \E h \in Handlers : HandlerStep(h) \/ ReadFails(h) \/ RelookFails(h)

Spec == Init /\ [][Next]_vars

\* Work and delays of the kernel come to an end, the mutex is fair, the chip
\* answers. Nobody need use the codec, suspend it, or move the jack; a sleep begun
\* ends.
Fairness ==
  /\ WF_vars(Debounced) /\ WF_vars(AutoDone)
  /\ SF_vars(AutoDone /\ lock = NoHolder)
  /\ WF_vars(TakeResponse) /\ WF_vars(SyncFires)
  /\ \A h \in Handlers : WF_vars(HandlerStep(h)) /\ SF_vars(TakeLock(h))
  /\ WF_vars(Callback) /\ SF_vars(ShutDown) /\ SF_vars(CancelSync)
  /\ WF_vars(Register) /\ WF_vars(RuntimeResume) /\ WF_vars(ForceSuspend) /\ WF_vars(Wake)

FairSpec == Spec /\ Fairness

-----------------------------------------------------------------------------
LatchesOK == /\ tsLatch \in BOOLEAN /\ tsMask \in BOOLEAN
             /\ hsLatch \in BOOLEAN /\ hsMask \in BOOLEAN

FlagsOK ==
  /\ hsRun \in BOOLEAN /\ chipUp \in BOOLEAN /\ ur \in BOOLEAN
  /\ registered \in BOOLEAN /\ powerOn \in BOOLEAN
  /\ noRpm \in BOOLEAN /\ resumeReq \in BOOLEAN /\ light \in BOOLEAN
  /\ suspended \in BOOLEAN /\ fullDone \in BOOLEAN /\ buildDone \in BOOLEAN

ValuesOK ==
  /\ jacks \in 0..MaxJacks \union {1} /\ jack \in {0, jacks}
  /\ ts \in {"unplug", "trans", "plug"}
  /\ hsType \in 0..jacks /\ believed \in 0..jacks /\ reported \in 0..jacks
  /\ responses \in 0..MaxResponses
  /\ rpm \in {"active", "suspending", "suspended", "resuming"}
  /\ sync \in {"idle", "queued", "running"}
  /\ lock \in Handlers \union {NoHolder}
  /\ pc \in [Handlers -> PcStates]
  /\ ref \in [Handlers -> {-1, 0, 1}] /\ cdc \in [Handlers -> BOOLEAN]
  /\ pm \in PmStates
  /\ sleep \in {"awake", "prepared", "asleep"}
  /\ suspends \in 0..MaxSuspends /\ sleeps \in 0..MaxSleeps /\ errors \in 0..MaxErrors

TypeOK == LatchesOK /\ FlagsOK /\ ValuesOK

\* Past TakeLock is who holds jack_lock, and from GetReference to Release a
\* handler has what pm_runtime_get_if_active() gave it.
LockInv == /\ \A h \in Handlers : (pc[h] \in Locked) <=> (lock = h)
           /\ \A h \in Handlers : (pc[h] \in Locked \union {"lock"}) <=> (ref[h] # 0)

\* With a reference about, the codec is active or its runtime PM off.
RefInv == \A h \in Handlers : ref[h] # 0 => rpm = "active" \/ noRpm

\* Where the PM thread is, in terms of what the core keeps.
PmInv ==
  /\ pm \in {"cancel", "standby", "down"} => rpm = "suspending"
  /\ pm \notin {"idle", "cancel", "standby", "down"} => rpm = "resuming" \/ ~registered
  /\ ~registered => rpm = "active" /\ sleep = "awake" /\ ~noRpm
  /\ noRpm => sleep # "awake"
  /\ (noRpm /\ sleep = "prepared") => pm \in {"cancel", "down"}
  /\ pm = "standby" => ~noRpm
  /\ (noRpm /\ rpm = "suspending") => ~powerOn
  /\ (sleep # "awake" /\ rpm # "resuming") => ~powerOn
  /\ rpm = "suspended" => suspended
  /\ pm \in {"init", "bring"} => (suspended \/ ~registered)

\* Nobody works on a suspended chip; one that is not suspended is out of reset.
ChipInv ==
  /\ suspended => \A h \in Handlers : pc[h] \notin Working
  /\ ~registered => \A h \in Handlers : pc[h] = "idle"
  /\ (~suspended /\ (registered \/ pm \notin {"init", "bring"})) => chipUp

\* The inductive invariant behind ChipAwake and RuntimeExclusive: what jack_lock, the
\* references and `suspended' keep between them (cs8409.c:1956-2026, 2143-2178).
IInv == TypeOK /\ LockInv /\ RefInv /\ PmInv /\ ChipInv

\* A chip is not put into reset under a handler: `let that one finish first', and a
\* later one finds it suspended (cs8409.c:1949, 2160-2171).
ChipAwake == (\E h \in Handlers : pc[h] \in Working) => chipUp

\* A runtime suspend or resume and what is between them never has a handler in its
\* I2C sequences: `Not while the codec is on its way down or up' (1963-1969).
RuntimeExclusive ==
  (~noRpm /\ rpm # "active") => \A h \in Handlers : pc[h] \notin Working

\* The line never stays low unread: with responses getting through, one is still to
\* be handled, a handler or the sync work is at it, or a resume is to come (1984-1990).
LineWatched ==
  (LineLow /\ registered /\ powerOn /\ sleep = "awake" /\ pm = "idle") =>
    \/ responses > 0 \/ sync # "idle" \/ resumeReq
    \/ \E h \in Handlers : pc[h] # "idle"

\* A jack believed in is the one that is in, or somebody is on the way to look again
\* (cs8409.c:879-892, 2113-2132). Past the begin of a system sleep this is said only of a
\* high line and a core that takes responses: the sleep, and one given up, drop them, and
\* a resume by force may leave the line low with nobody to come (the `line' run).
NoStaleJack ==
  (/\ errors = 0 /\ believed # 0 /\ believed # jack
   /\ sleeps = 0 \/ (powerOn /\ ~LineLow)) => Outstanding

\* In standby a plug or an unplug is noticed: the tip sense interrupt is unmasked, or
\* a detection that will unmask it is to be handled (cs8409.c:2059-2064).
TipSenseWatched ==
  (chipUp /\ registered /\ pm = "idle" /\ sleep = "awake" /\ rpm = "suspended") =>
    \/ ~tsMask \/ (~hsMask /\ (hsRun \/ hsLatch))
    \/ responses > 0 \/ resumeReq \/ \E h \in Handlers : pc[h] # "idle"

\* No type detection is started on a jack whose type is known: it would move the
\* headset switches under a stream that plays (cs8409.c:781-786, 2088-2091).
DetectUnknown == [][~hsRun /\ hsRun' => believed = 0]_vars

\* ALSA is told of the jack that stays in, or that none does.
JackNoticed == \A j \in 0..MaxJacks : <>[](jack = j) => <>[](reported = j)

=============================================================================
