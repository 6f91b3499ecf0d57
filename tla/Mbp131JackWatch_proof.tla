----------------------- MODULE Mbp131JackWatch_proof -----------------------
(***************************************************************************)
(* Proofs that nothing the jack does goes unseen: what becomes of the low  *)
(* interrupt line, of the masked tip sense and of a jack believed in, for  *)
(* any number of jacks, suspends, sleeps and waiting responses.            *)
(***************************************************************************)
EXTENDS Mbp131Jack_proof

-----------------------------------------------------------------------------
(* The line, while no system sleep was begun and no read failed.           *)

\* The states the theorem about the line is for.
Quiet == sleeps = 0 /\ errors = 0

\* A callback that leaves the line alone, and those before cs8409_enable_ur().
Awaiting == {"idle", "cancel", "standby"}
BeforeUr == {"init", "bring", "clear", "unmask", "ur"}
HsLow == hsLatch /\ ~hsMask

\* No system sleep leaves its traces.
AwakeInv == sleep = "awake" /\ powerOn /\ ~noRpm /\ pm # "down"

\* The probe builds the controls before the card is registered.
BuiltInv ==
  /\ (registered \/ pm \notin BeforeUr \union {"finish", "build"} \/ light \/ hsRun)
       => buildDone
  /\ (~buildDone /\ pm \in BeforeUr) => ~fullDone

\* Responses come but in a resume, and a chip out of standby is not suspended.
PlaceInv ==
  /\ pm \notin BeforeUr => ur
  /\ pm \in Awaiting => rpm # "resuming"
  /\ suspended => rpm = "suspended" \/ (rpm = "resuming" /\ pm \in {"init", "bring"})

\* A detection runs with the tip sense masked, in an active codec.
DetectInv ==
  /\ hsRun => /\ tsMask /\ pm \in {"idle", "finish"} /\ rpm \notin {"suspended", "suspending"}
              /\ \A h \in Handlers : pc[h] \notin {"type", "unmask"}
  /\ (pm = "start" \/ \E h \in Handlers : pc[h] = "start") => tsMask

\* The sync work lives while the codec is active, and waits for the registration.
SyncInv ==
  /\ pc["sync"] # "idle" => sync # "idle"
  /\ rpm # "active" => sync = "idle"
  /\ (~registered /\ pm = "idle") => sync = "queued"

\* What keeps a low line from being forgotten: a handler still to read the latches,
\* past CODEC_STATUS only when that is not what holds the line.
LineInv ==
  (pm \in Awaiting /\ LineLow) =>
    \/ responses > 0 \/ sync = "queued" \/ resumeReq
    \/ \E h \in Handlers : pc[h] \in {"entered", "lock", "status"}
    \/ ~HsLow /\ \E h \in Handlers : pc[h] = "tip"

WatchInv == AwakeInv /\ BuiltInv /\ PlaceInv /\ DetectInv /\ SyncInv /\ LineInv

\* At the probe the chip is in reset and the line high.
LEMMA WatchInit == Init => WatchInv
<1> SUFFICES ASSUME Init PROVE WatchInv
  OBVIOUS
<1>1. AwakeInv /\ BuiltInv /\ PlaceInv
  BY DEF Init, AwakeInv, BuiltInv, PlaceInv, BeforeUr, Awaiting
<1>2. DetectInv /\ SyncInv /\ LineInv
  BY DEF Init, DetectInv, SyncInv, LineInv, LineLow, Low, Handlers, Awaiting
<1> QED
  BY <1>1, <1>2 DEF WatchInv

\* A handler that has its reference works in an active codec, with no callback.
LEMMA WorkerActive ==
  ASSUME IInv, ~noRpm, PlaceInv, NEW h \in Handlers, pc[h] \in Locked \union {"lock"}
  PROVE  /\ registered /\ rpm = "active" /\ pm = "idle" /\ ~suspended
         /\ pc[h] \in Locked => \A g \in Handlers : g # h => pc[g] \notin Locked
BY DEF IInv, LockInv, RefInv, PmInv, ChipInv, TypeOK, ValuesOK, PlaceInv, Locked, PcStates,
       PmStates, Handlers

\* A falling edge leaves a response waiting once they are enabled.
LEMMA EdgeResponds ==
  ASSUME TypeOK, NEW tl \in BOOLEAN, NEW tm \in BOOLEAN, NEW hl \in BOOLEAN,
         NEW hm \in BOOLEAN, Bits(tl, tm, hl, hm)
  PROVE  /\ responses' \in Nat
         /\ responses' >= responses
         /\ (ur /\ ~LineLow /\ LineLow') => responses' > 0
         /\ responses' = IF ur /\ ~LineLow /\ Low(tl, tm, hl, hm) /\ responses < MaxResponses
                           THEN responses + 1 ELSE responses
BY JackAssumption DEF TypeOK, ValuesOK, Bits, LineLow, Low

\* The hardware: a plug, an unplug or a result pulls a high line low, which responds.
LEMMA ChipWatch ==
  ASSUME IInv, WatchInv, Chip
  PROVE  WatchInv'
<1> USE DEF WatchInv
<1>1. /\ UNCHANGED <<ur, hdaVars, drvVars, sync, hdlVars, pm, light, counts, tsMask, hsMask>>
      /\ hsRun' => hsRun
  <2> USE DEF NoEvent, Sense, Bits
  <2>1. CASE Insert
    BY <2>1, Zenon DEF Insert
  <2>2. CASE Debounced
    BY <2>2, Zenon DEF Debounced
  <2>3. CASE Pull
    BY <2>3, Zenon DEF Pull
  <2>4. CASE AutoDone
    BY <2>4, Zenon DEF AutoDone
  <2> QED
    BY <2>1, <2>2, <2>3, <2>4 DEF Chip
<1>2. AwakeInv' /\ BuiltInv' /\ PlaceInv' /\ DetectInv' /\ SyncInv'
  BY <1>1 DEF AwakeInv, BuiltInv, PlaceInv, DetectInv, SyncInv, hdaVars, drvVars, hdlVars
<1>3. (UNCHANGED <<tsLatch, hsLatch, responses>>)
        \/ (Bits(TRUE, tsMask, hsLatch, hsMask))
        \/ (hsRun /\ Bits(tsLatch, tsMask, TRUE, hsMask))
  BY DEF Chip, Insert, Debounced, Pull, AutoDone, Sense
<1>4. LineInv'
  <2> USE DEF hdaVars, hdlVars
  <2> SUFFICES ASSUME pm \in Awaiting, LineLow' PROVE LineInv'
    BY <1>1 DEF LineInv
  <2>1. CASE UNCHANGED <<tsLatch, hsLatch, responses>>
    BY <2>1, <1>1 DEF LineInv, LineLow, Low, HsLow
  <2>2. CASE Bits(TRUE, tsMask, hsLatch, hsMask)
    <3>1. CASE LineLow
      BY <1>1, <2>2, <3>1, EdgeResponds DEF IInv, TypeOK, LatchesOK, ValuesOK, LineInv, HsLow,
         Bits
    <3>2. CASE ~LineLow
      BY <1>1, <2>2, <3>2, EdgeResponds
         DEF IInv, TypeOK, LatchesOK, PlaceInv, LineInv, Awaiting, BeforeUr
    <3> QED
      BY <3>1, <3>2
  <2>3. CASE hsRun /\ Bits(tsLatch, tsMask, TRUE, hsMask)
    <3>1. CASE LineLow
      BY <1>1, <2>3, <3>1, EdgeResponds
         DEF IInv, TypeOK, LatchesOK, ValuesOK, DetectInv, LineInv, HsLow, Bits, LineLow, Low
    <3>2. CASE ~LineLow
      BY <1>1, <2>3, <3>2, EdgeResponds
         DEF IInv, TypeOK, LatchesOK, PlaceInv, LineInv, Awaiting, BeforeUr
    <3> QED
      BY <3>1, <3>2
  <2> QED
    BY <1>3, <2>1, <2>2, <2>3
<1> QED
  BY <1>2, <1>4

\* What the PM callbacks and the core keep, a handler leaves alone.
LEMMA HandlerKeepsPm ==
  ASSUME NEW h \in Handlers, HandlerStep(h)
  PROVE  KeepPm
<1> USE DEF KeepJack
<1>1. GetReference(h) \/ TakeLock(h) \/ ReadStatus(h) \/ ReadTip(h) => KeepPm
  BY Zenon DEF GetReference, TakeLock, ReadStatus, ReadTip
<1>2. StopDetect(h) \/ SetType(h) \/ UnmaskTip(h) \/ Relook(h) => KeepPm
  BY Zenon DEF StopDetect, SetType, UnmaskTip, Relook
<1>3. Report(h) \/ MaskTip(h) \/ StartDetect(h) \/ Release(h) => KeepPm
  BY Zenon DEF Report, MaskTip, StartDetect, Release
<1> QED
  BY <1>1, <1>2, <1>3, Zenon DEF HandlerStep

\* Bits with its values: what SMT needs of it.
LEMMA BitsFacts ==
  ASSUME TypeOK, NEW tl \in BOOLEAN, NEW tm \in BOOLEAN, NEW hl \in BOOLEAN,
         NEW hm \in BOOLEAN, Bits(tl, tm, hl, hm)
  PROVE  /\ tsLatch' = tl /\ tsMask' = tm /\ hsLatch' = hl /\ hsMask' = hm
         /\ LineLow' = Low(tl, tm, hl, hm)
         /\ HsLow' = (hl /\ ~hm)
BY DEF Bits, LineLow, Low, HsLow

\* Past CODEC_STATUS, what else watched the line still does, and a new edge responds.
LEMMA LineKept ==
  ASSUME TypeOK, TypeOK', LineInv, NEW h \in Handlers, NEW l, Goto(h, l),
         pc[h] \notin {"entered", "lock", "status"},
         \A g \in Handlers : g # h => pc[g] # "tip",
         UNCHANGED <<pm, resumeReq>>, sync' = sync \/ sync # "queued",
         responses' >= responses,
         (pm \in Awaiting /\ LineLow') => responses' > 0 \/ (LineLow /\ (pc[h] = "tip" => HsLow))
  PROVE  LineInv'
<1> SUFFICES ASSUME pm \in Awaiting, LineLow', ~(responses' > 0)
             PROVE  \/ sync' = "queued" \/ resumeReq'
                    \/ \E g \in Handlers : pc'[g] \in {"entered", "lock", "status"}
  BY DEF LineInv
<1>1. ~(responses > 0)
  BY DEF TypeOK, ValuesOK
<1>2. \A g \in Handlers : g # h => pc'[g] = pc[g]
  BY DEF TypeOK, ValuesOK, Goto
<1> QED
  BY <1>1, <1>2 DEF LineInv

\* The handler and the sync work: whoever reads a latch has seen what held the line.
LEMMA HandlerWatch ==
  ASSUME IInv, WatchInv, NEW h \in Handlers, HandlerStep(h), IInv'
  PROVE  WatchInv'
<1> USE DEF WatchInv, Goto
<1>1. KeepPm
  BY HandlerKeepsPm
<1>2. TypeOK /\ ValuesOK /\ LatchesOK /\ FlagsOK /\ pc \in [Handlers -> PcStates]
  BY DEF IInv, TypeOK, ValuesOK
<1>3. AwakeInv' /\ PlaceInv'
  BY <1>1 DEF AwakeInv, PlaceInv, KeepPm
<1>4. pc[h] \in Locked \union {"lock"} =>
        /\ registered /\ rpm = "active" /\ pm = "idle" /\ ~suspended
        /\ pc[h] \in Locked => \A g \in Handlers : g # h => pc[g] \notin Locked
  BY WorkerActive DEF AwakeInv
<1>5. (hsRun' => hsRun \/ pc[h] \in Locked) => BuiltInv'
  BY <1>1, <1>4 DEF BuiltInv, KeepPm
<1> HIDE DEF WatchInv
<1>6. CASE GetReference(h)
  <2>1. /\ UNCHANGED <<chip, responses>>
    BY <1>6 DEF GetReference, KeepChip
  <2>2. BuiltInv'
    BY <1>5, <2>1 DEF chip
  <2>3. DetectInv'
    BY <1>1, <1>2, <1>6, <2>1 DEF GetReference, DetectInv, chip, KeepPm, WatchInv
  <2>4. SyncInv'
    BY <1>1, <1>2, <1>6 DEF GetReference, SyncInv, KeepPm, WatchInv, Active, Handlers
  <2>5. LineInv'
    BY <1>1, <1>2, <1>6, <2>1
       DEF GetReference, LineInv, LineLow, HsLow, chip, KeepPm, WatchInv, SyncInv, PlaceInv,
           Active, Handlers, Awaiting, AwakeInv
  <2> QED
    BY <1>3, <2>2, <2>3, <2>4, <2>5 DEF WatchInv
<1>7. CASE TakeLock(h)
  <2>1. /\ UNCHANGED <<chip, responses>>
    BY <1>7 DEF TakeLock, KeepChip
  <2>2. BuiltInv'
    BY <1>5, <2>1 DEF chip
  <2>3. DetectInv'
    BY <1>1, <1>2, <1>7, <2>1 DEF TakeLock, DetectInv, chip, KeepPm, WatchInv
  <2>4. SyncInv'
    BY <1>1, <1>2, <1>7 DEF TakeLock, SyncInv, KeepPm, WatchInv, Handlers
  <2>5. LineInv'
    BY <1>1, <1>2, <1>4, <1>7, <2>1
       DEF TakeLock, LineInv, LineLow, HsLow, chip, KeepPm, WatchInv, Handlers
  <2> QED
    BY <1>3, <2>2, <2>3, <2>4, <2>5 DEF WatchInv
<1>8. CASE ReadStatus(h)
  <2>1. /\ UNCHANGED <<hsRun, tsMask, hsMask, tsLatch>> /\ ~hsLatch' /\ ~HsLow'
    BY <1>2, <1>8, BitsFacts, Zenon DEF ReadStatus, LatchesOK, Bits, HsLow
  <2>2. BuiltInv'
    BY <1>5, <2>1
  <2>3. DetectInv'
    BY <1>1, <1>2, <1>8, <2>1 DEF ReadStatus, DetectInv, KeepPm, WatchInv
  <2>4. SyncInv'
    BY <1>1, <1>2, <1>8 DEF ReadStatus, SyncInv, KeepPm, KeepJack, WatchInv, Handlers
  <2>5. LineInv'
    BY <1>1, <1>2, <1>8, <2>1 DEF ReadStatus, LineInv, WatchInv
  <2> QED
    BY <1>3, <2>2, <2>3, <2>4, <2>5 DEF WatchInv
<1>9. CASE ReadTip(h)
  <2>1. /\ UNCHANGED <<hsRun, tsMask, hsMask, hsLatch>> /\ ~tsLatch'
        /\ responses' >= responses
    BY <1>2, <1>9, EdgeResponds, Zenon DEF ReadTip, LatchesOK, Bits
  <2>2. BuiltInv'
    BY <1>5, <2>1
  <2>3. DetectInv'
    BY <1>1, <1>2, <1>9, <2>1 DEF ReadTip, DetectInv, KeepPm, WatchInv
  <2>4. SyncInv'
    BY <1>1, <1>2, <1>9 DEF ReadTip, SyncInv, KeepPm, WatchInv, Handlers
  <2>5. LineLow' => LineLow /\ HsLow
    BY <2>1 DEF LineLow, Low, HsLow
  <2>6. LineInv'
    BY <1>1, <1>2, <1>4, <1>9, <2>1, <2>5, LineKept
       DEF ReadTip, WatchInv, KeepPm, Locked, PcStates, IInv
  <2> QED
    BY <1>3, <2>2, <2>3, <2>4, <2>6 DEF WatchInv
<1>10. CASE StopDetect(h)
  <2>1. ~hsRun' /\ UNCHANGED tsMask
    BY <1>2, <1>10, BitsFacts, Zenon DEF StopDetect, LatchesOK, Bits, KeepChip, chip
  <2>2. responses' >= responses /\ (ur /\ ~LineLow /\ LineLow' => responses' > 0)
    BY <1>2, <1>10, EdgeResponds DEF StopDetect, LatchesOK, ValuesOK, KeepChip, chip, LineLow
  <2>3. BuiltInv'
    BY <1>5, <1>10, <2>1 DEF StopDetect, Locked, PcStates
  <2>4. DetectInv'
    BY <1>1, <1>2, <1>4, <1>10, <2>1 DEF StopDetect, DetectInv, KeepPm, WatchInv, Locked, PcStates
  <2>5. SyncInv'
    BY <1>1, <1>2, <1>10 DEF StopDetect, SyncInv, KeepPm, KeepJack, WatchInv, Handlers
  <2>6. LineInv'
    BY <1>1, <1>2, <1>4, <1>10, <2>2, LineKept
       DEF StopDetect, KeepPm, KeepJack, WatchInv, Locked, PcStates, IInv, PlaceInv, BeforeUr, Awaiting
  <2> QED
    BY <1>3, <2>3, <2>4, <2>5, <2>6 DEF WatchInv
<1>11. CASE SetType(h)
  <2>1. UNCHANGED chip
    BY <1>2, <1>11, BitsFacts, Zenon DEF SetType, LatchesOK, Bits, KeepChip, chip
  <2>2. responses' >= responses /\ (ur /\ ~LineLow /\ LineLow' => responses' > 0)
    BY <1>2, <1>11, EdgeResponds DEF SetType, LatchesOK, ValuesOK, KeepChip, chip, LineLow
  <2>3. BuiltInv'
    BY <1>5, <1>11, <2>1 DEF chip, SetType, Locked, PcStates
  <2>4. DetectInv'
    BY <1>1, <1>2, <1>4, <1>11, <2>1 DEF chip, SetType, DetectInv, KeepPm, WatchInv, Locked,
       PcStates
  <2>5. SyncInv'
    BY <1>1, <1>2, <1>11 DEF SetType, SyncInv, KeepPm, KeepJack, WatchInv, Handlers
  <2>6. LineInv'
    BY <1>1, <1>2, <1>4, <1>11, <2>2, LineKept
       DEF SetType, KeepPm, KeepJack, WatchInv, Locked, PcStates, IInv, PlaceInv, BeforeUr, Awaiting
  <2> QED
    BY <1>3, <2>3, <2>4, <2>5, <2>6 DEF WatchInv
<1>12. CASE UnmaskTip(h)
  <2>1. UNCHANGED hsRun
    BY <1>2, <1>12, BitsFacts, Zenon DEF UnmaskTip, LatchesOK, Bits, KeepChip, chip
  <2>2. responses' >= responses /\ (ur /\ ~LineLow /\ LineLow' => responses' > 0)
    BY <1>2, <1>12, EdgeResponds DEF UnmaskTip, LatchesOK, ValuesOK, KeepChip, chip, LineLow
  <2>3. BuiltInv'
    BY <1>5, <1>12, <2>1 DEF UnmaskTip, Locked, PcStates
  <2>4. DetectInv'
    BY <1>1, <1>2, <1>4, <1>12, <2>1 DEF UnmaskTip, DetectInv, KeepPm, WatchInv, Locked, PcStates
  <2>5. SyncInv'
    BY <1>1, <1>2, <1>12 DEF UnmaskTip, SyncInv, KeepPm, KeepJack, WatchInv, Handlers
  <2>6. LineInv'
    BY <1>1, <1>2, <1>4, <1>12, <2>2, LineKept
       DEF UnmaskTip, KeepPm, KeepJack, WatchInv, Locked, PcStates, IInv, PlaceInv, BeforeUr, Awaiting
  <2> QED
    BY <1>3, <2>3, <2>4, <2>5, <2>6 DEF WatchInv
<1>13. CASE Relook(h)
  <2>1. UNCHANGED <<hsRun, tsMask>>
    BY <1>2, <1>13, BitsFacts, Zenon DEF Relook, LatchesOK, Bits, KeepChip, chip
  <2>2. responses' >= responses /\ (ur /\ ~LineLow /\ LineLow' => responses' > 0)
    BY <1>2, <1>13, EdgeResponds DEF Relook, LatchesOK, ValuesOK, KeepChip, chip, LineLow
  <2>3. BuiltInv'
    BY <1>5, <1>13, <2>1 DEF Relook, Locked, PcStates
  <2>4. DetectInv'
    BY <1>1, <1>2, <1>4, <1>13, <2>1 DEF Relook, DetectInv, KeepPm, WatchInv, Locked, PcStates
  <2>5. SyncInv'
    BY <1>1, <1>2, <1>13 DEF Relook, SyncInv, KeepPm, KeepJack, WatchInv, Handlers
  <2>6. LineInv'
    BY <1>1, <1>2, <1>4, <1>13, <2>2, LineKept
       DEF Relook, KeepPm, KeepJack, WatchInv, Locked, PcStates, IInv, PlaceInv, BeforeUr, Awaiting
  <2> QED
    BY <1>3, <2>3, <2>4, <2>5, <2>6 DEF WatchInv
<1>14. CASE Report(h)
  <2>1. UNCHANGED chip
    BY <1>2, <1>14, BitsFacts, Zenon DEF Report, LatchesOK, Bits, KeepChip, chip
  <2>2. responses' >= responses /\ (ur /\ ~LineLow /\ LineLow' => responses' > 0)
    BY <1>2, <1>14, EdgeResponds DEF Report, LatchesOK, ValuesOK, KeepChip, chip, LineLow
  <2>3. BuiltInv'
    BY <1>5, <1>14, <2>1 DEF chip, Report, Locked, PcStates
  <2>4. DetectInv'
    BY <1>1, <1>2, <1>4, <1>14, <2>1 DEF chip, Report, DetectInv, KeepPm, WatchInv, Locked,
       PcStates
  <2>5. SyncInv'
    BY <1>1, <1>2, <1>14 DEF Report, SyncInv, KeepPm, KeepJack, WatchInv, Handlers
  <2>6. LineInv'
    BY <1>1, <1>2, <1>4, <1>14, <2>2, LineKept
       DEF Report, KeepPm, KeepJack, WatchInv, Locked, PcStates, IInv, PlaceInv, BeforeUr, Awaiting
  <2> QED
    BY <1>3, <2>3, <2>4, <2>5, <2>6 DEF WatchInv
<1>15. CASE MaskTip(h)
  <2>1. UNCHANGED hsRun /\ tsMask'
    BY <1>2, <1>15, BitsFacts, Zenon DEF MaskTip, LatchesOK, Bits, KeepChip, chip, Masked
  <2>2. responses' >= responses /\ (ur /\ ~LineLow /\ LineLow' => responses' > 0)
    BY <1>2, <1>15, EdgeResponds DEF MaskTip, LatchesOK, ValuesOK, KeepChip, chip, LineLow, Masked
  <2>3. BuiltInv'
    BY <1>5, <1>15, <2>1 DEF MaskTip, Locked, PcStates
  <2>4. DetectInv'
    BY <1>1, <1>2, <1>4, <1>15, <2>1 DEF MaskTip, DetectInv, KeepPm, WatchInv, Locked, PcStates
  <2>5. SyncInv'
    BY <1>1, <1>2, <1>15 DEF MaskTip, SyncInv, KeepPm, KeepJack, WatchInv, Handlers
  <2>6. LineInv'
    BY <1>1, <1>2, <1>4, <1>15, <2>2, LineKept
       DEF MaskTip, KeepPm, KeepJack, WatchInv, Locked, PcStates, IInv, PlaceInv, BeforeUr, Awaiting
  <2> QED
    BY <1>3, <2>3, <2>4, <2>5, <2>6 DEF WatchInv
<1>16. CASE StartDetect(h)
  <2>1. hsRun' /\ UNCHANGED tsMask
    BY <1>2, <1>16, BitsFacts, Zenon DEF StartDetect, LatchesOK, Bits, KeepChip, chip, Started
  <2>2. responses' >= responses /\ (ur /\ ~LineLow /\ LineLow' => responses' > 0)
    BY <1>2, <1>16, EdgeResponds DEF StartDetect, LatchesOK, ValuesOK, KeepChip, chip, LineLow,
       Started
  <2>3. BuiltInv'
    BY <1>5, <1>16, <2>1 DEF StartDetect, Locked, PcStates
  <2>4. DetectInv'
    BY <1>1, <1>2, <1>4, <1>16, <2>1 DEF StartDetect, DetectInv, KeepPm, WatchInv, Locked,
       PcStates
  <2>5. SyncInv'
    BY <1>1, <1>2, <1>16 DEF StartDetect, SyncInv, KeepPm, KeepJack, WatchInv, Handlers
  <2>6. LineInv'
    BY <1>1, <1>2, <1>4, <1>16, <2>2, LineKept
       DEF StartDetect, KeepPm, KeepJack, WatchInv, Locked, PcStates, IInv, PlaceInv, BeforeUr, Awaiting
  <2> QED
    BY <1>3, <2>3, <2>4, <2>5, <2>6 DEF WatchInv
<1>17. CASE Release(h)
  <2>1. UNCHANGED chip
    BY <1>2, <1>17, BitsFacts, Zenon DEF Release, LatchesOK, Bits, KeepChip, chip
  <2>2. responses' >= responses /\ (ur /\ ~LineLow /\ LineLow' => responses' > 0)
    BY <1>2, <1>17, EdgeResponds DEF Release, LatchesOK, ValuesOK, KeepChip, chip, LineLow
  <2>3. BuiltInv'
    BY <1>5, <1>17, <2>1 DEF chip, Release, Locked, PcStates
  <2>4. DetectInv'
    BY <1>1, <1>2, <1>4, <1>17, <2>1 DEF chip, Release, DetectInv, KeepPm, WatchInv, Locked,
       PcStates
  <2>5. SyncInv'
    BY <1>1, <1>2, <1>17 DEF Release, SyncInv, KeepPm, KeepJack, WatchInv, Handlers
  <2>6. LineInv'
    BY <1>1, <1>2, <1>4, <1>17, <2>2, LineKept
       DEF Release, KeepPm, KeepJack, WatchInv, Locked, PcStates, IInv, PlaceInv, BeforeUr, Awaiting
  <2> QED
    BY <1>3, <2>3, <2>4, <2>5, <2>6 DEF WatchInv
<1> QED
  BY <1>6, <1>7, <1>8, <1>9, <1>10, <1>11, <1>12, <1>13, <1>14, <1>15, <1>16, <1>17, Zenon
     DEF HandlerStep

\* A response taken, or the delay of the work over, is a handler that will look.
LEMMA EntryWatch ==
  ASSUME IInv, WatchInv, TakeResponse \/ SyncFires
  PROVE  WatchInv'
<1> USE DEF WatchInv, Goto
<1>1. TypeOK /\ ValuesOK /\ pc \in [Handlers -> PcStates]
  BY DEF IInv, TypeOK, ValuesOK
<1>2. UNCHANGED chip /\ KeepPm
  BY DEF TakeResponse, SyncFires, KeepChip
<1>3. AwakeInv' /\ BuiltInv' /\ PlaceInv'
  BY <1>2 DEF AwakeInv, BuiltInv, PlaceInv, KeepPm, chip
<1>4. DetectInv'
  BY <1>1, <1>2 DEF TakeResponse, SyncFires, DetectInv, KeepPm, chip
<1>5. SyncInv'
  BY <1>1, <1>2 DEF TakeResponse, SyncFires, SyncInv, KeepPm, Handlers
<1>6. LineInv'
  BY <1>1, <1>2
     DEF TakeResponse, SyncFires, KeepChip, LineInv, LineLow, HsLow, KeepPm, chip, Handlers,
         IInv, PmInv, SyncInv, AwakeInv, Awaiting
<1> QED
  BY <1>3, <1>4, <1>5, <1>6

\* A failed read or a sleep shows in the counts.
LEMMA CountsShow ==
  TypeOK => (errors' = errors + 1 => errors' # 0) /\ (sleeps' = sleeps + 1 => sleeps' # 0)
BY JackAssumption DEF TypeOK, ValuesOK

\* The callbacks of a codec that never slept: none but RuntimeSuspend and the work's
\* cancellation could lose a low line, and the work is idle before they start.
LEMMA PmWatch ==
  ASSUME IInv, WatchInv, Pm, Quiet'
  PROVE  WatchInv'
<1> USE DEF WatchInv, IInv, TypeOK
<1>1. UNCHANGED <<lock, pc, ref>>
  BY PmFrame
<1>a. pm # "idle" => \A h \in Handlers : pc[h] \notin {"type", "unmask", "start"}
  BY WorkerActive DEF Locked, PcStates, AwakeInv
<1>2. CASE Use
  <2> USE <1>2, <1>1 DEF Use, Then, KeepHda, KeepChip, chip, hdaVars, drvVars, hdlVars
  <2>1. AwakeInv' /\ BuiltInv'
    BY DEF AwakeInv, BuiltInv, BeforeUr, PmInv
  <2>2. PlaceInv' /\ SyncInv'
    BY DEF AwakeInv, PlaceInv, SyncInv, PmInv, BeforeUr, Awaiting, ValuesOK
  <2>3. DetectInv'
    BY <1>a, BitsFacts DEF DetectInv, PmInv, AwakeInv, BuiltInv, ValuesOK, LatchesOK
  <2>4. LineInv'
    BY EdgeResponds DEF LineInv, LineLow, Low, HsLow, SyncInv, PmInv, Awaiting, ValuesOK,
       LatchesOK
  <2> QED
    BY <2>1, <2>2, <2>3, <2>4
<1>3. CASE Register
  <2> USE <1>3, <1>1 DEF Register, Then, KeepHda, KeepChip, chip, hdaVars, drvVars, hdlVars
  <2>1. AwakeInv' /\ BuiltInv'
    BY DEF AwakeInv, BuiltInv, BeforeUr, PmInv
  <2>2. PlaceInv' /\ SyncInv'
    BY DEF AwakeInv, PlaceInv, SyncInv, PmInv, BeforeUr, Awaiting, ValuesOK
  <2>3. DetectInv'
    BY <1>a, BitsFacts DEF DetectInv, PmInv, AwakeInv, BuiltInv, ValuesOK, LatchesOK
  <2>4. LineInv'
    BY EdgeResponds DEF LineInv, LineLow, Low, HsLow, SyncInv, PmInv, Awaiting, ValuesOK,
       LatchesOK
  <2> QED
    BY <2>1, <2>2, <2>3, <2>4
<1>4. CASE RuntimeSuspend
  <2> USE <1>4, <1>1 DEF RuntimeSuspend, Then, KeepHda, KeepChip, chip, hdaVars, drvVars, hdlVars
  <2>1. AwakeInv' /\ BuiltInv'
    BY DEF AwakeInv, BuiltInv, BeforeUr, PmInv
  <2>2. PlaceInv' /\ SyncInv'
    BY DEF AwakeInv, PlaceInv, SyncInv, PmInv, BeforeUr, Awaiting, ValuesOK
  <2>3. DetectInv'
    BY <1>a, BitsFacts DEF DetectInv, PmInv, AwakeInv, BuiltInv, ValuesOK, LatchesOK
  <2>4. LineInv'
    BY EdgeResponds DEF LineInv, LineLow, Low, HsLow, SyncInv, PmInv, Awaiting, ValuesOK,
       LatchesOK
  <2> QED
    BY <2>1, <2>2, <2>3, <2>4
<1>5. CASE RuntimeResume
  <2> USE <1>5, <1>1 DEF RuntimeResume, Then, KeepHda, KeepChip, chip, hdaVars, drvVars, hdlVars
  <2>1. AwakeInv' /\ BuiltInv'
    BY DEF AwakeInv, BuiltInv, BeforeUr, PmInv
  <2>2. PlaceInv' /\ SyncInv'
    BY DEF AwakeInv, PlaceInv, SyncInv, PmInv, BeforeUr, Awaiting, ValuesOK
  <2>3. DetectInv'
    BY <1>a, BitsFacts DEF DetectInv, PmInv, AwakeInv, BuiltInv, ValuesOK, LatchesOK
  <2>4. LineInv'
    BY EdgeResponds DEF LineInv, LineLow, Low, HsLow, SyncInv, PmInv, Awaiting, ValuesOK,
       LatchesOK
  <2> QED
    BY <2>1, <2>2, <2>3, <2>4
<1>6. CASE CancelSync
  <2> USE <1>6, <1>1 DEF CancelSync, Then, KeepHda, KeepChip, chip, hdaVars, drvVars, hdlVars
  <2>1. AwakeInv' /\ BuiltInv'
    BY DEF AwakeInv, BuiltInv, BeforeUr, PmInv
  <2>2. PlaceInv' /\ SyncInv'
    BY DEF AwakeInv, PlaceInv, SyncInv, PmInv, BeforeUr, Awaiting, ValuesOK
  <2>3. DetectInv'
    BY <1>a, BitsFacts DEF DetectInv, PmInv, AwakeInv, BuiltInv, ValuesOK, LatchesOK
  <2>4. LineInv'
    BY EdgeResponds DEF LineInv, LineLow, Low, HsLow, SyncInv, PmInv, Awaiting, ValuesOK,
       LatchesOK
  <2> QED
    BY <2>1, <2>2, <2>3, <2>4
<1>7. CASE Standby
  <2> USE <1>7, <1>1 DEF Standby, Then, KeepHda, KeepChip, chip, hdaVars, drvVars, hdlVars
  <2>1. AwakeInv' /\ BuiltInv'
    BY DEF AwakeInv, BuiltInv, BeforeUr, PmInv
  <2>2. PlaceInv' /\ SyncInv'
    BY DEF AwakeInv, PlaceInv, SyncInv, PmInv, BeforeUr, Awaiting, ValuesOK
  <2>3. DetectInv'
    BY <1>a, BitsFacts DEF DetectInv, PmInv, AwakeInv, BuiltInv, ValuesOK, LatchesOK
  <2>4. LineInv'
    BY EdgeResponds DEF LineInv, LineLow, Low, HsLow, SyncInv, PmInv, Awaiting, ValuesOK,
       LatchesOK
  <2> QED
    BY <2>1, <2>2, <2>3, <2>4
<1>8. CASE HwInit
  <2> USE <1>8, <1>1 DEF HwInit, Then, KeepHda, KeepChip, chip, hdaVars, drvVars, hdlVars, InReset
  <2>1. AwakeInv' /\ BuiltInv'
    BY DEF AwakeInv, BuiltInv, BeforeUr, PmInv
  <2>2. PlaceInv' /\ SyncInv'
    BY DEF AwakeInv, PlaceInv, SyncInv, PmInv, BeforeUr, Awaiting, ValuesOK
  <2>3. DetectInv'
    BY <1>a, BitsFacts DEF DetectInv, PmInv, AwakeInv, BuiltInv, ValuesOK, LatchesOK
  <2>4. LineInv'
    BY EdgeResponds DEF LineInv, LineLow, Low, HsLow, SyncInv, PmInv, Awaiting, ValuesOK,
       LatchesOK
  <2> QED
    BY <2>1, <2>2, <2>3, <2>4
<1>9. CASE BringUp
  <2> USE <1>9, <1>1 DEF BringUp, Then, KeepHda, KeepChip, chip, hdaVars, drvVars, hdlVars
  <2>1. AwakeInv' /\ BuiltInv'
    BY DEF AwakeInv, BuiltInv, BeforeUr, PmInv
  <2>2. PlaceInv' /\ SyncInv'
    BY DEF AwakeInv, PlaceInv, SyncInv, PmInv, BeforeUr, Awaiting, ValuesOK
  <2>3. DetectInv'
    BY <1>a, BitsFacts DEF DetectInv, PmInv, AwakeInv, BuiltInv, ValuesOK, LatchesOK
  <2>4. LineInv'
    BY EdgeResponds DEF LineInv, LineLow, Low, HsLow, SyncInv, PmInv, Awaiting, ValuesOK,
       LatchesOK
  <2> QED
    BY <2>1, <2>2, <2>3, <2>4
<1>10. CASE Clear
  <2> USE <1>10, <1>1 DEF Clear, Then, KeepHda, KeepChip, chip, hdaVars, drvVars, hdlVars
  <2>1. AwakeInv' /\ BuiltInv'
    BY DEF AwakeInv, BuiltInv, BeforeUr, PmInv
  <2>2. PlaceInv' /\ SyncInv'
    BY DEF AwakeInv, PlaceInv, SyncInv, PmInv, BeforeUr, Awaiting, ValuesOK
  <2>3. DetectInv'
    BY <1>a, BitsFacts DEF DetectInv, PmInv, AwakeInv, BuiltInv, ValuesOK, LatchesOK
  <2>4. LineInv'
    BY EdgeResponds DEF LineInv, LineLow, Low, HsLow, SyncInv, PmInv, Awaiting, ValuesOK,
       LatchesOK
  <2> QED
    BY <2>1, <2>2, <2>3, <2>4
<1>11. CASE Unmask
  <2> USE <1>11, <1>1 DEF Unmask, Then, KeepHda, KeepChip, chip, hdaVars, drvVars, hdlVars
  <2>1. AwakeInv' /\ BuiltInv'
    BY DEF AwakeInv, BuiltInv, BeforeUr, PmInv
  <2>2. PlaceInv' /\ SyncInv'
    BY DEF AwakeInv, PlaceInv, SyncInv, PmInv, BeforeUr, Awaiting, ValuesOK
  <2>3. DetectInv'
    BY <1>a, BitsFacts DEF DetectInv, PmInv, AwakeInv, BuiltInv, ValuesOK, LatchesOK
  <2>4. LineInv'
    BY EdgeResponds DEF LineInv, LineLow, Low, HsLow, SyncInv, PmInv, Awaiting, ValuesOK,
       LatchesOK
  <2> QED
    BY <2>1, <2>2, <2>3, <2>4
<1>12. CASE EnableUr
  <2> USE <1>12, <1>1 DEF EnableUr, Then, KeepHda, KeepChip, chip, hdaVars, drvVars, hdlVars
  <2>1. AwakeInv' /\ BuiltInv'
    BY DEF AwakeInv, BuiltInv, BeforeUr, PmInv
  <2>2. PlaceInv' /\ SyncInv'
    BY DEF AwakeInv, PlaceInv, SyncInv, PmInv, BeforeUr, Awaiting, ValuesOK
  <2>3. DetectInv'
    BY <1>a, BitsFacts DEF DetectInv, PmInv, AwakeInv, BuiltInv, ValuesOK, LatchesOK
  <2>4. LineInv'
    BY EdgeResponds DEF LineInv, LineLow, Low, HsLow, SyncInv, PmInv, Awaiting, ValuesOK,
       LatchesOK
  <2> QED
    BY <2>1, <2>2, <2>3, <2>4
<1>13. CASE Look
  <2> USE <1>13, <1>1 DEF Look, Then, KeepHda, KeepChip, chip, hdaVars, drvVars, hdlVars
  <2>1. AwakeInv' /\ BuiltInv'
    BY DEF AwakeInv, BuiltInv, BeforeUr, PmInv
  <2>2. PlaceInv' /\ SyncInv'
    BY DEF AwakeInv, PlaceInv, SyncInv, PmInv, BeforeUr, Awaiting, ValuesOK
  <2>3. DetectInv'
    BY <1>a, BitsFacts DEF DetectInv, PmInv, AwakeInv, BuiltInv, ValuesOK, LatchesOK
  <2>4. LineInv'
    BY EdgeResponds DEF LineInv, LineLow, Low, HsLow, SyncInv, PmInv, Awaiting, ValuesOK,
       LatchesOK
  <2> QED
    BY <2>1, <2>2, <2>3, <2>4
<1>14. CASE PmReport
  <2> USE <1>14, <1>1 DEF PmReport, Then, KeepHda, KeepChip, chip, hdaVars, drvVars, hdlVars
  <2>1. AwakeInv' /\ BuiltInv'
    BY DEF AwakeInv, BuiltInv, BeforeUr, PmInv
  <2>2. PlaceInv' /\ SyncInv'
    BY DEF AwakeInv, PlaceInv, SyncInv, PmInv, BeforeUr, Awaiting, ValuesOK
  <2>3. DetectInv'
    BY <1>a, BitsFacts DEF DetectInv, PmInv, AwakeInv, BuiltInv, ValuesOK, LatchesOK
  <2>4. LineInv'
    BY EdgeResponds DEF LineInv, LineLow, Low, HsLow, SyncInv, PmInv, Awaiting, ValuesOK,
       LatchesOK
  <2> QED
    BY <2>1, <2>2, <2>3, <2>4
<1>15. CASE PmMaskTip
  <2> USE <1>15, <1>1 DEF PmMaskTip, Then, KeepHda, KeepChip, chip, hdaVars, drvVars, hdlVars,
          Masked
  <2>1. AwakeInv' /\ BuiltInv'
    BY DEF AwakeInv, BuiltInv, BeforeUr, PmInv
  <2>2. PlaceInv' /\ SyncInv'
    BY DEF AwakeInv, PlaceInv, SyncInv, PmInv, BeforeUr, Awaiting, ValuesOK
  <2>3. DetectInv'
    BY <1>a, BitsFacts DEF DetectInv, PmInv, AwakeInv, BuiltInv, ValuesOK, LatchesOK
  <2>4. LineInv'
    BY EdgeResponds DEF LineInv, LineLow, Low, HsLow, SyncInv, PmInv, Awaiting, ValuesOK,
       LatchesOK
  <2> QED
    BY <2>1, <2>2, <2>3, <2>4
<1>16. CASE PmStartDetect
  <2> USE <1>16, <1>1 DEF PmStartDetect, Then, KeepHda, KeepChip, chip, hdaVars, drvVars,
          hdlVars, Started
  <2>1. AwakeInv' /\ BuiltInv'
    BY DEF AwakeInv, BuiltInv, BeforeUr, PmInv
  <2>2. PlaceInv' /\ SyncInv'
    BY DEF AwakeInv, PlaceInv, SyncInv, PmInv, BeforeUr, Awaiting, ValuesOK
  <2>3. DetectInv'
    BY <1>a, BitsFacts DEF DetectInv, PmInv, AwakeInv, BuiltInv, ValuesOK, LatchesOK
  <2>4. LineInv'
    BY EdgeResponds DEF LineInv, LineLow, Low, HsLow, SyncInv, PmInv, Awaiting, ValuesOK,
       LatchesOK
  <2> QED
    BY <2>1, <2>2, <2>3, <2>4
<1>17. CASE Build
  <2> USE <1>17, <1>1 DEF Build, Then, KeepHda, KeepChip, chip, hdaVars, drvVars, hdlVars
  <2>1. AwakeInv' /\ BuiltInv'
    BY DEF AwakeInv, BuiltInv, BeforeUr, PmInv
  <2>2. PlaceInv' /\ SyncInv'
    BY DEF AwakeInv, PlaceInv, SyncInv, PmInv, BeforeUr, Awaiting, ValuesOK
  <2>3. DetectInv'
    BY <1>a, BitsFacts DEF DetectInv, PmInv, AwakeInv, BuiltInv, ValuesOK, LatchesOK
  <2>4. LineInv'
    BY EdgeResponds DEF LineInv, LineLow, Low, HsLow, SyncInv, PmInv, Awaiting, ValuesOK,
       LatchesOK
  <2> QED
    BY <2>1, <2>2, <2>3, <2>4
<1>18. CASE Finish
  <2> USE <1>18, <1>1 DEF Finish, Then, KeepHda, KeepChip, chip, hdaVars, drvVars, hdlVars
  <2>1. AwakeInv' /\ BuiltInv'
    BY DEF AwakeInv, BuiltInv, BeforeUr, PmInv
  <2>2. PlaceInv' /\ SyncInv'
    BY DEF AwakeInv, BuiltInv, PlaceInv, SyncInv, PmInv, BeforeUr, Awaiting, ValuesOK
  <2>3. DetectInv'
    BY <1>a, BitsFacts DEF DetectInv, PmInv, AwakeInv, BuiltInv, ValuesOK, LatchesOK
  <2>4. LineInv'
    BY EdgeResponds DEF LineInv, LineLow, Low, HsLow, SyncInv, PmInv, Awaiting, ValuesOK,
       LatchesOK
  <2> QED
    BY <2>1, <2>2, <2>3, <2>4
<1>19. CASE Prepare \/ LookFails
  <2>1. errors' = errors + 1 \/ sleeps' = sleeps + 1
    BY <1>19, Zenon DEF Prepare, LookFails
  <2> QED
    BY <2>1, CountsShow DEF Quiet
<1>20. CASE ForceSuspend \/ Abort \/ LosePower \/ Wake \/ ShutDown
  BY <1>20, Zenon DEF ForceSuspend, Abort, LosePower, Wake, ShutDown, AwakeInv
<1> QED
  BY <1>2, <1>3, <1>4, <1>5, <1>6, <1>7, <1>8, <1>9, <1>10, <1>11, <1>12, <1>13, <1>14, <1>15,
     <1>16, <1>17, <1>18, <1>19, <1>20, Zenon DEF Pm, Callback

\* What is counted only grows.
LEMMA CountsGrow ==
  TypeOK /\ [Next]_vars => (errors' = 0 => errors = 0) /\ (sleeps' = 0 => sleeps = 0)
<1> SUFFICES ASSUME TypeOK, [Next]_vars
             PROVE  errors' \in {errors, errors + 1} /\ sleeps' \in {sleeps, sleeps + 1}
  BY CountsShow
<1>1. CASE Chip \/ TakeResponse \/ SyncFires \/ UNCHANGED vars
  BY <1>1 DEF Chip, Insert, Debounced, Pull, AutoDone, NoEvent, TakeResponse, SyncFires, KeepPm,
              counts, vars
<1>2. ASSUME NEW h \in Handlers, HandlerStep(h)
      PROVE  UNCHANGED <<sleeps, errors>>
  <2>1. UNCHANGED errors
    BY <1>2, Zenon DEF HandlerStep, GetReference, TakeLock, ReadStatus, ReadTip, StopDetect,
       SetType, UnmaskTip, Relook, Report, MaskTip, StartDetect, Release
  <2> QED
    BY <1>2, <2>1, HandlerKeepsPm DEF KeepPm
<1>3. ASSUME NEW h \in Handlers, ReadFails(h) \/ RelookFails(h)
      PROVE  UNCHANGED sleeps /\ errors' = errors + 1
  BY <1>3, Zenon DEF ReadFails, RelookFails, KeepJack, KeepPm
<1>4. CASE Pm
  <2>1. CASE Prepare
    BY <2>1, Zenon DEF Prepare
  <2>2. CASE LookFails
    BY <2>2, Zenon DEF LookFails
  <2>3. CASE UNCHANGED <<sleeps, errors>>
    BY <2>3
  <2> QED
    BY <1>4, <2>1, <2>2, <2>3, Zenon
       DEF Pm, Callback, Use, Register, RuntimeSuspend, ForceSuspend, Abort, LosePower, Wake,
           RuntimeResume, CancelSync, Standby, ShutDown, HwInit, BringUp, Clear, Unmask, EnableUr,
           Look, PmReport, PmMaskTip, PmStartDetect, Build, Finish, KeepHda, counts
<1> QED
  BY <1>1, <1>2, <1>3, <1>4 DEF Next

\* The invariant is inductive among the states without a sleep or an error.
LEMMA WatchNext == IInv /\ (Quiet => WatchInv) /\ [Next]_vars => (Quiet => WatchInv)'
<1> SUFFICES ASSUME IInv, Quiet => WatchInv, [Next]_vars, Quiet' PROVE WatchInv'
  OBVIOUS
<1>1. WatchInv
  BY CountsGrow DEF IInv, Quiet
<1>2. IInv'
  BY JackInvNext
<1>3. CASE Chip
  BY <1>1, <1>3, ChipWatch
<1>4. CASE TakeResponse \/ SyncFires
  BY <1>1, <1>4, EntryWatch
<1>5. ASSUME NEW h \in Handlers, HandlerStep(h) \/ ReadFails(h) \/ RelookFails(h)
      PROVE  WatchInv'
  <2>1. CASE HandlerStep(h)
    BY <1>1, <1>2, <2>1, HandlerWatch
  <2>2. CASE ReadFails(h) \/ RelookFails(h)
    <3>1. errors' = errors + 1
      BY <2>2, Zenon DEF ReadFails, RelookFails
    <3> QED
      BY <3>1, CountsShow DEF IInv, Quiet
  <2> QED
    BY <1>5, <2>1, <2>2
<1>6. CASE Pm
  BY <1>1, <1>6, PmWatch
<1>7. CASE UNCHANGED vars
  BY <1>1, <1>7
     DEF vars, chip, hdaVars, drvVars, hdlVars, counts, WatchInv, AwakeInv, BuiltInv, PlaceInv,
         DetectInv, SyncInv, LineInv, LineLow, HsLow
<1> QED
  BY <1>3, <1>4, <1>5, <1>6, <1>7 DEF Next

\* Until the first system sleep and the first failed read a low line always has someone
\* to read what holds it: an edge is missed only while a handler is still to read the
\* latches (cs8409.c:1976-1990, 2003-2025). The `line' run refutes it past a sleep.
THEOREM JackLineWatched == Spec => [](Quiet => LineWatched)
<1>1. IInv /\ WatchInv => LineWatched
  BY DEF WatchInv, LineInv, LineWatched, Awaiting, Handlers
<1> QED
  BY <1>1, JackInvariant, WatchInit, WatchNext, PTL DEF Spec

-----------------------------------------------------------------------------
(* The tip sense, through suspends and sleeps, while no read failed.       *)

\* A masked tip sense is one whose detection runs, is done and not read, or is being
\* dealt with by a handler; a resume that is not past its unmask sees to it itself.
MaskInv ==
  (chipUp /\ tsMask /\ pm \notin {"init", "bring", "clear", "unmask", "detect", "start"}) =>
    \/ ~hsMask /\ (hsRun \/ hsLatch)
    \/ \E h \in Handlers : (pc[h] = "tip" /\ cdc[h])
                           \/ pc[h] \in {"hsoff", "type", "unmask", "start"}

\* The hardware: a detection that ends leaves its result.
LEMMA ChipMask ==
  ASSUME IInv, MaskInv, Chip
  PROVE  MaskInv'
<1>1. /\ UNCHANGED <<chipUp, tsMask, hsMask, pm, pc, cdc>>
      /\ (hsRun \/ hsLatch) => (hsRun' \/ hsLatch')
  <2> USE DEF NoEvent, Sense, Bits, hdlVars
  <2>1. CASE Insert
    BY <2>1, Zenon DEF Insert
  <2>2. CASE Debounced
    BY <2>2, Zenon DEF Debounced
  <2>3. CASE Pull
    BY <2>3, Zenon DEF Pull
  <2>4. CASE AutoDone
    BY <2>4, Zenon DEF AutoDone
  <2> QED
    BY <2>1, <2>2, <2>3, <2>4 DEF Chip
<1> QED
  BY <1>1 DEF MaskInv

\* The handlers: a result read is dealt with, and ends with the unmask.
LEMMA HandlerMask ==
  ASSUME IInv, MaskInv, NEW h \in Handlers, HandlerStep(h)
  PROVE  MaskInv'
<1> USE DEF Goto, Bits, KeepChip, KeepJack, chip
<1>1. KeepPm
  BY HandlerKeepsPm
<1>2. /\ pc \in [Handlers -> PcStates] /\ cdc \in [Handlers -> BOOLEAN]
      /\ tsMask \in BOOLEAN /\ hsMask \in BOOLEAN /\ hsRun \in BOOLEAN /\ hsLatch \in BOOLEAN
  BY DEF IInv, TypeOK, ValuesOK, LatchesOK, FlagsOK
<1>3. UNCHANGED <<pm, chipUp>>
  BY <1>1, HandlerFrame DEF KeepPm, JackFrame
<1>4. \A g \in Handlers : (g # h /\ pc[h] \in Locked) => pc[g] \notin Locked
  BY DEF IInv, LockInv
<1>5. CASE GetReference(h)
  BY <1>2, <1>3, <1>5 DEF GetReference, MaskInv
<1>6. CASE TakeLock(h)
  BY <1>2, <1>3, <1>6 DEF TakeLock, MaskInv
<1>7. CASE ReadStatus(h)
  BY <1>2, <1>3, <1>7 DEF ReadStatus, MaskInv
<1>8. CASE ReadTip(h)
  BY <1>2, <1>3, <1>8 DEF ReadTip, MaskInv
<1>9. CASE StopDetect(h)
  BY <1>2, <1>3, <1>9 DEF StopDetect, MaskInv
<1>10. CASE SetType(h)
  BY <1>2, <1>3, <1>10 DEF SetType, MaskInv
<1>11. CASE UnmaskTip(h)
  BY <1>2, <1>3, <1>11 DEF UnmaskTip, MaskInv
<1>12. CASE Relook(h)
  BY <1>2, <1>3, <1>12 DEF Relook, MaskInv
<1>13. CASE Report(h)
  BY <1>2, <1>3, <1>13 DEF Report, MaskInv
<1>14. CASE MaskTip(h)
  BY <1>2, <1>3, <1>14 DEF MaskTip, MaskInv
<1>15. CASE StartDetect(h)
  BY <1>2, <1>3, <1>15 DEF StartDetect, Started, MaskInv
<1>16. CASE Release(h)
  BY <1>2, <1>3, <1>16 DEF Release, MaskInv
<1> QED
  BY <1>5, <1>6, <1>7, <1>8, <1>9, <1>10, <1>11, <1>12, <1>13, <1>14, <1>15, <1>16, Zenon
     DEF HandlerStep

\* The callbacks: a resume unmasks it, and a detection of its own unmasks the result.
LEMMA PmMask ==
  ASSUME IInv, MaskInv, Pm
  PROVE  MaskInv' \/ errors' = errors + 1
<1> USE DEF MaskInv, Then, Bits, InReset, KeepChip, KeepHda, chip, hdlVars
<1>1. UNCHANGED pc
  BY PmFrame
<1>2. CASE Use
  BY <1>1, <1>2, Zenon DEF Use
<1>3. CASE Register
  BY <1>1, <1>3, Zenon DEF Register
<1>4. CASE RuntimeSuspend
  BY <1>1, <1>4, Zenon DEF RuntimeSuspend
<1>5. CASE Prepare
  BY <1>1, <1>5, Zenon DEF Prepare
<1>6. CASE ForceSuspend
  BY <1>1, <1>6, Zenon DEF ForceSuspend
<1>7. CASE Abort
  BY <1>1, <1>7, Zenon DEF Abort
<1>8. CASE LosePower
  BY <1>1, <1>8, Zenon DEF LosePower
<1>9. CASE Wake
  BY <1>1, <1>9, Zenon DEF Wake
<1>10. CASE RuntimeResume
  BY <1>1, <1>10, Zenon DEF RuntimeResume
<1>11. CASE LookFails
  BY <1>1, <1>11, Zenon DEF LookFails
<1>12. CASE CancelSync
  BY <1>1, <1>12, Zenon DEF CancelSync
<1>13. CASE Standby
  BY <1>1, <1>13, Zenon DEF Standby
<1>14. CASE ShutDown
  BY <1>1, <1>14, Zenon DEF ShutDown
<1>15. CASE HwInit
  BY <1>1, <1>15, Zenon DEF HwInit
<1>16. CASE BringUp
  BY <1>1, <1>16, Zenon DEF BringUp
<1>17. CASE Clear
  BY <1>1, <1>17, Zenon DEF Clear
<1>18. CASE Unmask
  BY <1>1, <1>18, Zenon DEF Unmask
<1>19. CASE EnableUr
  BY <1>1, <1>19, Zenon DEF EnableUr
<1>20. CASE Look
  BY <1>1, <1>20, Zenon DEF Look
<1>21. CASE PmReport
  BY <1>1, <1>21, Zenon DEF PmReport
<1>22. CASE PmMaskTip
  BY <1>1, <1>22, Zenon DEF PmMaskTip, Masked
<1>23. CASE PmStartDetect
  BY <1>1, <1>23, Zenon DEF PmStartDetect, Started
<1>24. CASE Build
  BY <1>1, <1>24, Zenon DEF Build
<1>25. CASE Finish
  BY <1>1, <1>25, Zenon DEF Finish
<1> QED
  BY <1>2, <1>3, <1>4, <1>5, <1>6, <1>7, <1>8, <1>9, <1>10, <1>11, <1>12, <1>13, <1>14, <1>15,
     <1>16, <1>17, <1>18, <1>19, <1>20, <1>21, <1>22, <1>23, <1>24, <1>25, Zenon DEF Pm, Callback

\* Inductive among the states without an error.
LEMMA MaskNext ==
  IInv /\ (errors = 0 => MaskInv) /\ [Next]_vars => (errors = 0 => MaskInv)'
<1> SUFFICES ASSUME IInv, errors = 0 => MaskInv, [Next]_vars, errors' = 0 PROVE MaskInv'
  OBVIOUS
<1>1. TypeOK /\ MaskInv
  BY CountsGrow DEF IInv
<1>2. errors' # errors + 1
  BY <1>1, CountsShow
<1>3. CASE Chip
  BY <1>1, <1>3, ChipMask
<1>4. CASE TakeResponse \/ SyncFires
  <2>1. UNCHANGED <<chipUp, tsMask, hsMask, hsRun, hsLatch, pm, cdc>>
    BY <1>4, Zenon DEF TakeResponse, SyncFires, KeepChip, KeepPm, chip
  <2>2. \A h \in Handlers : pc'[h] = pc[h] \/ (pc[h] = "idle" /\ pc'[h] = "entered")
    BY <1>1, <1>4 DEF TakeResponse, SyncFires, Goto, TypeOK, ValuesOK
  <2> QED
    BY <1>1, <2>1, <2>2 DEF MaskInv
<1>5. ASSUME NEW h \in Handlers, HandlerStep(h) \/ ReadFails(h) \/ RelookFails(h)
      PROVE  MaskInv'
  <2>1. HandlerStep(h)
    BY <1>2, <1>5, Zenon DEF ReadFails, RelookFails
  <2> QED
    BY <1>1, <2>1, HandlerMask
<1>6. CASE Pm
  BY <1>1, <1>2, <1>6, PmMask
<1>7. CASE UNCHANGED vars
  BY <1>1, <1>7 DEF vars, chip, hdlVars, MaskInv
<1> QED
  BY <1>3, <1>4, <1>5, <1>6, <1>7 DEF Next

\* In standby a plug or an unplug is noticed, through any number of suspends, sleeps and
\* aborted sleeps, unless a read of the handler failed: what masks the tip sense ends
\* with its unmask (cs8409.c:2059-2064, 2094-2113).
THEOREM JackTipSenseWatched == Spec => [](errors = 0 => TipSenseWatched)
<1>1. Init => (errors = 0 => MaskInv)
  BY DEF Init, MaskInv
<1>2. IInv /\ MaskInv => TipSenseWatched
  BY DEF MaskInv, TipSenseWatched
<1> QED
  BY <1>1, <1>2, JackInvariant, MaskNext, PTL DEF Spec

-----------------------------------------------------------------------------
(* Detections, while no system sleep was begun.                            *)

\* Who is about to start a detection believes in no jack.
FreshInv ==
  /\ AwakeInv
  /\ (pm \in {"detect", "start"} \/ \E h \in Handlers : pc[h] \in {"detect", "start"})
       => believed = 0

\* The handlers: only SetType finds a jack, with the lock and in an active codec.
LEMMA HandlerFresh ==
  ASSUME IInv, FreshInv, NEW h \in Handlers, HandlerStep(h)
  PROVE  FreshInv' /\ (~hsRun /\ hsRun' => believed = 0)
<1> USE DEF Goto, Bits, KeepChip, KeepJack, chip
<1>1. UNCHANGED pm /\ AwakeInv'
  BY HandlerKeepsPm DEF KeepPm, FreshInv, AwakeInv
<1>2. pc \in [Handlers -> PcStates] /\ hsRun \in BOOLEAN
  BY DEF IInv, TypeOK, ValuesOK, FlagsOK
<1>3. \A g \in Handlers : (g # h /\ pc[h] \in Locked) => pc[g] \notin Locked
  BY DEF IInv, LockInv
<1>4. pc[h] \in Locked => pm = "idle"
  BY DEF IInv, LockInv, RefInv, PmInv, ChipInv, FreshInv, AwakeInv, TypeOK, ValuesOK, PmStates,
         Locked, Working
<1>5. CASE GetReference(h)
  BY <1>1, <1>2, <1>3, <1>4, <1>5 DEF GetReference, FreshInv
<1>6. CASE TakeLock(h)
  BY <1>1, <1>2, <1>3, <1>4, <1>6 DEF TakeLock, FreshInv
<1>7. CASE ReadStatus(h)
  BY <1>1, <1>2, <1>3, <1>4, <1>7 DEF ReadStatus, FreshInv
<1>8. CASE ReadTip(h)
  BY <1>1, <1>2, <1>3, <1>4, <1>8 DEF ReadTip, FreshInv
<1>9. CASE StopDetect(h)
  BY <1>1, <1>2, <1>3, <1>4, <1>9 DEF StopDetect, FreshInv
<1>10. CASE SetType(h)
  BY <1>1, <1>2, <1>3, <1>4, <1>10 DEF SetType, FreshInv, Locked, PcStates
<1>11. CASE UnmaskTip(h)
  BY <1>1, <1>2, <1>3, <1>4, <1>11 DEF UnmaskTip, FreshInv
<1>12. CASE Relook(h)
  BY <1>1, <1>2, <1>3, <1>4, <1>12 DEF Relook, FreshInv
<1>13. CASE Report(h)
  BY <1>1, <1>2, <1>3, <1>4, <1>13 DEF Report, FreshInv
<1>14. CASE MaskTip(h)
  BY <1>1, <1>2, <1>3, <1>4, <1>14 DEF MaskTip, FreshInv
<1>15. CASE StartDetect(h)
  BY <1>1, <1>2, <1>3, <1>4, <1>15 DEF StartDetect, FreshInv, Started
<1>16. CASE Release(h)
  BY <1>1, <1>2, <1>3, <1>4, <1>16 DEF Release, FreshInv
<1> QED
  BY <1>5, <1>6, <1>7, <1>8, <1>9, <1>10, <1>11, <1>12, <1>13, <1>14, <1>15, <1>16, Zenon
     DEF HandlerStep

\* The callbacks: a jack found to be the one before is not detected again.
LEMMA PmFresh ==
  ASSUME IInv, FreshInv, Pm, sleeps' # sleeps + 1
  PROVE  FreshInv' /\ (~hsRun /\ hsRun' => believed = 0)
<1> USE DEF FreshInv, AwakeInv, Then, KeepHda, KeepChip, chip, hdaVars, drvVars, hdlVars, counts
<1>1. UNCHANGED pc
  BY PmFrame
<1>2. CASE Prepare \/ ForceSuspend \/ Abort \/ LosePower \/ Wake \/ ShutDown
  BY <1>2, Zenon DEF Prepare, ForceSuspend, Abort, LosePower, Wake, ShutDown
<1>3. CASE Use
  BY <1>1, <1>3 DEF Use
<1>4. CASE Register
  BY <1>1, <1>4 DEF Register
<1>5. CASE RuntimeSuspend
  BY <1>1, <1>5 DEF RuntimeSuspend
<1>6. CASE RuntimeResume
  BY <1>1, <1>6 DEF RuntimeResume
<1>7. CASE LookFails
  <2>1. UNCHANGED <<sleep, powerOn, noRpm, believed, hsRun>> /\ pm' = "finish"
    BY <1>7, Zenon DEF LookFails
  <2> QED
    BY <1>1, <2>1
<1>8. CASE CancelSync
  BY <1>1, <1>8 DEF CancelSync
<1>9. CASE Standby
  BY <1>1, <1>9 DEF Standby
<1>10. CASE HwInit
  BY <1>1, <1>10 DEF HwInit, InReset
<1>11. CASE BringUp
  BY <1>1, <1>11 DEF BringUp
<1>12. CASE Clear
  BY <1>1, <1>12 DEF Clear
<1>13. CASE Unmask
  BY <1>1, <1>13 DEF Unmask
<1>14. CASE EnableUr
  BY <1>1, <1>14 DEF EnableUr
<1>15. CASE Look
  BY <1>1, <1>15 DEF Look
<1>16. CASE PmReport
  BY <1>1, <1>16 DEF PmReport
<1>17. CASE PmMaskTip
  BY <1>1, <1>17 DEF PmMaskTip, Masked, Bits
<1>18. CASE PmStartDetect
  BY <1>1, <1>18 DEF PmStartDetect, Started
<1>19. CASE Build
  BY <1>1, <1>19 DEF Build
<1>20. CASE Finish
  BY <1>1, <1>20 DEF Finish
<1> QED
  BY <1>2, <1>3, <1>4, <1>5, <1>6, <1>7, <1>8, <1>9, <1>10, <1>11, <1>12, <1>13, <1>14, <1>15,
     <1>16, <1>17, <1>18, <1>19, <1>20, Zenon DEF Pm, Callback

\* Inductive until the first system sleep, and what DetectUnknown says of every step.
LEMMA FreshNext ==
  ASSUME IInv, sleeps = 0 => FreshInv, [Next]_vars, sleeps' = 0
  PROVE  FreshInv' /\ (~hsRun /\ hsRun' => believed = 0)
<1>1. TypeOK /\ FreshInv
  BY CountsGrow DEF IInv
<1>2. sleeps' # sleeps + 1
  BY <1>1, CountsShow
<1>3. CASE Chip \/ TakeResponse \/ SyncFires \/ UNCHANGED vars
  <2>1. /\ UNCHANGED <<sleep, powerOn, noRpm, pm, believed>>
        /\ hsRun' => hsRun
    <3>1. ASSUME Insert \/ Debounced \/ Pull
          PROVE  UNCHANGED <<sleep, powerOn, noRpm, pm, believed, hsRun>>
      BY <3>1, Zenon DEF Insert, Debounced, Pull, NoEvent, hdaVars, drvVars
    <3>2. ASSUME AutoDone
          PROVE  UNCHANGED <<sleep, powerOn, noRpm, pm, believed>> /\ ~hsRun'
      BY <3>2, Zenon DEF AutoDone, NoEvent, hdaVars, drvVars
    <3>3. ASSUME TakeResponse \/ SyncFires \/ UNCHANGED vars
          PROVE  UNCHANGED <<sleep, powerOn, noRpm, pm, believed, hsRun>>
      BY <3>3, Zenon
         DEF TakeResponse, SyncFires, KeepChip, KeepPm, chip, hdaVars, drvVars, vars
    <3> QED
      BY <1>3, <3>1, <3>2, <3>3 DEF Chip
  <2>2. \A h \in Handlers : pc'[h] \in {"detect", "start"} => pc[h] \in {"detect", "start"}
    BY <1>1, <1>3 DEF Chip, Insert, Debounced, Pull, AutoDone, NoEvent, TakeResponse, SyncFires,
       Goto, hdlVars, vars, TypeOK, ValuesOK
  <2> QED
    BY <1>1, <2>1, <2>2 DEF FreshInv, AwakeInv
<1>4. ASSUME NEW h \in Handlers, HandlerStep(h) \/ ReadFails(h) \/ RelookFails(h)
      PROVE  FreshInv' /\ (~hsRun /\ hsRun' => believed = 0)
  <2>1. CASE HandlerStep(h)
    BY <1>1, <2>1, HandlerFresh
  <2>2. CASE ReadFails(h) \/ RelookFails(h)
    <3>1. UNCHANGED <<sleep, powerOn, noRpm, pm, believed, hsRun>>
      BY <2>2, Zenon DEF ReadFails, RelookFails, KeepJack, KeepPm, KeepChip, chip
    <3>2. \A g \in Handlers : pc'[g] \in {"detect", "start"} => pc[g] \in {"detect", "start"}
      BY <1>1, <2>2 DEF ReadFails, RelookFails, Goto, TypeOK, ValuesOK
    <3> QED
      BY <1>1, <3>1, <3>2 DEF FreshInv, AwakeInv
  <2> QED
    BY <1>4, <2>1, <2>2
<1>5. CASE Pm
  BY <1>1, <1>2, <1>5, PmFresh
<1> QED
  BY <1>3, <1>4, <1>5 DEF Next

\* However often the codec is suspended and resumed at runtime, and whatever its reads
\* return, no type detection is started on a jack whose type is known, by the handler or
\* by a resume that looks at the tip sense (cs8409.c:781-786, 879-892, 2088-2091): until
\* the first system sleep, after which a forced resume lets a handler run beside it.
THEOREM JackDetectUntilSleep ==
  Spec => [][sleeps' = 0 => (~hsRun /\ hsRun' => believed = 0)]_vars
<1>1. Init => (sleeps = 0 => FreshInv)
  BY DEF Init, FreshInv, AwakeInv
<1>2. IInv /\ (sleeps = 0 => FreshInv) /\ [Next]_vars
        => /\ (sleeps = 0 => FreshInv)'
           /\ [sleeps' = 0 => (~hsRun /\ hsRun' => believed = 0)]_vars
  BY FreshNext
<1> QED
  BY <1>1, <1>2, JackInvariant, PTL DEF Spec

\* And so never, where nobody puts the machine to sleep.
THEOREM JackDetectUnknown ==
  ASSUME MaxSleeps = 0
  PROVE  Spec => DetectUnknown
<1>1. IInv' /\ [sleeps' = 0 => (~hsRun /\ hsRun' => believed = 0)]_vars
        => [~hsRun /\ hsRun' => believed = 0]_vars
  BY DEF IInv, TypeOK, ValuesOK
<1> QED
  BY <1>1, JackInvariant, JackDetectUntilSleep, PTL DEF DetectUnknown

-----------------------------------------------------------------------------
(* The jack believed in, through suspends and sleeps, while no read failed *)
(* and no jack is swapped for another before its removal was dealt with.   *)

\* A resume from reset, before its responses are enabled.
Resuming == {"bring", "clear", "unmask", "ur"}

\* What the tip sense status says is so, and a chip in reset has it masked; a jack is
\* believed in through a reset only where a sleep has still to be resumed from.
SenseInv ==
  /\ jack = 0 <=> ts = "unplug"
  /\ ~chipUp => tsMask /\ (believed = 0 \/ ~powerOn)
  /\ pm \notin Awaiting \union {"down", "init", "bring"} => chipUp /\ ~suspended

\* A jack believed in is no other than the one that is in.
BelievedInv ==
  /\ (believed # 0 /\ jack # 0) => believed = jack
  /\ (~light /\ pm \in Resuming) => believed = 0

\* So is the result of a detection that is still to be read.
ResultInv ==
  (hsLatch \/ \E h \in Handlers : (pc[h] = "tip" /\ cdc[h]) \/ pc[h] \in {"hsoff", "type"})
    => jack = 0 \/ hsType \in {0, jack}

\* Of a jack that was pulled the tip sense has told, or is going to be asked.
StaleInv ==
  (believed # 0 /\ jack = 0) =>
    \/ tsLatch \/ tsMask \/ (light /\ pm \in {"unmask", "ur", "look"})
    \/ \E h \in Handlers : pc[h] \in {"hsoff", "type", "unmask", "relook"}

\* A resume by force meets one handler at most, that entered before the suspend, and
\* that one finds no result.
ForcedInv ==
  /\ (noRpm /\ (pm \in {"down", "init"} \/ rpm = "suspended" \/ (~light /\ pm \in Resuming)))
       => sync = "idle" /\ pc["sync"] = "idle"
  /\ (noRpm /\ (rpm = "suspended" \/ pm = "init" \/ (~light /\ pm \in Resuming))) => ~ur
  /\ (noRpm /\ (pm = "init" \/ (~light /\ pm \in Resuming))) => responses = 0
  /\ (noRpm /\ ~light /\ pm \in Resuming) =>
       /\ pc["unsol"] \notin {"hsoff", "type", "unmask", "relook"}
       /\ pc["unsol"] = "tip" => ~cdc["unsol"]
       /\ hsLatch \/ hsRun => pc["unsol"] \in {"release", "idle"}

KnownInv == SenseInv /\ BelievedInv /\ ResultInv /\ StaleInv /\ ForcedInv

\* At the probe nothing is believed.
LEMMA KnownInit == Init => KnownInv
<1> SUFFICES ASSUME Init PROVE KnownInv
  OBVIOUS
<1>1. SenseInv /\ BelievedInv /\ StaleInv
  BY DEF Init, SenseInv, BelievedInv, StaleInv, Awaiting, Resuming
<1>2. ResultInv /\ ForcedInv
  BY DEF Init, ResultInv, ForcedInv, Handlers, Resuming
<1> QED
  BY <1>1, <1>2 DEF KnownInv

\* The jack and the chip: the next jack comes when the last one is forgotten.
LEMMA ChipKnown ==
  ASSUME ~QuickSwap, IInv, KnownInv, Chip
  PROVE  KnownInv'
<1> USE DEF KnownInv
<1>1. UNCHANGED <<ur, hdaVars, drvVars, sync, hdlVars, pm, light, counts, tsMask, hsMask, chipUp>>
  <2> USE DEF NoEvent, Sense, Bits
  <2>1. CASE Insert
    BY <2>1, Zenon DEF Insert
  <2>2. CASE Debounced
    BY <2>2, Zenon DEF Debounced
  <2>3. CASE Pull
    BY <2>3, Zenon DEF Pull
  <2>4. CASE AutoDone
    BY <2>4, Zenon DEF AutoDone
  <2> QED
    BY <2>1, <2>2, <2>3, <2>4 DEF Chip
<1>2. UNCHANGED <<suspended, believed, powerOn, noRpm, rpm, sync, pc, cdc, light, pm>>
  BY <1>1 DEF hdaVars, drvVars, hdlVars
<1>3. TypeOK /\ LatchesOK /\ FlagsOK /\ ValuesOK
  BY DEF IInv, TypeOK
<1> HIDE DEF KnownInv
<1>4. /\ ~ur => responses' = responses
      /\ hsLatch' => hsLatch \/ hsRun
      /\ hsRun' => hsRun
  <2> USE <1>3 DEF Sense, LatchesOK, FlagsOK, Bits
  <2>1. CASE Insert
    BY <2>1 DEF Insert
  <2>2. CASE Debounced
    BY <2>2 DEF Debounced
  <2>3. CASE Pull
    BY <2>3 DEF Pull
  <2>4. CASE AutoDone
    BY <2>4 DEF AutoDone
  <2> QED
    BY <2>1, <2>2, <2>3, <2>4 DEF Chip
<1>5. ForcedInv'
  BY <1>1, <1>2, <1>4 DEF KnownInv, ForcedInv
<1>6. CASE Insert
  <2> USE <1>1, <1>2, <1>3, <1>6 DEF Insert, Sense, Forgotten, KnownInv
  <2>1. SenseInv'
    BY DEF SenseInv, ValuesOK
  <2>2. BelievedInv' /\ StaleInv'
    BY DEF BelievedInv, StaleInv
  <2>3. ResultInv'
    BY DEF ResultInv, Bits, LatchesOK
  <2> QED
    BY <1>5, <2>1, <2>2, <2>3
<1>7. CASE Debounced
  <2> USE <1>1, <1>2, <1>3, <1>7 DEF Debounced, Sense, KnownInv, Bits
  <2>1. SenseInv' /\ BelievedInv'
    BY DEF SenseInv, BelievedInv
  <2>2. StaleInv' /\ ResultInv'
    BY DEF StaleInv, ResultInv, LatchesOK
  <2> QED
    BY <1>5, <2>1, <2>2
<1>8. CASE Pull
  <2> USE <1>1, <1>2, <1>3, <1>8 DEF Pull, Sense, KnownInv, Bits
  <2>1. SenseInv' /\ BelievedInv' /\ ResultInv'
    BY DEF SenseInv, BelievedInv, ResultInv
  <2>2. StaleInv'
    BY DEF StaleInv, SenseInv, LatchesOK, FlagsOK
  <2> QED
    BY <1>5, <2>1, <2>2
<1>9. CASE AutoDone
  <2> USE <1>1, <1>2, <1>3, <1>9 DEF AutoDone, KnownInv, Bits
  <2>1. SenseInv' /\ BelievedInv' /\ StaleInv'
    BY DEF SenseInv, BelievedInv, StaleInv
  <2>2. ResultInv'
    BY DEF ResultInv, Seen
  <2> QED
    BY <1>5, <2>1, <2>2
<1> QED
  BY <1>6, <1>7, <1>8, <1>9 DEF Chip

\* A response, or the delay of the work: neither comes in a resume by force.
LEMMA EntryKnown ==
  ASSUME IInv, KnownInv, TakeResponse \/ SyncFires
  PROVE  KnownInv'
<1> USE DEF KnownInv
<1>1. UNCHANGED chip /\ KeepPm /\ UNCHANGED <<believed, cdc>>
  BY Zenon DEF TakeResponse, SyncFires, KeepChip
<1>2. \A h \in Handlers : pc'[h] = pc[h] \/ (pc[h] = "idle" /\ pc'[h] = "entered")
  BY DEF TakeResponse, SyncFires, Goto, IInv, TypeOK, ValuesOK
<1>3. SenseInv' /\ BelievedInv' /\ ResultInv' /\ StaleInv'
  BY <1>1, <1>2 DEF SenseInv, BelievedInv, ResultInv, StaleInv, chip, KeepPm
<1>4. ForcedInv'
  BY <1>1, <1>2
     DEF TakeResponse, SyncFires, Goto, ForcedInv, chip, KeepPm, KeepChip, Handlers, IInv, TypeOK,
         ValuesOK
<1> QED
  BY <1>3, <1>4

\* What a handler does to the state a resume by force leaves: where it goes, and what
\* it leaves in the chip.
LEMMA ForcedKept ==
  ASSUME IInv, ForcedInv, NEW h \in Handlers, NEW l, pc[h] \in Working, Goto(h, l), KeepPm,
         sync' = sync, ~ur => responses' = responses,
         pm \in Resuming => light \/ h = "unsol",
         (noRpm /\ ~light /\ pm \in Resuming) =>
           /\ l \notin {"hsoff", "type", "unmask", "relook"}
           /\ l = "tip" => ~cdc'[h]
           /\ hsLatch' \/ hsRun' => l \in {"release", "idle"}
  PROVE  ForcedInv'
<1>1. pc["sync"] = "idle" => h = "unsol"
  BY DEF Working, Locked, Handlers
<1>2. /\ pc["sync"] = "idle" => pc'["sync"] = "idle"
      /\ pc'[h] = l
  BY <1>1 DEF Goto, IInv, TypeOK, ValuesOK, Handlers
<1>3. UNCHANGED <<noRpm, pm, rpm, light, ur>>
  BY DEF KeepPm
<1> QED
  BY <1>1, <1>2, <1>3 DEF ForcedInv

\* The handlers: what one finds out is of the jack that is in, or that was pulled, and
\* then it looks once more.
LEMMA HandlerKnown ==
  ASSUME IInv, KnownInv, NEW h \in Handlers, HandlerStep(h)
  PROVE  KnownInv'
<1> USE DEF Goto, KnownInv
<1>1. KeepPm /\ UNCHANGED chipUp
  BY HandlerKeepsPm, HandlerFrame DEF JackFrame
<1>2. /\ TypeOK /\ ValuesOK /\ LatchesOK /\ FlagsOK
      /\ pc \in [Handlers -> PcStates] /\ cdc \in [Handlers -> BOOLEAN]
  BY DEF IInv, TypeOK, ValuesOK
<1>3. \A g \in Handlers : (g # h /\ pc[h] \in Locked) => pc[g] \notin Locked
  BY DEF IInv, LockInv
<1>4. pc[h] \in Working =>
        /\ chipUp /\ ~suspended
        /\ pm \in Resuming => noRpm /\ pm # "bring" /\ (light \/ h = "unsol")
  BY DEF IInv, LockInv, RefInv, PmInv, ChipInv, ForcedInv, ValuesOK, TypeOK, PmStates, Handlers,
         Locked, Working, Resuming
<1>5. Handlers = {"unsol", "sync"}
  BY DEF Handlers
<1> HIDE DEF KnownInv
<1>6. CASE GetReference(h)
  <2> USE <1>1, <1>2, <1>3, <1>4, <1>5, <1>6
          DEF GetReference, Bits, KeepChip, KeepJack, KeepPm, chip, Working, Locked, PcStates
  <2>1. SenseInv' /\ BelievedInv'
    BY DEF SenseInv, BelievedInv, ResultInv, KnownInv
  <2>2. ResultInv'
    BY DEF ResultInv, KnownInv
  <2>3. StaleInv'
    BY DEF StaleInv, SenseInv, KnownInv
  <2>4. ForcedInv'
    BY DEF ForcedInv, KnownInv
  <2> QED
    BY <2>1, <2>2, <2>3, <2>4, Zenon DEF KnownInv
<1>7. CASE TakeLock(h)
  <2> USE <1>1, <1>2, <1>3, <1>4, <1>5, <1>7
          DEF TakeLock, Bits, KeepChip, KeepJack, KeepPm, chip, Working, Locked, PcStates
  <2>1. SenseInv' /\ BelievedInv'
    BY DEF SenseInv, BelievedInv, ResultInv, KnownInv
  <2>2. ResultInv'
    BY DEF ResultInv, KnownInv
  <2>3. StaleInv'
    BY DEF StaleInv, SenseInv, KnownInv
  <2>4. ForcedInv'
    BY DEF ForcedInv, KnownInv
  <2> QED
    BY <2>1, <2>2, <2>3, <2>4, Zenon DEF KnownInv
<1>8. CASE ReadStatus(h)
  <2> USE <1>1, <1>2, <1>3, <1>4, <1>5, <1>8
          DEF ReadStatus, Bits, KeepChip, KeepJack, KeepPm, chip, Working, Locked, PcStates
  <2>1. SenseInv' /\ BelievedInv'
    BY DEF SenseInv, BelievedInv, ResultInv, KnownInv
  <2>2. ResultInv'
    BY DEF ResultInv, KnownInv
  <2>3. StaleInv'
    BY DEF StaleInv, SenseInv, KnownInv
  <2>4. ~ur => responses' = responses
    BY Zenon
  <2>5. (noRpm /\ ~light /\ pm \in Resuming) =>
           /\ h = "unsol" /\ pc[h] \notin {"hsoff", "type", "unmask", "relook"}
           /\ pc[h] = "tip" => ~cdc[h]
           /\ hsLatch \/ hsRun => pc[h] \in {"release", "idle"}
    BY DEF ForcedInv, KnownInv
  <2>6. ForcedInv'
    BY <2>4, <2>5, ForcedKept DEF KnownInv
  <2> QED
    BY <2>1, <2>2, <2>3, <2>6, Zenon DEF KnownInv
<1>9. CASE ReadTip(h)
  <2> USE <1>1, <1>2, <1>3, <1>4, <1>5, <1>9
          DEF ReadTip, Bits, KeepChip, KeepJack, KeepPm, chip, Working, Locked, PcStates
  <2>1. SenseInv' /\ BelievedInv'
    BY DEF SenseInv, BelievedInv, ResultInv, KnownInv
  <2>2. ResultInv'
    BY DEF ResultInv, KnownInv
  <2>3. StaleInv'
    BY DEF StaleInv, SenseInv, KnownInv
  <2>4. ~ur => responses' = responses
    BY Zenon
  <2>5. (noRpm /\ ~light /\ pm \in Resuming) =>
           /\ h = "unsol" /\ pc[h] \notin {"hsoff", "type", "unmask", "relook"}
           /\ pc[h] = "tip" => ~cdc[h]
           /\ hsLatch \/ hsRun => pc[h] \in {"release", "idle"}
    BY DEF ForcedInv, KnownInv
  <2>6. ForcedInv'
    BY <2>4, <2>5, ForcedKept DEF KnownInv
  <2> QED
    BY <2>1, <2>2, <2>3, <2>6, Zenon DEF KnownInv
<1>10. CASE StopDetect(h)
  <2> USE <1>1, <1>2, <1>3, <1>4, <1>5, <1>10
          DEF StopDetect, Bits, KeepChip, KeepJack, KeepPm, chip, Working, Locked, PcStates
  <2>1. SenseInv' /\ BelievedInv'
    BY DEF SenseInv, BelievedInv, ResultInv, KnownInv
  <2>2. ResultInv'
    BY DEF ResultInv, KnownInv
  <2>3. StaleInv'
    BY DEF StaleInv, SenseInv, KnownInv
  <2>4. ~ur => responses' = responses
    BY Zenon
  <2>5. (noRpm /\ ~light /\ pm \in Resuming) =>
           /\ h = "unsol" /\ pc[h] \notin {"hsoff", "type", "unmask", "relook"}
           /\ pc[h] = "tip" => ~cdc[h]
           /\ hsLatch \/ hsRun => pc[h] \in {"release", "idle"}
    BY DEF ForcedInv, KnownInv
  <2>6. ForcedInv'
    BY <2>4, <2>5, ForcedKept DEF KnownInv
  <2> QED
    BY <2>1, <2>2, <2>3, <2>6, Zenon DEF KnownInv
<1>11. CASE SetType(h)
  <2> USE <1>1, <1>2, <1>3, <1>4, <1>5, <1>11
          DEF SetType, Bits, KeepChip, KeepJack, KeepPm, chip, Working, Locked, PcStates, Seen
  <2>1. SenseInv' /\ BelievedInv'
    BY DEF SenseInv, BelievedInv, ResultInv, ForcedInv, KnownInv
  <2>2. ResultInv'
    BY DEF ResultInv, KnownInv
  <2>3. StaleInv'
    BY DEF StaleInv, SenseInv, KnownInv
  <2>4. ~ur => responses' = responses
    BY Zenon
  <2>5. (noRpm /\ ~light /\ pm \in Resuming) =>
           /\ h = "unsol" /\ pc[h] \notin {"hsoff", "type", "unmask", "relook"}
           /\ pc[h] = "tip" => ~cdc[h]
           /\ hsLatch \/ hsRun => pc[h] \in {"release", "idle"}
    BY DEF ForcedInv, KnownInv
  <2>6. ForcedInv'
    BY <2>4, <2>5, ForcedKept DEF KnownInv
  <2> QED
    BY <2>1, <2>2, <2>3, <2>6, Zenon DEF KnownInv
<1>12. CASE UnmaskTip(h)
  <2> USE <1>1, <1>2, <1>3, <1>4, <1>5, <1>12
          DEF UnmaskTip, Bits, KeepChip, KeepJack, KeepPm, chip, Working, Locked, PcStates
  <2>1. SenseInv' /\ BelievedInv'
    BY DEF SenseInv, BelievedInv, ResultInv, KnownInv
  <2>2. ResultInv'
    BY DEF ResultInv, KnownInv
  <2>3. StaleInv'
    BY DEF StaleInv, SenseInv, KnownInv
  <2>4. ~ur => responses' = responses
    BY Zenon
  <2>5. (noRpm /\ ~light /\ pm \in Resuming) =>
           /\ h = "unsol" /\ pc[h] \notin {"hsoff", "type", "unmask", "relook"}
           /\ pc[h] = "tip" => ~cdc[h]
           /\ hsLatch \/ hsRun => pc[h] \in {"release", "idle"}
    BY DEF ForcedInv, KnownInv
  <2>6. ForcedInv'
    BY <2>4, <2>5, ForcedKept DEF KnownInv
  <2> QED
    BY <2>1, <2>2, <2>3, <2>6, Zenon DEF KnownInv
<1>13. CASE Relook(h)
  <2> USE <1>1, <1>2, <1>3, <1>4, <1>5, <1>13
          DEF Relook, Bits, KeepChip, KeepJack, KeepPm, chip, Working, Locked, PcStates
  <2>1. SenseInv' /\ BelievedInv'
    BY DEF SenseInv, BelievedInv, ResultInv, KnownInv
  <2>2. ResultInv'
    BY DEF ResultInv, KnownInv
  <2>3. StaleInv'
    BY DEF StaleInv, SenseInv, KnownInv
  <2>4. ~ur => responses' = responses
    BY Zenon
  <2>5. (noRpm /\ ~light /\ pm \in Resuming) =>
           /\ h = "unsol" /\ pc[h] \notin {"hsoff", "type", "unmask", "relook"}
           /\ pc[h] = "tip" => ~cdc[h]
           /\ hsLatch \/ hsRun => pc[h] \in {"release", "idle"}
    BY DEF ForcedInv, KnownInv
  <2>6. ForcedInv'
    BY <2>4, <2>5, ForcedKept DEF KnownInv
  <2> QED
    BY <2>1, <2>2, <2>3, <2>6, Zenon DEF KnownInv
<1>14. CASE Report(h)
  <2> USE <1>1, <1>2, <1>3, <1>4, <1>5, <1>14
          DEF Report, Bits, KeepChip, KeepJack, KeepPm, chip, Working, Locked, PcStates
  <2>1. SenseInv' /\ BelievedInv'
    BY DEF SenseInv, BelievedInv, ResultInv, KnownInv
  <2>2. ResultInv'
    BY DEF ResultInv, KnownInv
  <2>3. StaleInv'
    BY DEF StaleInv, SenseInv, KnownInv
  <2>4. ~ur => responses' = responses
    BY Zenon
  <2>5. (noRpm /\ ~light /\ pm \in Resuming) =>
           /\ h = "unsol" /\ pc[h] \notin {"hsoff", "type", "unmask", "relook"}
           /\ pc[h] = "tip" => ~cdc[h]
           /\ hsLatch \/ hsRun => pc[h] \in {"release", "idle"}
    BY DEF ForcedInv, KnownInv
  <2>6. ForcedInv'
    BY <2>4, <2>5, ForcedKept DEF KnownInv
  <2> QED
    BY <2>1, <2>2, <2>3, <2>6, Zenon DEF KnownInv
<1>15. CASE MaskTip(h)
  <2> USE <1>1, <1>2, <1>3, <1>4, <1>5, <1>15
          DEF MaskTip, Bits, KeepChip, KeepJack, KeepPm, chip, Working, Locked, PcStates, Masked
  <2>1. SenseInv' /\ BelievedInv'
    BY DEF SenseInv, BelievedInv, ResultInv, KnownInv
  <2>2. ResultInv'
    BY DEF ResultInv, KnownInv
  <2>3. StaleInv'
    BY DEF StaleInv, SenseInv, KnownInv
  <2>4. ~ur => responses' = responses
    BY Zenon
  <2>5. (noRpm /\ ~light /\ pm \in Resuming) =>
           /\ h = "unsol" /\ pc[h] \notin {"hsoff", "type", "unmask", "relook"}
           /\ pc[h] = "tip" => ~cdc[h]
           /\ hsLatch \/ hsRun => pc[h] \in {"release", "idle"}
    BY DEF ForcedInv, KnownInv
  <2>6. ForcedInv'
    BY <2>4, <2>5, ForcedKept DEF KnownInv
  <2> QED
    BY <2>1, <2>2, <2>3, <2>6, Zenon DEF KnownInv
<1>16. CASE StartDetect(h)
  <2> USE <1>1, <1>2, <1>3, <1>4, <1>5, <1>16
          DEF StartDetect, Bits, KeepChip, KeepJack, KeepPm, chip, Working, Locked, PcStates, Started
  <2>1. SenseInv' /\ BelievedInv'
    BY DEF SenseInv, BelievedInv, ResultInv, KnownInv
  <2>2. ResultInv'
    BY DEF ResultInv, KnownInv
  <2>3. StaleInv'
    BY DEF StaleInv, SenseInv, KnownInv
  <2>4. ~ur => responses' = responses
    BY Zenon
  <2>5. (noRpm /\ ~light /\ pm \in Resuming) =>
           /\ h = "unsol" /\ pc[h] \notin {"hsoff", "type", "unmask", "relook"}
           /\ pc[h] = "tip" => ~cdc[h]
           /\ hsLatch \/ hsRun => pc[h] \in {"release", "idle"}
    BY DEF ForcedInv, KnownInv
  <2>6. ForcedInv'
    BY <2>4, <2>5, ForcedKept DEF KnownInv
  <2> QED
    BY <2>1, <2>2, <2>3, <2>6, Zenon DEF KnownInv
<1>17. CASE Release(h)
  <2> USE <1>1, <1>2, <1>3, <1>4, <1>5, <1>17
          DEF Release, Bits, KeepChip, KeepJack, KeepPm, chip, Working, Locked, PcStates
  <2>1. SenseInv' /\ BelievedInv'
    BY DEF SenseInv, BelievedInv, ResultInv, KnownInv
  <2>2. ResultInv'
    BY DEF ResultInv, KnownInv
  <2>3. StaleInv'
    BY DEF StaleInv, SenseInv, KnownInv
  <2>4. ForcedInv'
    BY DEF ForcedInv, KnownInv
  <2> QED
    BY <2>1, <2>2, <2>3, <2>4, Zenon DEF KnownInv
<1> QED
  BY <1>6, <1>7, <1>8, <1>9, <1>10, <1>11, <1>12, <1>13, <1>14, <1>15, <1>16, <1>17, Zenon
     DEF HandlerStep

\* The callbacks: a reset forgets the jack, a resume from standby asks after it.
LEMMA PmKnown ==
  ASSUME IInv, KnownInv, Pm, errors' # errors + 1
  PROVE  KnownInv'
<1> USE PmFrame, BitsFacts DEF KnownInv, IInv, TypeOK, ValuesOK, LatchesOK, FlagsOK, PmInv,
        ChipInv, Then, KeepHda,
        KeepChip, chip, hdaVars, drvVars, hdlVars, counts, Resuming, Awaiting
<1>1. CASE Use
  <2> USE <1>1 DEF Use
  <2>1. SenseInv' /\ BelievedInv'
    BY DEF SenseInv, BelievedInv
  <2>2. ResultInv' /\ StaleInv'
    BY DEF SenseInv, BelievedInv, ResultInv, StaleInv
  <2>3. ForcedInv'
    BY DEF ForcedInv, Working, Locked, PcStates, Handlers
  <2> QED
    BY <2>1, <2>2, <2>3
<1>2. CASE Register
  <2> USE <1>2 DEF Register
  <2>1. SenseInv' /\ BelievedInv'
    BY DEF SenseInv, BelievedInv
  <2>2. ResultInv' /\ StaleInv'
    BY DEF SenseInv, BelievedInv, ResultInv, StaleInv
  <2>3. ForcedInv'
    BY DEF ForcedInv, Working, Locked, PcStates, Handlers
  <2> QED
    BY <2>1, <2>2, <2>3
<1>3. CASE RuntimeSuspend
  <2> USE <1>3 DEF RuntimeSuspend
  <2>1. SenseInv' /\ BelievedInv'
    BY DEF SenseInv, BelievedInv
  <2>2. ResultInv' /\ StaleInv'
    BY DEF SenseInv, BelievedInv, ResultInv, StaleInv
  <2>3. ForcedInv'
    BY DEF ForcedInv, Working, Locked, PcStates, Handlers
  <2> QED
    BY <2>1, <2>2, <2>3
<1>4. CASE Prepare
  <2> USE <1>4 DEF Prepare
  <2>1. SenseInv' /\ BelievedInv'
    BY DEF SenseInv, BelievedInv
  <2>2. ResultInv' /\ StaleInv'
    BY DEF SenseInv, BelievedInv, ResultInv, StaleInv
  <2>3. ForcedInv'
    BY DEF ForcedInv, Working, Locked, PcStates, Handlers
  <2> QED
    BY <2>1, <2>2, <2>3
<1>5. CASE ForceSuspend
  <2> USE <1>5 DEF ForceSuspend
  <2>1. SenseInv' /\ BelievedInv'
    BY DEF SenseInv, BelievedInv
  <2>2. ResultInv' /\ StaleInv'
    BY DEF SenseInv, BelievedInv, ResultInv, StaleInv
  <2>3. ForcedInv'
    BY DEF ForcedInv, Working, Locked, PcStates, Handlers
  <2> QED
    BY <2>1, <2>2, <2>3
<1>6. CASE Abort
  <2> USE <1>6 DEF Abort
  <2>1. SenseInv' /\ BelievedInv'
    BY DEF SenseInv, BelievedInv
  <2>2. ResultInv' /\ StaleInv'
    BY DEF SenseInv, BelievedInv, ResultInv, StaleInv
  <2>3. ForcedInv'
    BY DEF ForcedInv, Working, Locked, PcStates, Handlers
  <2> QED
    BY <2>1, <2>2, <2>3
<1>7. CASE LosePower
  <2> USE <1>7 DEF LosePower, InReset
  <2>1. SenseInv' /\ BelievedInv'
    BY DEF SenseInv, BelievedInv
  <2>2. ResultInv' /\ StaleInv'
    BY DEF SenseInv, BelievedInv, ResultInv, StaleInv
  <2>3. ForcedInv'
    BY DEF ForcedInv, Working, Locked, PcStates, Handlers
  <2> QED
    BY <2>1, <2>2, <2>3
<1>8. CASE Wake
  <2> USE <1>8 DEF Wake
  <2>1. SenseInv' /\ BelievedInv'
    BY DEF SenseInv, BelievedInv
  <2>2. ResultInv' /\ StaleInv'
    BY DEF SenseInv, BelievedInv, ResultInv, StaleInv
  <2>3. ForcedInv'
    BY DEF ForcedInv, Working, Locked, PcStates, Handlers
  <2> QED
    BY <2>1, <2>2, <2>3
<1>9. CASE RuntimeResume
  <2> USE <1>9 DEF RuntimeResume
  <2>1. SenseInv' /\ BelievedInv'
    BY DEF SenseInv, BelievedInv
  <2>2. ResultInv' /\ StaleInv'
    BY DEF SenseInv, BelievedInv, ResultInv, StaleInv
  <2>3. ForcedInv'
    BY DEF ForcedInv, Working, Locked, PcStates, Handlers
  <2> QED
    BY <2>1, <2>2, <2>3
<1>10. CASE CancelSync
  <2> USE <1>10 DEF CancelSync
  <2>1. SenseInv' /\ BelievedInv'
    BY DEF SenseInv, BelievedInv
  <2>2. ResultInv' /\ StaleInv'
    BY DEF SenseInv, BelievedInv, ResultInv, StaleInv
  <2>3. ForcedInv'
    BY DEF ForcedInv, Working, Locked, PcStates, Handlers
  <2> QED
    BY <2>1, <2>2, <2>3
<1>11. CASE Standby
  <2> USE <1>11 DEF Standby
  <2>1. SenseInv' /\ BelievedInv'
    BY DEF SenseInv, BelievedInv
  <2>2. ResultInv' /\ StaleInv'
    BY DEF SenseInv, BelievedInv, ResultInv, StaleInv
  <2>3. ForcedInv'
    BY DEF ForcedInv, Working, Locked, PcStates, Handlers
  <2> QED
    BY <2>1, <2>2, <2>3
<1>12. CASE ShutDown
  <2> USE <1>12 DEF ShutDown, InReset
  <2>1. SenseInv' /\ BelievedInv'
    BY DEF SenseInv, BelievedInv
  <2>2. ResultInv' /\ StaleInv'
    BY DEF SenseInv, BelievedInv, ResultInv, StaleInv
  <2>3. ForcedInv'
    BY DEF ForcedInv, Working, Locked, PcStates, Handlers
  <2> QED
    BY <2>1, <2>2, <2>3
<1>13. CASE HwInit
  <2> USE <1>13 DEF HwInit, InReset
  <2>1. SenseInv' /\ BelievedInv'
    BY DEF SenseInv, BelievedInv
  <2>2. ResultInv' /\ StaleInv'
    BY DEF SenseInv, BelievedInv, ResultInv, StaleInv
  <2>3. ForcedInv'
    BY DEF ForcedInv, Working, Locked, PcStates, Handlers
  <2> QED
    BY <2>1, <2>2, <2>3
<1>14. CASE BringUp
  <2> USE <1>14 DEF BringUp, Bits
  <2>1. SenseInv' /\ BelievedInv'
    BY DEF SenseInv, BelievedInv
  <2>2. ResultInv' /\ StaleInv'
    BY DEF SenseInv, BelievedInv, ResultInv, StaleInv
  <2>3. ForcedInv'
    BY DEF ForcedInv, Working, Locked, PcStates, Handlers
  <2> QED
    BY <2>1, <2>2, <2>3
<1>15. CASE Clear
  <2> USE <1>15 DEF Clear, Bits
  <2>1. SenseInv' /\ BelievedInv'
    BY DEF SenseInv, BelievedInv
  <2>2. ResultInv' /\ StaleInv'
    BY DEF SenseInv, BelievedInv, ResultInv, StaleInv
  <2>3. ForcedInv'
    BY DEF ForcedInv, Working, Locked, PcStates, Handlers
  <2> QED
    BY <2>1, <2>2, <2>3
<1>16. CASE Unmask
  <2> USE <1>16 DEF Unmask, Bits
  <2>1. SenseInv' /\ BelievedInv'
    BY DEF SenseInv, BelievedInv
  <2>2. ResultInv' /\ StaleInv'
    BY DEF SenseInv, BelievedInv, ResultInv, StaleInv
  <2>3. ForcedInv'
    BY DEF ForcedInv, Working, Locked, PcStates, Handlers
  <2> QED
    BY <2>1, <2>2, <2>3
<1>17. CASE EnableUr
  <2> USE <1>17 DEF EnableUr
  <2>1. SenseInv' /\ BelievedInv'
    BY DEF SenseInv, BelievedInv
  <2>2. ResultInv' /\ StaleInv'
    BY DEF SenseInv, BelievedInv, ResultInv, StaleInv
  <2>3. ForcedInv'
    BY DEF ForcedInv, Working, Locked, PcStates, Handlers
  <2> QED
    BY <2>1, <2>2, <2>3
<1>18. CASE Look
  <2> USE <1>18 DEF Look, Bits
  <2>1. SenseInv' /\ BelievedInv'
    BY DEF SenseInv, BelievedInv
  <2>2. ResultInv' /\ StaleInv'
    BY DEF SenseInv, BelievedInv, ResultInv, StaleInv
  <2>3. ForcedInv'
    BY DEF ForcedInv, Working, Locked, PcStates, Handlers
  <2> QED
    BY <2>1, <2>2, <2>3
<1>19. CASE PmReport
  <2> USE <1>19 DEF PmReport
  <2>1. SenseInv' /\ BelievedInv'
    BY DEF SenseInv, BelievedInv
  <2>2. ResultInv' /\ StaleInv'
    BY DEF SenseInv, BelievedInv, ResultInv, StaleInv
  <2>3. ForcedInv'
    BY DEF ForcedInv, Working, Locked, PcStates, Handlers
  <2> QED
    BY <2>1, <2>2, <2>3
<1>20. CASE PmMaskTip
  <2> USE <1>20 DEF PmMaskTip, Masked, Bits
  <2>1. SenseInv' /\ BelievedInv'
    BY DEF SenseInv, BelievedInv
  <2>2. ResultInv' /\ StaleInv'
    BY DEF SenseInv, BelievedInv, ResultInv, StaleInv
  <2>3. ForcedInv'
    BY DEF ForcedInv, Working, Locked, PcStates, Handlers
  <2> QED
    BY <2>1, <2>2, <2>3
<1>21. CASE PmStartDetect
  <2> USE <1>21 DEF PmStartDetect, Started, Bits
  <2>1. SenseInv' /\ BelievedInv'
    BY DEF SenseInv, BelievedInv
  <2>2. ResultInv' /\ StaleInv'
    BY DEF SenseInv, BelievedInv, ResultInv, StaleInv
  <2>3. ForcedInv'
    BY DEF ForcedInv, Working, Locked, PcStates, Handlers
  <2> QED
    BY <2>1, <2>2, <2>3
<1>22. CASE Build
  <2> USE <1>22 DEF Build
  <2>1. SenseInv' /\ BelievedInv'
    BY DEF SenseInv, BelievedInv
  <2>2. ResultInv' /\ StaleInv'
    BY DEF SenseInv, BelievedInv, ResultInv, StaleInv
  <2>3. ForcedInv'
    BY DEF ForcedInv, Working, Locked, PcStates, Handlers
  <2> QED
    BY <2>1, <2>2, <2>3
<1>23. CASE Finish
  <2> USE <1>23 DEF Finish
  <2>1. SenseInv' /\ BelievedInv'
    BY DEF SenseInv, BelievedInv
  <2>2. ResultInv' /\ StaleInv'
    BY DEF SenseInv, BelievedInv, ResultInv, StaleInv
  <2>3. ForcedInv'
    BY DEF ForcedInv, Working, Locked, PcStates, Handlers
  <2> QED
    BY <2>1, <2>2, <2>3
<1> QED
  BY <1>1, <1>2, <1>3, <1>4, <1>5, <1>6, <1>7, <1>8, <1>9, <1>10, <1>11, <1>12, <1>13, <1>14,
     <1>15, <1>16, <1>17, <1>18, <1>19, <1>20, <1>21, <1>22, <1>23, Zenon
     DEF Pm, Callback, LookFails

\* Inductive among the states without an error.
LEMMA KnownNext ==
  ASSUME ~QuickSwap
  PROVE  IInv /\ (errors = 0 => KnownInv) /\ [Next]_vars => (errors = 0 => KnownInv)'
<1> SUFFICES ASSUME IInv, errors = 0 => KnownInv, [Next]_vars, errors' = 0 PROVE KnownInv'
  OBVIOUS
<1>1. TypeOK /\ KnownInv
  BY CountsGrow DEF IInv
<1>2. errors' # errors + 1
  BY <1>1, CountsShow
<1>3. CASE Chip
  BY <1>1, <1>3, ChipKnown
<1>4. CASE TakeResponse \/ SyncFires
  BY <1>1, <1>4, EntryKnown
<1>5. ASSUME NEW h \in Handlers, HandlerStep(h) \/ ReadFails(h) \/ RelookFails(h)
      PROVE  KnownInv'
  <2>1. HandlerStep(h)
    BY <1>2, <1>5, Zenon DEF ReadFails, RelookFails
  <2> QED
    BY <1>1, <2>1, HandlerKnown
<1>6. CASE Pm
  BY <1>1, <1>2, <1>6, PmKnown
<1>7. CASE UNCHANGED vars
  <2>1. UNCHANGED <<jack, ts, tsLatch, tsMask, hsLatch, hsRun, hsType, chipUp, suspended, believed,
                    light, pm, pc, cdc, sync, noRpm, rpm, ur, responses, powerOn>>
    BY <1>7 DEF vars, chip, hdaVars, drvVars, hdlVars
  <2> QED
    BY <1>1, <2>1 DEF KnownInv, SenseInv, BelievedInv, ResultInv, StaleInv, ForcedInv
<1> QED
  BY <1>3, <1>4, <1>5, <1>6, <1>7 DEF Next

\* As long as no read fails, a jack that is gone is believed in only while somebody is on
\* the way to the tip sense status, or a detection that runs will call somebody: through any
\* number of insertions and runtime suspends, and past a system sleep as long as the line is
\* high and responses get through, if a jack is not swapped before its removal was dealt
\* with (cs8409.c:879-892, 2113-2132; the `stale' run shows the swap that is missed, the
\* `line' run how a sleep leaves the line low).
THEOREM JackNoStaleJack ==
  ASSUME ~QuickSwap
  PROVE  Spec => []NoStaleJack
<1>1. ASSUME IInv, errors = 0 => KnownInv, Quiet => WatchInv, errors = 0 => MaskInv
      PROVE  NoStaleJack
  <2> SUFFICES ASSUME errors = 0, believed # 0, believed # jack,
                      sleeps = 0 \/ (powerOn /\ ~LineLow), pm \in Awaiting
               PROVE  Outstanding
    BY DEF NoStaleJack, Outstanding, Awaiting
  <2>1. KnownInv /\ MaskInv /\ jack = 0 /\ (sleeps = 0 => WatchInv)
    BY <1>1 DEF KnownInv, BelievedInv, Quiet
  <2>2. CASE LineLow
    <3>1. LineInv
      BY <2>1, <2>2 DEF WatchInv
    <3> QED
      BY <2>2, <3>1 DEF LineInv, Outstanding
  <2>3. CASE ~LineLow /\ tsMask
    <3>1. chipUp
      BY <2>1 DEF KnownInv, SenseInv, WatchInv, AwakeInv
    <3>2. \/ ~hsMask /\ hsRun
          \/ \E h \in Handlers : pc[h] \in {"tip", "hsoff", "type", "unmask", "start"}
      BY <2>1, <2>3, <3>1 DEF MaskInv, Awaiting, LineLow, Low
    <3> QED
      BY <2>3, <3>2 DEF Outstanding, EdgeToCome
  <2>4. CASE ~LineLow /\ ~tsMask
    <3>1. \E h \in Handlers : pc[h] \in {"hsoff", "type", "unmask", "relook"}
      BY <2>1, <2>4 DEF KnownInv, StaleInv, LineLow, Low, Awaiting
    <3> QED
      BY <3>1 DEF Outstanding
  <2> QED
    BY <2>2, <2>3, <2>4
<1>2. Init => MaskInv
  BY DEF Init, MaskInv
<1> QED
  BY <1>1, <1>2, JackInvariant, KnownInit, KnownNext, WatchInit, WatchNext, MaskNext, PTL
     DEF Spec

=============================================================================
