--------------------------- MODULE Mbp131Jack_proof ---------------------------
(***************************************************************************)
(* Proofs about the jack of the MacBookPro13,1: its types, and that what   *)
(* jack_lock, the runtime PM references and `suspended' keep between them  *)
(* is enough for ChipAwake and RuntimeExclusive, for any number of jacks,  *)
(* suspends, sleeps, failed reads and waiting responses.                   *)
(***************************************************************************)
EXTENDS Mbp131Jack, TLAPS

-----------------------------------------------------------------------------
(* The types: the interrupt bits, the other flags, the rest.                *)

\* What the chip does by itself keeps the types of its interrupt bits,
LEMMA ChipLatches ==
  ASSUME TypeOK, Chip
  PROVE  LatchesOK'
<1> USE DEF TypeOK, LatchesOK, Bits, Sense
<1>1. CASE Insert
  BY <1>1, Zenon DEF Insert
<1>2. CASE Debounced
  BY <1>2, Zenon DEF Debounced
<1>3. CASE Pull
  BY <1>3, Zenon DEF Pull
<1>4. CASE AutoDone
  BY <1>4, Zenon DEF AutoDone
<1> QED
  BY <1>1, <1>2, <1>3, <1>4 DEF Chip

\* of the other flags,
LEMMA ChipFlags ==
  ASSUME TypeOK, Chip
  PROVE  FlagsOK'
<1> USE DEF TypeOK, FlagsOK, NoEvent, hdaVars, drvVars, hdlVars, counts
<1>1. CASE Insert
  BY <1>1 DEF Insert
<1>2. CASE Debounced
  BY <1>2 DEF Debounced
<1>3. CASE Pull
  BY <1>3 DEF Pull
<1>4. CASE AutoDone
  BY <1>4 DEF AutoDone, Seen
<1> QED
  BY <1>1, <1>2, <1>3, <1>4 DEF Chip

\* and of everything else.
LEMMA ChipValues ==
  ASSUME TypeOK, Chip
  PROVE  ValuesOK'
<1> USE JackAssumption DEF TypeOK, ValuesOK, Bits, Low, LineLow, Sense, NoEvent, hdaVars, drvVars, hdlVars, counts
<1>1. CASE Insert
  <2>1. responses' \in 0..MaxResponses
    BY <1>1 DEF Insert
  <2> QED
    BY <1>1, <2>1 DEF Insert
<1>2. CASE Debounced
  BY <1>2 DEF Debounced
<1>3. CASE Pull
  BY <1>3 DEF Pull
<1>4. CASE AutoDone
  BY <1>4 DEF AutoDone, Seen
<1> QED
  BY <1>1, <1>2, <1>3, <1>4 DEF Chip

\* The same for the steps of the jack handler and the sync work: the bits,
LEMMA HandlerLatches ==
  ASSUME TypeOK, NEW h \in Handlers, HandlerStep(h) \/ ReadFails(h) \/ RelookFails(h)
  PROVE  LatchesOK'
<1> USE DEF TypeOK, LatchesOK, Bits, KeepChip, chip
<1>1. CASE GetReference(h)
  BY <1>1, Zenon DEF GetReference, Active
<1>2. CASE TakeLock(h)
  BY <1>2, Zenon DEF TakeLock
<1>3. CASE ReadStatus(h)
  BY <1>3, Zenon DEF ReadStatus
<1>4. CASE ReadTip(h)
  BY <1>4, Zenon DEF ReadTip
<1>5. CASE StopDetect(h)
  BY <1>5, Zenon DEF StopDetect
<1>6. CASE SetType(h)
  BY <1>6, Zenon DEF SetType
<1>7. CASE UnmaskTip(h)
  BY <1>7, Zenon DEF UnmaskTip
<1>8. CASE Relook(h)
  BY <1>8, Zenon DEF Relook
<1>9. CASE Report(h)
  BY <1>9, Zenon DEF Report
<1>10. CASE MaskTip(h)
  BY <1>10, Zenon DEF MaskTip, Masked
<1>11. CASE StartDetect(h)
  BY <1>11, Zenon DEF StartDetect, Started
<1>12. CASE Release(h)
  BY <1>12, Zenon DEF Release
<1>13. CASE ReadFails(h)
  BY <1>13, Zenon DEF ReadFails
<1>14. CASE RelookFails(h)
  BY <1>14, Zenon DEF RelookFails
<1> QED
  BY <1>1, <1>2, <1>3, <1>4, <1>5, <1>6, <1>7, <1>8, <1>9, <1>10, <1>11, <1>12, <1>13,
     <1>14, Zenon DEF HandlerStep

\* the flags,
LEMMA HandlerFlags ==
  ASSUME TypeOK, NEW h \in Handlers, HandlerStep(h) \/ ReadFails(h) \/ RelookFails(h)
  PROVE  FlagsOK'
<1> USE DEF TypeOK, FlagsOK, KeepChip, KeepPm, KeepJack, chip
<1>1. CASE GetReference(h)
  BY <1>1 DEF GetReference, Active
<1>2. CASE TakeLock(h)
  BY <1>2 DEF TakeLock
<1>3. CASE ReadStatus(h)
  BY <1>3 DEF ReadStatus
<1>4. CASE ReadTip(h)
  BY <1>4 DEF ReadTip
<1>5. CASE StopDetect(h)
  BY <1>5 DEF StopDetect
<1>6. CASE SetType(h)
  BY <1>6 DEF SetType
<1>7. CASE UnmaskTip(h)
  BY <1>7 DEF UnmaskTip
<1>8. CASE Relook(h)
  BY <1>8 DEF Relook
<1>9. CASE Report(h)
  BY <1>9 DEF Report
<1>10. CASE MaskTip(h)
  BY <1>10 DEF MaskTip, Masked
<1>11. CASE StartDetect(h)
  BY <1>11 DEF StartDetect, Started
<1>12. CASE Release(h)
  BY <1>12 DEF Release
<1>13. CASE ReadFails(h)
  BY <1>13 DEF ReadFails
<1>14. CASE RelookFails(h)
  BY <1>14 DEF RelookFails
<1> QED
  BY <1>1, <1>2, <1>3, <1>4, <1>5, <1>6, <1>7, <1>8, <1>9, <1>10, <1>11, <1>12, <1>13,
     <1>14, Zenon DEF HandlerStep

\* the rest.
LEMMA HandlerValues ==
  ASSUME TypeOK, NEW h \in Handlers, HandlerStep(h) \/ ReadFails(h) \/ RelookFails(h)
  PROVE  ValuesOK'
<1> USE JackAssumption DEF TypeOK, ValuesOK, Bits, Low, LineLow, KeepChip, KeepPm, KeepJack, Goto, PcStates,
                       chip
<1>1. CASE GetReference(h)
  BY <1>1 DEF GetReference, Active
<1>2. CASE TakeLock(h)
  BY <1>2 DEF TakeLock
<1>3. CASE ReadStatus(h)
  <2>1. responses' \in 0..MaxResponses
    BY <1>3 DEF ReadStatus
  <2>2. cdc' \in [Handlers -> BOOLEAN]
    BY <1>3 DEF ReadStatus, LatchesOK
  <2> QED
    BY <1>3, <2>1, <2>2 DEF ReadStatus
<1>4. CASE ReadTip(h)
  BY <1>4 DEF ReadTip
<1>5. CASE StopDetect(h)
  BY <1>5 DEF StopDetect
<1>6. CASE SetType(h)
  BY <1>6 DEF SetType, Seen
<1>7. CASE UnmaskTip(h)
  BY <1>7 DEF UnmaskTip
<1>8. CASE Relook(h)
  BY <1>8 DEF Relook
<1>9. CASE Report(h)
  BY <1>9 DEF Report
<1>10. CASE MaskTip(h)
  BY <1>10 DEF MaskTip, Masked
<1>11. CASE StartDetect(h)
  BY <1>11 DEF StartDetect, Started
<1>12. CASE Release(h)
  BY <1>12 DEF Release
<1>13. CASE ReadFails(h)
  BY <1>13 DEF ReadFails
<1>14. CASE RelookFails(h)
  BY <1>14 DEF RelookFails
<1> QED
  BY <1>1, <1>2, <1>3, <1>4, <1>5, <1>6, <1>7, <1>8, <1>9, <1>10, <1>11, <1>12, <1>13,
     <1>14, Zenon DEF HandlerStep

\* And for the PM callbacks, the core and the fixups: the bits,
LEMMA PmLatches ==
  ASSUME TypeOK, Pm
  PROVE  LatchesOK'
<1> USE DEF TypeOK, LatchesOK, Bits, KeepChip, chip
<1>1. CASE Use
  BY <1>1, Zenon DEF Use
<1>2. CASE Register
  BY <1>2, Zenon DEF Register
<1>3. CASE RuntimeSuspend
  BY <1>3, Zenon DEF RuntimeSuspend
<1>4. CASE Prepare
  BY <1>4, Zenon DEF Prepare
<1>5. CASE ForceSuspend
  BY <1>5, Zenon DEF ForceSuspend
<1>6. CASE Abort
  BY <1>6, Zenon DEF Abort
<1>7. CASE LosePower
  BY <1>7, Zenon DEF LosePower, InReset
<1>8. CASE Wake
  BY <1>8, Zenon DEF Wake
<1>9. CASE RuntimeResume
  BY <1>9, Zenon DEF RuntimeResume
<1>10. CASE LookFails
  BY <1>10, Zenon DEF LookFails
<1>11. CASE CancelSync
  BY <1>11, Zenon DEF CancelSync
<1>12. CASE Standby
  BY <1>12, Zenon DEF Standby
<1>13. CASE ShutDown
  BY <1>13, Zenon DEF ShutDown, InReset
<1>14. CASE HwInit
  BY <1>14, Zenon DEF HwInit, InReset
<1>15. CASE BringUp
  BY <1>15, Zenon DEF BringUp
<1>16. CASE Clear
  BY <1>16, Zenon DEF Clear
<1>17. CASE Unmask
  BY <1>17, Zenon DEF Unmask
<1>18. CASE EnableUr
  BY <1>18, Zenon DEF EnableUr
<1>19. CASE Look
  BY <1>19, Zenon DEF Look
<1>20. CASE PmReport
  BY <1>20, Zenon DEF PmReport
<1>21. CASE PmMaskTip
  BY <1>21, Zenon DEF PmMaskTip, Masked
<1>22. CASE PmStartDetect
  BY <1>22, Zenon DEF PmStartDetect, Started
<1>23. CASE Build
  BY <1>23, Zenon DEF Build
<1>24. CASE Finish
  BY <1>24, Zenon DEF Finish
<1> QED
  BY <1>1, <1>2, <1>3, <1>4, <1>5, <1>6, <1>7, <1>8, <1>9, <1>10, <1>11, <1>12, <1>13,
     <1>14, <1>15, <1>16, <1>17, <1>18, <1>19, <1>20, <1>21, <1>22, <1>23, <1>24, Zenon
     DEF Pm, Callback

\* the flags,
LEMMA PmFlags ==
  ASSUME TypeOK, Pm
  PROVE  FlagsOK'
<1> USE DEF TypeOK, FlagsOK, Then, KeepChip, KeepHda, chip, hdaVars, drvVars, hdlVars, counts
<1>1. CASE Use
  BY <1>1 DEF Use
<1>2. CASE Register
  BY <1>2 DEF Register
<1>3. CASE RuntimeSuspend
  BY <1>3 DEF RuntimeSuspend
<1>4. CASE Prepare
  BY <1>4 DEF Prepare
<1>5. CASE ForceSuspend
  BY <1>5 DEF ForceSuspend
<1>6. CASE Abort
  BY <1>6 DEF Abort
<1>7. CASE LosePower
  BY <1>7 DEF LosePower, InReset
<1>8. CASE Wake
  BY <1>8 DEF Wake
<1>9. CASE RuntimeResume
  BY <1>9 DEF RuntimeResume
<1>10. CASE LookFails
  BY <1>10 DEF LookFails
<1>11. CASE CancelSync
  BY <1>11 DEF CancelSync
<1>12. CASE Standby
  BY <1>12 DEF Standby
<1>13. CASE ShutDown
  BY <1>13 DEF ShutDown, InReset
<1>14. CASE HwInit
  BY <1>14 DEF HwInit, InReset
<1>15. CASE BringUp
  BY <1>15 DEF BringUp
<1>16. CASE Clear
  BY <1>16 DEF Clear
<1>17. CASE Unmask
  BY <1>17 DEF Unmask
<1>18. CASE EnableUr
  BY <1>18 DEF EnableUr
<1>19. CASE Look
  BY <1>19 DEF Look
<1>20. CASE PmReport
  BY <1>20 DEF PmReport
<1>21. CASE PmMaskTip
  BY <1>21 DEF PmMaskTip, Masked
<1>22. CASE PmStartDetect
  BY <1>22 DEF PmStartDetect, Started
<1>23. CASE Build
  BY <1>23 DEF Build
<1>24. CASE Finish
  BY <1>24 DEF Finish
<1> QED
  BY <1>1, <1>2, <1>3, <1>4, <1>5, <1>6, <1>7, <1>8, <1>9, <1>10, <1>11, <1>12, <1>13,
     <1>14, <1>15, <1>16, <1>17, <1>18, <1>19, <1>20, <1>21, <1>22, <1>23, <1>24, Zenon
     DEF Pm, Callback

\* the rest.
LEMMA PmValues ==
  ASSUME TypeOK, Pm
  PROVE  ValuesOK'
<1> USE JackAssumption DEF TypeOK, ValuesOK, Bits, Low, LineLow, Then, PmStates, KeepChip,
                       KeepHda, chip, hdaVars, drvVars, hdlVars, counts
<1>1. CASE Use
  BY <1>1 DEF Use
<1>2. CASE Register
  BY <1>2 DEF Register
<1>3. CASE RuntimeSuspend
  BY <1>3 DEF RuntimeSuspend
<1>4. CASE Prepare
  BY <1>4 DEF Prepare
<1>5. CASE ForceSuspend
  BY <1>5 DEF ForceSuspend
<1>6. CASE Abort
  BY <1>6 DEF Abort
<1>7. CASE LosePower
  BY <1>7 DEF LosePower, InReset
<1>8. CASE Wake
  BY <1>8 DEF Wake
<1>9. CASE RuntimeResume
  BY <1>9 DEF RuntimeResume
<1>10. CASE LookFails
  BY <1>10 DEF LookFails
<1>11. CASE CancelSync
  BY <1>11 DEF CancelSync
<1>12. CASE Standby
  BY <1>12 DEF Standby
<1>13. CASE ShutDown
  BY <1>13 DEF ShutDown, InReset
<1>14. CASE HwInit
  BY <1>14 DEF HwInit, InReset
<1>15. CASE BringUp
  BY <1>15 DEF BringUp
<1>16. CASE Clear
  BY <1>16 DEF Clear
<1>17. CASE Unmask
  BY <1>17 DEF Unmask
<1>18. CASE EnableUr
  BY <1>18 DEF EnableUr
<1>19. CASE Look
  BY <1>19 DEF Look
<1>20. CASE PmReport
  BY <1>20 DEF PmReport
<1>21. CASE PmMaskTip
  BY <1>21 DEF PmMaskTip, Masked
<1>22. CASE PmStartDetect
  BY <1>22 DEF PmStartDetect, Started
<1>23. CASE Build
  BY <1>23 DEF Build
<1>24. CASE Finish
  BY <1>24 DEF Finish
<1> HIDE JackAssumption DEF TypeOK, ValuesOK, Bits, Low, LineLow, chip
<1> QED
  BY <1>1, <1>2, <1>3, <1>4, <1>5, <1>6, <1>7, <1>8, <1>9, <1>10, <1>11, <1>12, <1>13,
     <1>14, <1>15, <1>16, <1>17, <1>18, <1>19, <1>20, <1>21, <1>22, <1>23, <1>24, Zenon
     DEF Pm, Callback

\* The state at the probe is of the declared types.
LEMMA JackTypeInit == Init => TypeOK
<1> SUFFICES ASSUME Init PROVE TypeOK
  OBVIOUS
<1>1. LatchesOK /\ FlagsOK
  BY DEF Init, LatchesOK, FlagsOK
<1>2. ValuesOK
  BY JackAssumption DEF Init, ValuesOK, Handlers, NoHolder, PcStates, PmStates
<1> QED
  BY <1>1, <1>2 DEF TypeOK

\* Every step keeps the types.
LEMMA JackTypeNext == TypeOK /\ [Next]_vars => TypeOK'
<1> SUFFICES ASSUME TypeOK, [Next]_vars PROVE TypeOK'
  OBVIOUS
<1>1. CASE Chip
  BY <1>1, ChipLatches, ChipFlags, ChipValues DEF TypeOK
<1>2. CASE TakeResponse \/ SyncFires
  <2>1. LatchesOK' /\ FlagsOK'
    BY <1>2 DEF TakeResponse, SyncFires, TypeOK, LatchesOK, FlagsOK, KeepChip, KeepPm, chip
  <2>2. ValuesOK'
    BY <1>2, JackAssumption
       DEF TakeResponse, SyncFires, TypeOK, ValuesOK, Goto, PcStates, KeepChip, KeepPm, chip
  <2> QED
    BY <2>1, <2>2 DEF TypeOK
<1>3. CASE \E h \in Handlers : HandlerStep(h) \/ ReadFails(h) \/ RelookFails(h)
  BY <1>3, HandlerLatches, HandlerFlags, HandlerValues DEF TypeOK
<1>4. CASE Pm
  BY <1>4, PmLatches, PmFlags, PmValues DEF TypeOK
<1>5. CASE UNCHANGED vars
  <2>1. LatchesOK' /\ FlagsOK'
    BY <1>5 DEF TypeOK, LatchesOK, FlagsOK, vars, chip, hdaVars, drvVars, hdlVars, counts
  <2>2. ValuesOK'
    BY <1>5 DEF TypeOK, ValuesOK, vars, chip, hdaVars, drvVars, hdlVars, counts
  <2> QED
    BY <2>1, <2>2 DEF TypeOK
<1> QED
  BY <1>1, <1>2, <1>3, <1>4, <1>5 DEF Next

-----------------------------------------------------------------------------
(* The inductive invariant. A step of the chip, of a handler and of the PM *)
(* thread, each against the parts it can disturb.                          *)

JackFrame == UNCHANGED <<registered, powerOn, rpm, noRpm, sleep, suspended, pm, chipUp>>

\* The hardware alone changes nothing the invariant is about.
LEMMA ChipKeeps ==
  Chip \/ UNCHANGED vars => JackFrame /\ UNCHANGED <<lock, pc, ref>>
BY DEF Chip, Insert, Debounced, Pull, AutoDone, NoEvent, JackFrame, vars, chip, hdaVars,
       drvVars, hdlVars, counts

\* Nor do the handlers, but for their own places, the lock and the references.
LEMMA HandlerFrame ==
  ASSUME NEW h \in Handlers, HandlerStep(h) \/ ReadFails(h) \/ RelookFails(h)
  PROVE  JackFrame
<1> USE DEF JackFrame, KeepChip, KeepPm, KeepJack, chip
<1>1. CASE GetReference(h)
  BY <1>1 DEF GetReference
<1>2. CASE TakeLock(h)
  BY <1>2 DEF TakeLock
<1>3. CASE ReadStatus(h)
  BY <1>3 DEF ReadStatus
<1>4. CASE ReadTip(h)
  BY <1>4 DEF ReadTip
<1>5. CASE StopDetect(h)
  BY <1>5 DEF StopDetect
<1>6. CASE SetType(h)
  BY <1>6 DEF SetType
<1>7. CASE UnmaskTip(h)
  BY <1>7 DEF UnmaskTip
<1>8. CASE Relook(h)
  BY <1>8 DEF Relook
<1>9. CASE Report(h)
  BY <1>9 DEF Report
<1>10. CASE MaskTip(h)
  BY <1>10 DEF MaskTip
<1>11. CASE StartDetect(h)
  BY <1>11 DEF StartDetect
<1>12. CASE Release(h)
  BY <1>12 DEF Release
<1>13. CASE ReadFails(h)
  BY <1>13 DEF ReadFails
<1>14. CASE RelookFails(h)
  BY <1>14 DEF RelookFails
<1> QED
  BY <1>1, <1>2, <1>3, <1>4, <1>5, <1>6, <1>7, <1>8, <1>9, <1>10, <1>11, <1>12, <1>13,
     <1>14, Zenon DEF HandlerStep

\* Where a handler goes: into the lock when it is free and the chip not suspended,
\* from one place in it to another, or out of it.
HandlerMove(h) ==
  \/ /\ pc[h] = "entered" /\ UNCHANGED lock
     /\ \/ Active /\ Goto(h, "lock") /\ \E a \in {-1, 1} : ref' = [ref EXCEPT ![h] = a]
        \/ Goto(h, "idle") /\ ref' = [ref EXCEPT ![h] = 0]
  \/ /\ pc[h] = "lock" /\ lock = NoHolder /\ lock' = h /\ UNCHANGED ref
     /\ \/ Goto(h, "release")
        \/ ~suspended /\ Goto(h, "status")
  \/ /\ pc[h] \in Working /\ UNCHANGED <<lock, ref>>
     /\ \E l \in Locked : Goto(h, l)
  \/ /\ pc[h] = "release" /\ lock' = NoHolder /\ Goto(h, "idle")
     /\ ref' = [ref EXCEPT ![h] = 0]

\* Where a step of one handler can take it, and that the other stays where it is.
LEMMA HandlerMoves ==
  ASSUME NEW h \in Handlers, HandlerStep(h) \/ ReadFails(h) \/ RelookFails(h)
  PROVE  HandlerMove(h)
<1> USE DEF HandlerMove, KeepJack, Working, Locked, PcStates, Goto
<1>1. CASE GetReference(h)
  BY <1>1 DEF GetReference
<1>2. CASE TakeLock(h)
  BY <1>2 DEF TakeLock
<1>3. CASE ReadStatus(h)
  BY <1>3 DEF ReadStatus
<1>4. CASE ReadTip(h)
  BY <1>4 DEF ReadTip
<1>5. CASE StopDetect(h)
  BY <1>5 DEF StopDetect
<1>6. CASE SetType(h)
  BY <1>6 DEF SetType
<1>7. CASE UnmaskTip(h)
  BY <1>7 DEF UnmaskTip
<1>8. CASE Relook(h)
  BY <1>8 DEF Relook
<1>9. CASE Report(h)
  BY <1>9 DEF Report
<1>10. CASE MaskTip(h)
  BY <1>10 DEF MaskTip
<1>11. CASE StartDetect(h)
  BY <1>11 DEF StartDetect
<1>12. CASE Release(h)
  BY <1>12 DEF Release
<1>13. CASE ReadFails(h)
  BY <1>13 DEF ReadFails
<1>14. CASE RelookFails(h)
  BY <1>14 DEF RelookFails
<1> QED
  BY <1>1, <1>2, <1>3, <1>4, <1>5, <1>6, <1>7, <1>8, <1>9, <1>10, <1>11, <1>12, <1>13,
     <1>14, Zenon DEF HandlerStep


\* The inductive invariant holds at the probe.
LEMMA JackInvInit == Init => IInv
<1> SUFFICES ASSUME Init PROVE IInv
  OBVIOUS
<1>1. TypeOK
  BY JackTypeInit
<1>2. LockInv /\ RefInv
  BY DEF Init, LockInv, RefInv, Locked, PcStates, NoHolder, Handlers
<1>3. PmInv /\ ChipInv
  BY DEF Init, PmInv, ChipInv, Working, Locked
<1> QED
  BY <1>1, <1>2, <1>3 DEF IInv

\* The handler and the work keep it: TakeLock sees `suspended' under jack_lock.
LEMMA HandlerSafe ==
  ASSUME IInv, NEW h \in Handlers, HandlerMove(h), JackFrame
  PROVE  LockInv' /\ RefInv' /\ PmInv' /\ ChipInv'
<1> USE DEF IInv, TypeOK, JackFrame, Handlers, Goto
<1>1. LockInv'
  BY DEF HandlerMove, LockInv, ValuesOK, Locked, Working, PcStates, NoHolder
<1>2. RefInv'
  BY DEF HandlerMove, RefInv, Active, ValuesOK
<1>3. PmInv'
  BY DEF PmInv
<1>4. ChipInv'
  BY DEF HandlerMove, ChipInv, LockInv, ValuesOK, Locked, Working, PcStates
<1> QED
  BY <1>1, <1>2, <1>3, <1>4

\* A response or the delay of the work brings a handler in, once registered.
LEMMA EntrySafe ==
  ASSUME IInv, TakeResponse \/ SyncFires
  PROVE  LockInv' /\ RefInv' /\ PmInv' /\ ChipInv'
<1> USE DEF IInv, TypeOK, TakeResponse, SyncFires, KeepChip, KeepPm, chip, Goto, Handlers
<1>1. LockInv' /\ RefInv'
  BY DEF LockInv, RefInv, ValuesOK, Locked, PcStates
<1>2. PmInv' /\ ChipInv'
  BY DEF PmInv, ChipInv, ValuesOK, Locked, Working
<1> QED
  BY <1>1, <1>2

\* The PM thread takes no lock and leaves the handlers where they are.
LEMMA PmFrame == Pm => UNCHANGED <<lock, pc, ref>>
<1> SUFFICES ASSUME Pm PROVE UNCHANGED <<lock, pc, ref>>
  OBVIOUS
<1> USE DEF KeepHda, hdlVars
<1>1. CASE Use
  BY <1>1 DEF Use
<1>2. CASE Register
  BY <1>2 DEF Register
<1>3. CASE RuntimeSuspend
  BY <1>3 DEF RuntimeSuspend
<1>4. CASE Prepare
  BY <1>4 DEF Prepare
<1>5. CASE ForceSuspend
  BY <1>5 DEF ForceSuspend
<1>6. CASE Abort
  BY <1>6 DEF Abort
<1>7. CASE LosePower
  BY <1>7 DEF LosePower
<1>8. CASE Wake
  BY <1>8 DEF Wake
<1>9. CASE RuntimeResume
  BY <1>9 DEF RuntimeResume
<1>10. CASE LookFails
  BY <1>10 DEF LookFails
<1>11. CASE CancelSync
  BY <1>11 DEF CancelSync
<1>12. CASE Standby
  BY <1>12 DEF Standby
<1>13. CASE ShutDown
  BY <1>13 DEF ShutDown
<1>14. CASE HwInit
  BY <1>14 DEF HwInit
<1>15. CASE BringUp
  BY <1>15 DEF BringUp
<1>16. CASE Clear
  BY <1>16 DEF Clear
<1>17. CASE Unmask
  BY <1>17 DEF Unmask
<1>18. CASE EnableUr
  BY <1>18 DEF EnableUr
<1>19. CASE Look
  BY <1>19 DEF Look
<1>20. CASE PmReport
  BY <1>20 DEF PmReport
<1>21. CASE PmMaskTip
  BY <1>21 DEF PmMaskTip
<1>22. CASE PmStartDetect
  BY <1>22 DEF PmStartDetect
<1>23. CASE Build
  BY <1>23 DEF Build
<1>24. CASE Finish
  BY <1>24 DEF Finish
<1> QED
  BY <1>1, <1>2, <1>3, <1>4, <1>5, <1>6, <1>7, <1>8, <1>9, <1>10, <1>11, <1>12, <1>13,
     <1>14, <1>15, <1>16, <1>17, <1>18, <1>19, <1>20, <1>21, <1>22, <1>23, <1>24, Zenon
     DEF Pm, Callback

\* The PM callbacks keep it: ShutDown waits for jack_lock, a runtime suspend for
\* the references.
LEMMA PmSafe ==
  ASSUME IInv, Pm
  PROVE  RefInv' /\ PmInv' /\ ChipInv'
<1> USE PmFrame DEF IInv, TypeOK, ValuesOK, RefInv, PmInv, ChipInv, LockInv, Working, Locked,
                    Then, KeepHda, KeepChip, chip, hdaVars, drvVars, hdlVars, counts,
                    Handlers, NoHolder, PmStates
<1>1. CASE Use
  BY <1>1 DEF Use
<1>2. CASE Register
  BY <1>2 DEF Register
<1>3. CASE RuntimeSuspend
  BY <1>3 DEF RuntimeSuspend
<1>4. CASE Prepare
  BY <1>4 DEF Prepare
<1>5. CASE ForceSuspend
  BY <1>5 DEF ForceSuspend
<1>6. CASE Abort
  BY <1>6 DEF Abort
<1>7. CASE LosePower
  BY <1>7 DEF LosePower, InReset
<1>8. CASE Wake
  BY <1>8 DEF Wake
<1>9. CASE RuntimeResume
  BY <1>9 DEF RuntimeResume
<1>10. CASE LookFails
  <2>1. /\ pm = "look" /\ pm' = "finish"
        /\ UNCHANGED <<chipUp, suspended, registered, powerOn, rpm, noRpm, sleep>>
    BY <1>10, Zenon DEF LookFails
  <2> QED
    BY <2>1
<1>11. CASE CancelSync
  BY <1>11 DEF CancelSync
<1>12. CASE Standby
  BY <1>12 DEF Standby
<1>13. CASE ShutDown
  BY <1>13 DEF ShutDown, InReset
<1>14. CASE HwInit
  BY <1>14 DEF HwInit, InReset
<1>15. CASE BringUp
  BY <1>15 DEF BringUp
<1>16. CASE Clear
  BY <1>16 DEF Clear
<1>17. CASE Unmask
  BY <1>17 DEF Unmask
<1>18. CASE EnableUr
  BY <1>18 DEF EnableUr
<1>19. CASE Look
  BY <1>19 DEF Look
<1>20. CASE PmReport
  BY <1>20 DEF PmReport
<1>21. CASE PmMaskTip
  BY <1>21 DEF PmMaskTip
<1>22. CASE PmStartDetect
  BY <1>22 DEF PmStartDetect
<1>23. CASE Build
  BY <1>23 DEF Build
<1>24. CASE Finish
  BY <1>24 DEF Finish
<1> QED
  BY <1>1, <1>2, <1>3, <1>4, <1>5, <1>6, <1>7, <1>8, <1>9, <1>10, <1>11, <1>12, <1>13,
     <1>14, <1>15, <1>16, <1>17, <1>18, <1>19, <1>20, <1>21, <1>22, <1>23, <1>24, Zenon
     DEF Pm, Callback

\* The invariant is inductive.
LEMMA JackInvNext == IInv /\ [Next]_vars => IInv'
<1> SUFFICES ASSUME IInv, [Next]_vars PROVE IInv'
  OBVIOUS
<1>1. TypeOK'
  BY JackTypeNext DEF IInv
<1>2. LockInv' /\ RefInv' /\ PmInv' /\ ChipInv'
  <2>1. CASE Chip \/ UNCHANGED vars
    BY <2>1, ChipKeeps DEF IInv, JackFrame, LockInv, RefInv, PmInv, ChipInv
  <2>2. CASE TakeResponse \/ SyncFires
    BY <2>2, EntrySafe
  <2>3. CASE \E h \in Handlers : HandlerStep(h) \/ ReadFails(h) \/ RelookFails(h)
    BY <2>3, HandlerFrame, HandlerMoves, HandlerSafe
  <2>4. CASE Pm
    <3>1. LockInv'
      BY <2>4, PmFrame DEF IInv, LockInv
    <3> QED
      BY <2>4, <3>1, PmSafe
  <2> QED
    BY <2>1, <2>2, <2>3, <2>4 DEF Next
<1> QED
  BY <1>1, <1>2 DEF IInv

\* jack_lock, the references of the handlers, `suspended' and the runtime PM status
\* stay consistent, through every interleaving of handler, sync work, suspends,
\* resumes and sleeps (cs8409.c:1941-2026, 2143-2259).
THEOREM JackInvariant == Spec => []IInv
BY JackInvInit, JackInvNext, PTL DEF Spec
-----------------------------------------------------------------------------
(* What follows from it, for every value of the constants.                 *)

\* The types.
THEOREM JackTypeCorrect == Spec => []TypeOK
BY JackInvariant, PTL DEF IInv

\* No chip is put into reset under a handler, a system sleep that does not wait for
\* references included: ShutDown takes jack_lock (cs8409.c:2160-2171).
THEOREM JackChipAwake == Spec => []ChipAwake
<1>1. IInv => ChipAwake
  BY DEF IInv, ChipInv, ChipAwake, Working, Locked, Handlers
<1> QED
  BY JackInvariant, <1>1, PTL

\* With runtime PM on, a codec on its way down or up, or suspended, has no handler in
\* its I2C sequences (cs8409.c:1963-1969).
THEOREM JackRuntimeExclusive == Spec => []RuntimeExclusive
<1>1. IInv => RuntimeExclusive
  BY DEF IInv, LockInv, RefInv, RuntimeExclusive, Working, Locked
<1> QED
  BY JackInvariant, <1>1, PTL

=============================================================================
