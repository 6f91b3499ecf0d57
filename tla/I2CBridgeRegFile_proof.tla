------------------------ MODULE I2CBridgeRegFile_proof ------------------------
(***************************************************************************)
(* The I2C helpers implement the register file: every step of a caller is  *)
(* one operation on the register its call names, or none.  The mutex, the  *)
(* clock, the address and the page select are only how it is done.         *)
(***************************************************************************)
EXTENDS I2CBridge_proof

\* Which callers the register file sees in a call.
Active == [t \in Callers |-> pc[t] # "idle"]

\* A caller on its way through a call is active before and after.
LEMMA ActiveStays ==
  ASSUME IInv, NEW t \in Callers, pc[t] # "idle", NEW l, l # "idle",
         pc' = [pc EXCEPT ![t] = l]
  PROVE  Active' = Active
BY DEF IInv, TypeOK, Active

\* One that returns is not active any more.
LEMMA ActiveEnds ==
  ASSUME IInv, NEW t \in Callers, NEW r, Return(t, r)
  PROVE  RegFile!End(t, r)
<1>1. Active' = [Active EXCEPT ![t] = FALSE]
  BY DEF IInv, TypeOK, Active, Return
<1>2. QED
  BY <1>1 DEF Active, Return, RegFile!End

\* Nothing the register file knows of.
LEMMA Stutters ==
  ASSUME UNCHANGED <<mem, callVars>>
  PROVE  UNCHANGED RegFile!vars
BY DEF callVars, RegFile!vars

\* What a transfer reaches is the register the call is at.
LEMMA TransferTarget ==
  ASSUME IInv, ~LostAck, NEW t \in Callers, pc[t] = "xfer"
  PROVE  /\ Reached = {call[t].dev}
         /\ Loc(call[t].dev, hwPage[call[t].dev]) = RegFile!Target(t)
         /\ RegFile!Target(t) \in Locs
<1>1. Reached = {call[t].dev}
  BY ReachedOne
<1>2. call[t].dev \in Paged => hwPage[call[t].dev] = Want(t)
  BY DEF IInv, HolderInv
<1>3. Loc(call[t].dev, Want(t)) \in Locs
  BY EntryFacts DEF IInv
<1>4. QED
  BY <1>1, <1>2, <1>3 DEF RegFile!Target, Loc, Want

\* So a write changes that register and a read returns it.
LEMMA AccessIsEntry ==
  ASSUME IInv, ~LostAck, NEW t \in Callers, pc[t] = "xfer", Access(t)
  PROVE  IF call[t].write
           THEN RegFile!Written(t) /\ UNCHANGED got
           ELSE got' = [got EXCEPT ![t] = mem[RegFile!Target(t)]] /\ UNCHANGED mem
<1> DEFINE T == RegFile!Target(t)
<1>1. /\ T \in Locs
      /\ \A l : (\E d \in Reached : l = Loc(d, hwPage[d])) <=> l = T
      /\ \A d \in Reached : Loc(d, hwPage[d]) = T
      /\ Reached # {}
  BY TransferTarget
<1> HIDE DEF T
<1>2. CASE call[t].write
  <2>1. mem' = [l \in Locs |-> IF l = T THEN Data(t) ELSE mem[l]] /\ got' = got
    BY <1>1, <1>2 DEF Access
  <2>2. mem' = [mem EXCEPT ![T] = Data(t)]
    BY <1>1, <2>1 DEF IInv, TypeOK
  <2>3. QED
    BY <1>2, <2>1, <2>2 DEF RegFile!Written, Data, T
<1>3. CASE ~call[t].write
  BY <1>1, <1>3 DEF Access, T
<1>4. QED
  BY <1>2, <1>3

\* Entering a call starts it, or is refused.
LEMMA EnterRefines ==
  ASSUME IInv, NEW t \in Callers, NEW c \in Calls, Enter(t, c), mem' = mem
  PROVE  RegFile!Refuse(t) \/ RegFile!Start(t, c)
<1>0. ~Active[t]
  BY DEF Enter, Active
<1>1. CASE suspended[c.dev]
  BY <1>0, <1>1 DEF Enter, Active, RegFile!Refuse
<1>2. CASE ~suspended[c.dev]
  <2>1. Active' = [Active EXCEPT ![t] = TRUE]
    BY <1>2 DEF Enter, Active, IInv, TypeOK
  <2>2. QED
    BY <1>0, <1>2, <2>1 DEF Enter, Active, RegFile!Start
<1>3. QED
  BY <1>1, <1>2

\* The steps of a call are one operation each on the register file, or none.
LEMMA CallerRefines ==
  ASSUME IInv, ~LostAck, NEW t \in Callers, CallerStep(t)
  PROVE  RegFile!Entry(t) \/ RegFile!Fail(t) \/ UNCHANGED RegFile!vars
<1> USE DEF hwVars, soft, clkWork
<1>0. CASE \E l \in Inside :
             /\ pc[t] # "idle" /\ pc' = [pc EXCEPT ![t] = l]
             /\ UNCHANGED <<mem, call, at, got, res>>
  <2>1. Active' = Active
    BY <1>0, ActiveStays DEF Inside
  <2>2. QED
    BY <1>0, <2>1 DEF Active, RegFile!vars
<1>1. CASE Lock(t)
  BY <1>0, <1>1 DEF Lock, Inside
<1>2. CASE EnableClock(t)
  BY <1>0, <1>2 DEF EnableClock, Inside
<1>3. CASE SetAddr(t)
  BY <1>0, <1>3 DEF SetAddr, Inside
<1>4. CASE SkipPage(t)
  BY <1>0, <1>4 DEF SkipPage, Inside
<1>5. CASE WritePage(t)
  <2>1. Reached \ Paged = {}
    BY <1>5, ReachedOne DEF WritePage, NeedsPage
  <2>2. mem' = mem
    BY <1>5, <2>1 DEF WritePage, PageLands, IInv, TypeOK
  <2>3. QED
    BY <1>0, <1>5, <2>2 DEF WritePage, Inside
<1>6. CASE RecordPage(t)
  BY <1>0, <1>6 DEF RecordPage, Inside
<1>7. CASE WritePageFails(t)
  <2>1. RegFile!End(t, "EIO")
    BY <1>7, ActiveEnds DEF WritePageFails
  <2>2. Active[t] /\ mem' = mem /\ got' = got
    BY <1>7 DEF WritePageFails, Active
  <2>3. QED
    BY <2>1, <2>2 DEF RegFile!Fail, Active
<1>8. CASE Transfer(t)
  <2>1. /\ Active[t]
        /\ IF call[t].write
             THEN RegFile!Written(t) /\ UNCHANGED got
             ELSE got' = [got EXCEPT ![t] = mem[RegFile!Target(t)]] /\ UNCHANGED mem
    BY <1>8, AccessIsEntry DEF Transfer, Active
  <2>2. CASE at[t] = Len(call[t].regs)
    <3>1. RegFile!End(t, "ok")
      BY <1>8, <2>2, ActiveEnds DEF Transfer
    <3>2. QED
      BY <2>1, <2>2, <3>1 DEF RegFile!Entry, Active
  <2>3. CASE at[t] # Len(call[t].regs)
    <3>1. /\ pc' = [pc EXCEPT ![t] = "clock"] /\ pc[t] # "idle"
          /\ at' = [at EXCEPT ![t] = @ + 1] /\ UNCHANGED <<call, res>>
      BY <1>8, <2>3 DEF Transfer
    <3>2. Active' = Active
      BY <3>1, ActiveStays
    <3>3. QED
      BY <2>1, <2>3, <3>1, <3>2 DEF RegFile!Entry, Active
  <2>4. QED
    BY <2>2, <2>3
<1>9. CASE TransferFails(t)
  <2>1. RegFile!End(t, "EIO") /\ Active[t] /\ got' = got
    BY <1>9, ActiveEnds DEF TransferFails, Active
  <2>2. mem' = mem \/ (call[t].write /\ RegFile!Written(t))
    BY <1>9, AccessIsEntry DEF TransferFails
  <2>3. QED
    BY <2>1, <2>2 DEF RegFile!Fail, Active
<1>10. QED
  BY <1>1, <1>2, <1>3, <1>4, <1>5, <1>6, <1>7, <1>8, <1>9 DEF CallerStep

\* A reset of chips is one of the register file if nobody is in a call to them.
LEMMA ForgottenRefines ==
  ASSUME NEW D \in SUBSET Devs, Forgotten(D), UNCHANGED callVars,
         \A t \in Callers : pc[t] # "idle" => call[t].dev \notin D
  PROVE  RegFile!Next
<1>1. RegFile!Reset(D)
  BY DEF callVars, Forgotten, RegFile!Reset
<1>2. QED
  BY <1>1 DEF RegFile!Next

\* The suspend and resume callbacks access registers, reset chips or do nothing.
LEMMA PmRefines ==
  ASSUME AllGuarded, IInv, PmStep
  PROVE  [RegFile!Next]_(RegFile!vars)
<1> USE DEF hwVars, soft, clkWork
<1>0. Pm \in Callers
  BY DEF Callers
<1>1. CASE TakeJackLock \/ CancelWork \/ FlushWork \/ ForgetAddr \/ MarkSuspended
           \/ SuspendClock \/ StandbyExit \/ DeviceUp
  BY <1>1, Stutters DEF TakeJackLock, CancelWork, FlushWork, ForgetAddr, MarkSuspended,
     SuspendClock, StandbyExit, DeviceUp
<1>2. CASE ResetChip
  <2>1. \A t \in Callers : pc[t] = "idle"
    BY <1>2, MarkFacts DEF ResetChip, IInv, QuiesceInv
  <2>2. {pmDev} \in SUBSET Devs /\ Forgotten({pmDev}) /\ UNCHANGED callVars
    BY <1>2 DEF ResetChip, IInv, TypeOK
  <2>3. QED
    BY <2>1, <2>2, ForgottenRefines
<1>3. CASE HwInit
  <2>1. \A t \in Callers : pc[t] = "idle"
    BY <1>3, QuietFacts DEF HwInit
  <2>2. Paged \in SUBSET Devs /\ Forgotten(Paged) /\ UNCHANGED callVars
    BY <1>3, DevsAssumption DEF HwInit, AllGuarded
  <2>3. QED
    BY <2>1, <2>2, ForgottenRefines
<1>4. ASSUME NEW d \in Devs, ClearSuspended(d) PROVE UNCHANGED RegFile!vars
  BY <1>4, Stutters DEF ClearSuspended
<1>5. ASSUME NEW c \in Calls, Quiesce(c) \/ InitDevice(c)
      PROVE  [RegFile!Next]_(RegFile!vars)
  <2>1. CASE Enter(Pm, c)
    <3>1. mem' = mem
      BY <1>5 DEF Quiesce, InitDevice
    <3>2. QED
      BY <1>0, <2>1, <3>1, EnterRefines DEF RegFile!Next
  <2>2. CASE UNCHANGED <<mem, callVars>>
    BY <2>2, Stutters
  <2>3. QED
    BY <1>5, <2>1, <2>2 DEF Quiesce, InitDevice
<1>6. QED
  BY <1>1, <1>2, <1>3, <1>4, <1>5 DEF PmStep

\* Every step does one operation on the register file, or none.
LEMMA StepRefines ==
  ASSUME AllGuarded, ~LostAck, IInv, [Next]_vars
  PROVE  [RegFile!Next]_(RegFile!vars)
<1> USE DEF hwVars, soft, clkWork
<1>1. ASSUME NEW t \in Threads, NEW c \in Calls, Begin(t, c) PROVE RegFile!Next
  <2>1. t \in Callers /\ Enter(t, c) /\ mem' = mem
    BY <1>1 DEF Begin, Callers
  <2>2. QED
    BY <2>1, EnterRefines DEF RegFile!Next
<1>2. ASSUME NEW t \in Callers, CallerStep(t) PROVE [RegFile!Next]_(RegFile!vars)
  BY <1>2, CallerRefines DEF RegFile!Next
<1>3. CASE Expire \/ DisableClockWorker
  BY <1>3, Stutters DEF Expire, DisableClockWorker
<1>4. ASSUME NEW k, Suspend(k) PROVE UNCHANGED RegFile!vars
  BY <1>4, Stutters DEF Suspend
<1>5. CASE PmStep
  BY <1>5, PmRefines
<1>6. CASE PowerLoss
  <2>1. \A t \in Callers : pc[t] = "idle"
    BY <1>6, QuietFacts DEF PowerLoss
  <2>2. Devs \in SUBSET Devs /\ Forgotten(Devs) /\ UNCHANGED callVars
    BY <1>6 DEF PowerLoss
  <2>3. QED
    BY <2>1, <2>2, ForgottenRefines
<1>7. CASE UNCHANGED vars
  BY <1>7, Stutters DEF vars
<1>8. QED
  BY <1>1, <1>2, <1>3, <1>4, <1>5, <1>6, <1>7 DEF Next

\* cs8409_i2c_read(), _write() and their bulk forms, to their callers: where all
\* callers are guarded and no page write that timed out has reached the chip, each
\* entry of a call reads or writes the very register it names, in order and whole,
\* and no chip forgets a register under a call to it.
THEOREM BridgeRefinesRegFile ==
  ASSUME AllGuarded, ~LostAck
  PROVE  Spec => RegFileSpec
<1>1. Init => RegFile!Init
  BY CallFacts DEF Init, RegFile!Init
<1>2. IInv /\ [Next]_vars => [RegFile!Next]_(RegFile!vars)
  BY StepRefines
<1>3. QED
  BY <1>1, <1>2, InvariantHolds, PTL DEF Spec, RegFileSpec, RegFile!Spec

=============================================================================
