--------------------------- MODULE I2CBridge_proof ---------------------------
(***************************************************************************)
(* Type correctness of the bridge and, for a board all of whose callers    *)
(* are guarded, the safety of a transfer; and of its clock, that someone   *)
(* always turns it off, that nobody but the full init starts it unknown to *)
(* the driver, and that the suspend leaves the bridge quiet.  For any set  *)
(* of callers, devices, pages and calls.                                   *)
(***************************************************************************)
EXTENDS I2CBridge, SequenceTheorems, TLAPS

\* What the assumption on Calls says of one call, and of the call that stands
\* for none.
LEMMA CallFacts ==
  /\ AnyCall \in Calls
  /\ \A c \in Calls : /\ c.dev \in Devs /\ c.write \in BOOLEAN /\ c.bulk \in BOOLEAN
                      /\ Len(c.regs) \in Nat \ {0}
                      /\ ~c.bulk => Len(c.regs) = 1
                      /\ \A i \in 1 .. Len(c.regs) :
                           c.regs[i].page \in Pages /\ c.regs[i].val \in Vals
<1>1. AnyCall \in Calls
  BY CallsAssumption DEF AnyCall
<1>2. ASSUME NEW c \in Calls
      PROVE  /\ c.dev \in Devs /\ c.write \in BOOLEAN /\ c.bulk \in BOOLEAN
             /\ Len(c.regs) \in Nat \ {0}
             /\ ~c.bulk => Len(c.regs) = 1
             /\ \A i \in 1 .. Len(c.regs) :
                  c.regs[i].page \in Pages /\ c.regs[i].val \in Vals
  <2>1. c \in CallType /\ Len(c.regs) > 0 /\ (~c.bulk => Len(c.regs) = 1)
    BY CallsAssumption
  <2>2. c.dev \in Devs /\ c.write \in BOOLEAN /\ c.bulk \in BOOLEAN
    BY <2>1 DEF CallType
  <2>3. c.regs \in Seq([page: Pages, val: Vals])
    BY <2>1 DEF CallType
  <2>4. Len(c.regs) \in Nat
    BY <2>3
  <2>5. ASSUME NEW i \in 1 .. Len(c.regs) PROVE c.regs[i] \in [page: Pages, val: Vals]
    BY <2>3, ElementOfSeq
  <2>6. QED
    BY <2>1, <2>2, <2>4, <2>5
<1>3. QED
  BY <1>1, <1>2

\* What a caller that is in a call asks for is of the right kind.
LEMMA EntryFacts ==
  ASSUME TypeOK, NEW t \in Callers
  PROVE  /\ call[t].dev \in Devs /\ Want(t) \in Pages /\ Data(t) \in Vals
         /\ \A d \in Devs, p \in Pages \union {NoPage} : Loc(d, p) \in Locs
<1>1. call[t] \in Calls /\ at[t] \in 1 .. Len(call[t].regs)
  <2>1. call[t] \in Calls /\ at[t] \in Nat \ {0} /\ at[t] <= Len(call[t].regs)
    BY DEF TypeOK
  <2>2. Len(call[t].regs) \in Nat
    BY <2>1, CallFacts
  <2>3. QED
    BY <2>1, <2>2
<1>2. QED
  BY <1>1, CallFacts DEF Want, Data, Loc, Locs

-----------------------------------------------------------------------------

\* The state the probe leaves is of the declared types.
LEMMA TypeInit == Init => TypeOK
<1> SUFFICES ASSUME Init PROVE TypeOK
  OBVIOUS
<1>1. AnyCall \in Calls /\ Len(AnyCall.regs) \in Nat \ {0}
  BY CallFacts
<1>2. /\ call \in [Callers -> Calls] /\ at \in [Callers -> Nat \ {0}]
      /\ \A t \in Callers : at[t] <= Len(call[t].regs)
  BY <1>1 DEF Init
<1>3. /\ pc \in [Callers -> Outside \union Inside]
      /\ got \in [Callers -> Vals] /\ res \in [Callers -> Results]
      /\ mem \in [Locs -> Vals]
  BY ValsAssumption DEF Init, Outside, Results
<1>4. /\ hwPage \in [Devs -> Pages \union {NoPage}]
      /\ lastPage \in [Devs -> Pages \union {NoPage}]
      /\ suspended \in [Devs -> BOOLEAN] /\ pmDev \in Devs
      /\ pm \in PmStates
  BY DevsAssumption DEF Init, PmStates
<1>5. QED
  BY <1>2, <1>3, <1>4, DevsAssumption DEF Init, TypeOK

\* Entering a call, from a caller or from the PM thread.
LEMMA EnterType ==
  ASSUME TypeOK, NEW t \in Callers, NEW c \in Calls, Enter(t, c)
  PROVE  /\ pc' \in [Callers -> Outside \union Inside]
         /\ call' \in [Callers -> Calls] /\ at' \in [Callers -> Nat \ {0}]
         /\ \A u \in Callers : at'[u] <= Len(call'[u].regs)
         /\ got' \in [Callers -> Vals] /\ res' \in [Callers -> Results]
<1>1. Len(c.regs) \in Nat \ {0}
  BY CallFacts
<1>2. CASE suspended[c.dev]
  BY <1>2 DEF TypeOK, Enter, Results
<1>3. CASE ~suspended[c.dev]
  <2>1. /\ pc' = [pc EXCEPT ![t] = "lock"] /\ call' = [call EXCEPT ![t] = c]
        /\ at' = [at EXCEPT ![t] = 1] /\ got' = [got EXCEPT ![t] = Default]
        /\ res' = [res EXCEPT ![t] = "busy"]
    BY <1>3 DEF Enter
  <2>2. call' \in [Callers -> Calls] /\ at' \in [Callers -> Nat \ {0}]
    BY <2>1 DEF TypeOK
  <2>3. ASSUME NEW u \in Callers PROVE at'[u] <= Len(call'[u].regs)
    <3>1. CASE u = t
      BY <1>1, <2>1, <3>1 DEF TypeOK
    <3>2. CASE u # t
      BY <2>1, <3>2 DEF TypeOK
    <3>3. QED
      BY <3>1, <3>2
  <2>4. QED
    BY <2>1, <2>2, <2>3, ValsAssumption DEF TypeOK, Results, Outside
<1>4. QED
  BY <1>2, <1>3

\* The end of a call, with whatever result, keeps the types of the caller.
LEMMA ReturnType ==
  ASSUME TypeOK, NEW t \in Callers, NEW r \in Results, Return(t, r)
  PROVE  /\ pc' \in [Callers -> Outside \union Inside]
         /\ call' \in [Callers -> Calls] /\ at' \in [Callers -> Nat \ {0}]
         /\ \A u \in Callers : at'[u] <= Len(call'[u].regs)
         /\ mux' \in Callers \union {NoHolder} /\ res' \in [Callers -> Results]
<1>1. AnyCall \in Calls /\ Len(AnyCall.regs) \in Nat \ {0}
  BY CallFacts
<1>2. QED
  BY <1>1 DEF TypeOK, Return, Outside

\* A register access leaves values in the registers and with the caller.
LEMMA AccessType ==
  ASSUME TypeOK, NEW t \in Callers, Access(t)
  PROVE  mem' \in [Locs -> Vals] /\ got' \in [Callers -> Vals]
<1>1. Data(t) \in Vals
  BY EntryFacts
<1>2. QED
  BY <1>1 DEF TypeOK, Access

\* So does a page write, whichever device it reaches.
LEMMA PageLandsType ==
  ASSUME TypeOK, NEW t \in Callers, PageLands(t)
  PROVE  hwPage' \in [Devs -> Pages \union {NoPage}] /\ mem' \in [Locs -> Vals]
<1>1. Want(t) \in Pages
  BY EntryFacts
<1>2. QED
  BY <1>1 DEF TypeOK, PageLands

\* And a reset of any set of chips.
LEMMA ForgottenType ==
  ASSUME TypeOK, NEW D, Forgotten(D)
  PROVE  hwPage' \in [Devs -> Pages \union {NoPage}] /\ mem' \in [Locs -> Vals]
BY ValsAssumption DEF TypeOK, Forgotten

\* The steps of a caller of the I2C helpers keep the types.
LEMMA CallerType ==
  ASSUME TypeOK, NEW t \in Callers, CallerStep(t)
  PROVE  TypeOK'
<1> USE DEF hwVars, soft, clkWork, callVars, pmVars
<1>1. CASE Lock(t)
  BY <1>1 DEF TypeOK, Lock, Inside
<1>2. CASE EnableClock(t)
  BY <1>2 DEF TypeOK, EnableClock, Inside
<1>3. CASE SetAddr(t)
  BY <1>3, CallFacts DEF TypeOK, SetAddr, Inside
<1>4. CASE SkipPage(t)
  BY <1>4 DEF TypeOK, SkipPage, Inside
<1>5. CASE WritePage(t)
  BY <1>5, PageLandsType DEF TypeOK, WritePage, Inside
<1>6. CASE WritePageFails(t)
  <2>1. hwPage' \in [Devs -> Pages \union {NoPage}] /\ mem' \in [Locs -> Vals]
    BY <1>6, PageLandsType DEF TypeOK, WritePageFails
  <2>2. QED
    BY <1>6, <2>1, ReturnType DEF TypeOK, WritePageFails, Results
<1>7. CASE RecordPage(t)
  BY <1>7, EntryFacts DEF TypeOK, RecordPage, Inside
<1>8. CASE Transfer(t)
  <2>1. mem' \in [Locs -> Vals] /\ got' \in [Callers -> Vals]
    BY <1>8, AccessType DEF Transfer
  <2>2. CASE Return(t, "ok")
    BY <1>8, <2>1, <2>2, ReturnType DEF TypeOK, Transfer, Results
  <2>3. CASE /\ at[t] # Len(call[t].regs)
             /\ at' = [at EXCEPT ![t] = @ + 1]
             /\ pc' = [pc EXCEPT ![t] = "clock"]
             /\ UNCHANGED <<mux, res, call>>
    <3>1. Len(call[t].regs) \in Nat
      BY CallFacts DEF TypeOK
    <3>2. QED
      BY <1>8, <2>1, <2>3, <3>1 DEF TypeOK, Transfer, Inside
  <2>4. QED
    BY <1>8, <2>2, <2>3 DEF Transfer
<1>9. CASE TransferFails(t)
  <2>1. mem' \in [Locs -> Vals] /\ got' \in [Callers -> Vals]
    BY <1>9, AccessType DEF TypeOK, TransferFails
  <2>2. QED
    BY <1>9, <2>1, ReturnType DEF TypeOK, TransferFails, Results
<1>10. QED
  BY <1>1, <1>2, <1>3, <1>4, <1>5, <1>6, <1>7, <1>8, <1>9 DEF CallerStep

\* The steps of the suspend and resume callbacks keep the types.
LEMMA PmType ==
  ASSUME TypeOK, PmStep
  PROVE  TypeOK'
<1> USE DEF hwVars, soft, clkWork, callVars, pmVars, PmStates
<1> Pm \in Callers
  BY DEF Callers
<1>1. CASE TakeJackLock
  BY <1>1 DEF TypeOK, TakeJackLock
<1>2. CASE MarkSuspended
  BY <1>2 DEF TypeOK, MarkSuspended, NextDevice
<1>3. CASE ResetChip
  <2>1. hwPage' \in [Devs -> Pages \union {NoPage}] /\ mem' \in [Locs -> Vals]
    BY <1>3, ForgottenType DEF ResetChip
  <2>2. held' \subseteq Devs
    BY <1>3 DEF TypeOK, ResetChip
  <2>3. QED
    BY <1>3, <2>1, <2>2 DEF TypeOK, ResetChip, NextDevice
<1>4. CASE CancelWork
  BY <1>4 DEF TypeOK, CancelWork
<1>5. CASE FlushWork
  BY <1>5 DEF TypeOK, FlushWork
<1>6. CASE SuspendClock
  BY <1>6 DEF TypeOK, SuspendClock, DisableClock
<1>7. CASE ForgetAddr
  BY <1>7 DEF TypeOK, ForgetAddr
<1>8. CASE StandbyExit
  BY <1>8 DEF TypeOK, StandbyExit, Wakes
<1>9. CASE HwInit
  <2>1. hwPage' \in [Devs -> Pages \union {NoPage}] /\ mem' \in [Locs -> Vals]
    BY <1>9, ForgottenType DEF TypeOK, HwInit
  <2>2. QED
    BY <1>9, <2>1, DevsAssumption DEF TypeOK, HwInit, Wakes
<1>10. CASE DeviceUp
  BY <1>10 DEF TypeOK, DeviceUp
<1>11. CASE \E d \in Devs : ClearSuspended(d)
  BY <1>11 DEF TypeOK, ClearSuspended
<1>12. ASSUME NEW c \in Calls, Quiesce(c) PROVE TypeOK'
  <2>1. c.dev \in Devs
    BY CallFacts
  <2>2. QED
    BY <1>12, <2>1, EnterType DEF TypeOK, Quiesce
<1>13. ASSUME NEW c \in Calls, InitDevice(c) PROVE TypeOK'
  BY <1>13, EnterType DEF TypeOK, InitDevice
<1>14. QED
  BY <1>1, <1>2, <1>3, <1>4, <1>5, <1>6, <1>7, <1>8, <1>9, <1>10, <1>11, <1>12,
     <1>13 DEF PmStep

\* Every step does: callers, the clock work, the callbacks, a power loss.
LEMMA TypeNext == TypeOK /\ [Next]_vars => TypeOK'
<1> SUFFICES ASSUME TypeOK, [Next]_vars PROVE TypeOK'
  OBVIOUS
<1> USE DEF hwVars, soft, clkWork, callVars, pmVars
<1>1. ASSUME NEW t \in Threads, NEW c \in Calls, Begin(t, c) PROVE TypeOK'
  <2>1. t \in Callers
    BY DEF Callers
  <2>2. QED
    BY <1>1, <2>1, EnterType DEF TypeOK, Begin
<1>2. CASE \E t \in Callers : CallerStep(t)
  BY <1>2, CallerType
<1>3. CASE Expire
  BY <1>3 DEF TypeOK, Expire
<1>4. CASE DisableClockWorker
  BY <1>4 DEF TypeOK, DisableClockWorker, DisableClock
<1>5. CASE \E k \in {"runtime", "system"} : Suspend(k)
  BY <1>5 DEF TypeOK, Suspend, PmStates
<1>6. CASE PmStep
  BY <1>6, PmType
<1>7. CASE PowerLoss
  BY <1>7, ForgottenType, DevsAssumption DEF TypeOK, PowerLoss
<1>8. CASE UNCHANGED vars
  BY <1>8 DEF TypeOK, vars
<1>9. QED
  BY <1>1, <1>2, <1>3, <1>4, <1>5, <1>6, <1>7, <1>8 DEF Next

\* Every variable of the bridge keeps its type, for any board and any callers:
\* in particular no call ever steps past the last entry of its sequence.
THEOREM BridgeTypeCorrect == Spec => []TypeOK
<1>1. QED
  BY TypeInit, TypeNext, PTL DEF Spec

-----------------------------------------------------------------------------

\* The inductive invariant holds after the probe.
LEMMA IInvInit == AllGuarded /\ Init => IInv
<1> SUFFICES ASSUME AllGuarded, Init PROVE IInv
  OBVIOUS
<1> USE DEF Init, Inside, SuspendI2C
<1>0. TypeOK
  BY TypeInit
<1> Pm \in Callers
  BY DEF Callers
<1>1. MuxInv
  BY CallersAssumption DEF MuxInv, NoHolder
<1>2. CacheInv
  BY DEF CacheInv, AddrCoherent
<1>3. HolderInv
  BY DEF HolderInv
<1>4. ExclusionInv
  BY DevsAssumption DEF ExclusionInv, Callers
<1>5. QuiesceInv
  BY DevsAssumption DEF QuiesceInv
<1>6. QED
  BY <1>0, <1>1, <1>2, <1>3, <1>4, <1>5 DEF IInv

\* Who holds i2c_mux holds it alone.
LEMMA HolderAlone ==
  ASSUME MuxInv, NEW t \in Callers, pc[t] \in Inside
  PROVE  mux = t /\ \A u \in Callers \ {t} : pc[u] \notin Inside
BY DEF MuxInv

\* What a step of a caller in a call starts from.
LEMMA CallerContext ==
  ASSUME IInv, NEW t \in Callers, pc[t] # "idle"
  PROVE  /\ call[t].dev \in Devs /\ Len(call[t].regs) \in Nat \ {0}
         /\ at[t] \in Nat \ {0} /\ at[t] <= Len(call[t].regs)
         /\ ~call[t].bulk => at[t] = 1 /\ Len(call[t].regs) = 1
         /\ pm \notin SuspendI2C \union {"down"}
         /\ call[t].dev \in Paged => ~suspended[call[t].dev]
         /\ pc[t] \in Inside =>
              mux = t /\ \A u \in Callers \ {t} : pc[u] \notin Inside
<1>1. call[t] \in Calls /\ at[t] \in Nat \ {0} /\ at[t] <= Len(call[t].regs)
  BY DEF IInv, TypeOK
<1>2. call[t].dev \in Devs /\ Len(call[t].regs) \in Nat \ {0}
  BY <1>1, CallFacts
<1>3. ~call[t].bulk => at[t] = 1 /\ Len(call[t].regs) = 1
  BY <1>1, CallFacts
<1>4. /\ pm \notin SuspendI2C \union {"down"}
      /\ call[t].dev \in Paged => ~suspended[call[t].dev]
  BY DEF IInv, ExclusionInv
<1>5. pc[t] \in Inside => mux = t /\ \A u \in Callers \ {t} : pc[u] \notin Inside
  BY DEF IInv, MuxInv
<1>6. QED
  BY <1>1, <1>2, <1>3, <1>4, <1>5

\* From the page step on, the bridge reaches the device of the call and no other.
LEMMA ReachedOne ==
  ASSUME IInv, NEW t \in Callers, pc[t] \in {"page", "record", "xfer"}
  PROVE  Reached = {call[t].dev}
<1>1. call[t].dev \in Devs /\ (call[t].dev \in Paged => ~suspended[call[t].dev])
  BY CallerContext
<1>2. clkEnabled /\ devAddr = call[t].dev
  BY DEF IInv, HolderInv
<1>3. hwClk /\ hwAddr = call[t].dev
  BY <1>1, <1>2, DevsAssumption DEF IInv, CacheInv, AddrCoherent
<1>4. call[t].dev \notin held
  BY <1>1 DEF IInv, QuiesceInv
<1>5. QED
  BY <1>1, <1>3, <1>4 DEF Reached

\* A page write skipped was not needed.
LEMMA SkipIsRight ==
  ASSUME IInv, NEW t \in Callers, pc[t] = "page", ~NeedsPage(t), ~LostAck,
         call[t].dev \in Paged
  PROVE  hwPage[call[t].dev] = Want(t)
<1>1. lastPage[call[t].dev] = Want(t) /\ Want(t) # NoPage
  BY EntryFacts, DevsAssumption DEF NeedsPage, IInv
<1>2. \A u \in Callers : pc[u] # "record"
  BY CallerContext DEF Inside
<1>3. QED
  BY <1>1, <1>2 DEF IInv, CacheInv

\* A caller keeps the mutex, cache and exclusion parts of the invariant.
LEMMA CallerSafe ==
  ASSUME AllGuarded, IInv, NEW t \in Callers, CallerStep(t)
  PROVE  IInv'
<1> USE DEF hwVars, soft, clkWork, callVars, pmVars
<1> TypeOK /\ TypeOK'
  BY CallerType DEF IInv
<1> MuxInv /\ CacheInv /\ HolderInv /\ ExclusionInv /\ QuiesceInv
  BY DEF IInv
<1> pc[t] # "idle"
  BY DEF CallerStep, Lock, EnableClock, SetAddr, SkipPage, WritePage,
         WritePageFails, RecordPage, Transfer, TransferFails
<1> DEFINE Context == 
       /\ call[t].dev \in Devs /\ Len(call[t].regs) \in Nat \ {0}
       /\ at[t] \in Nat \ {0} /\ at[t] <= Len(call[t].regs)
       /\ ~call[t].bulk => at[t] = 1 /\ Len(call[t].regs) = 1
       /\ pm \notin SuspendI2C \union {"down"}
       /\ call[t].dev \in Paged => ~suspended[call[t].dev]
       /\ pc[t] \in Inside =>
            mux = t /\ \A u \in Callers \ {t} : pc[u] \notin Inside
<1>0. Context
  BY CallerContext
<1> HIDE DEF Context
<1>1. CASE Lock(t)
  <2>1. MuxInv'
    BY <1>1, <1>0, CallersAssumption DEF MuxInv, Inside, TypeOK, NoHolder, Context, Lock
  <2>2. CacheInv'
    BY <1>1, <1>0 DEF CacheInv, AddrCoherent, TypeOK, Context, Lock
  <2>3. HolderInv'
    <3>1. \A u \in Callers \ {t} : pc'[u] = pc[u] /\ pc[u] \notin Inside
      BY <1>1, <1>0, CallersAssumption DEF Context, MuxInv, NoHolder, Inside, TypeOK, Lock
    <3>2. QED
      BY <1>1, <1>0, <3>1 DEF Context, HolderInv, TypeOK, Want, Inside, Lock
  <2>4. ExclusionInv'
    BY <1>1, <1>0 DEF ExclusionInv, TypeOK, Callers, SuspendI2C, Context, Lock
  <2>5. QuiesceInv'
    BY <1>1, <1>0 DEF QuiesceInv, TypeOK, Context, Lock
  <2>6. QED
    BY <2>1, <2>2, <2>3, <2>4, <2>5 DEF IInv
<1>2. CASE EnableClock(t)
  <2>1. MuxInv'
    BY <1>2, <1>0, CallersAssumption DEF MuxInv, Inside, TypeOK, NoHolder, Context, EnableClock
  <2>2. CacheInv'
    BY <1>2, <1>0 DEF CacheInv, AddrCoherent, TypeOK, Context, EnableClock
  <2>3. HolderInv'
    <3>1. \A u \in Callers \ {t} : pc'[u] = pc[u] /\ pc[u] \notin Inside
      BY <1>2, <1>0 DEF Context, MuxInv, Inside, TypeOK, EnableClock
    <3>2. QED
      BY <1>2, <1>0, <3>1 DEF Context, HolderInv, TypeOK, Want, Inside, EnableClock
  <2>4. ExclusionInv'
    BY <1>2, <1>0 DEF ExclusionInv, TypeOK, Callers, SuspendI2C, Context, EnableClock
  <2>5. QuiesceInv'
    BY <1>2, <1>0 DEF QuiesceInv, TypeOK, Context, EnableClock
  <2>6. QED
    BY <2>1, <2>2, <2>3, <2>4, <2>5 DEF IInv
<1>3. CASE SetAddr(t)
  <2>1. MuxInv'
    BY <1>3, <1>0, CallersAssumption DEF MuxInv, Inside, TypeOK, NoHolder, Context, SetAddr
  <2>2. CacheInv'
    BY <1>3, <1>0 DEF CacheInv, AddrCoherent, TypeOK, Context, SetAddr
  <2>3. HolderInv'
    <3>1. \A u \in Callers \ {t} : pc'[u] = pc[u] /\ pc[u] \notin Inside
      BY <1>3, <1>0 DEF Context, MuxInv, Inside, TypeOK, SetAddr
    <3>2. QED
      BY <1>3, <1>0, <3>1 DEF Context, HolderInv, TypeOK, Want, Inside, SetAddr
  <2>4. ExclusionInv'
    BY <1>3, <1>0 DEF ExclusionInv, TypeOK, Callers, SuspendI2C, Context, SetAddr
  <2>5. QuiesceInv'
    BY <1>3, <1>0 DEF QuiesceInv, TypeOK, Context, SetAddr
  <2>6. QED
    BY <2>1, <2>2, <2>3, <2>4, <2>5 DEF IInv
<1>4. CASE SkipPage(t)
  <2>1. MuxInv'
    BY <1>4, <1>0, CallersAssumption DEF MuxInv, Inside, TypeOK, NoHolder, Context, SkipPage, NeedsPage
  <2>2. CacheInv'
    BY <1>4, <1>0 DEF CacheInv, AddrCoherent, TypeOK, Context, SkipPage, NeedsPage
  <2>3. HolderInv'
    <3>1. \A u \in Callers \ {t} : pc'[u] = pc[u] /\ pc[u] \notin Inside
      BY <1>4, <1>0 DEF Context, MuxInv, Inside, TypeOK, SkipPage, NeedsPage
    <3>2. QED
      BY <1>4, <1>0, <3>1, SkipIsRight DEF Context, HolderInv, TypeOK, Want, Inside, SkipPage
  <2>4. ExclusionInv'
    BY <1>4, <1>0 DEF ExclusionInv, TypeOK, Callers, SuspendI2C, Context, SkipPage, NeedsPage
  <2>5. QuiesceInv'
    BY <1>4, <1>0 DEF QuiesceInv, TypeOK, Context, SkipPage, NeedsPage
  <2>6. QED
    BY <2>1, <2>2, <2>3, <2>4, <2>5 DEF IInv
<1>5. CASE WritePage(t)
  <2>1. MuxInv'
    BY <1>5, <1>0, CallersAssumption DEF MuxInv, Inside, TypeOK, NoHolder, Context, WritePage, NeedsPage, PageLands
  <2>0. Reached = {call[t].dev} /\ call[t].dev \in Paged
    BY <1>5, ReachedOne DEF WritePage, NeedsPage
  <2>7. hwPage' = [hwPage EXCEPT ![call[t].dev] = Want(t)]
    BY <1>5, <2>0 DEF WritePage, PageLands, TypeOK
  <2>2. CacheInv'
    <3>1. \A u \in Callers : pc[u] # "record"
      BY <1>5, <1>0 DEF Context, WritePage, Inside
    <3>2. pc'[t] = "record" /\ call'[t] = call[t]
      BY <1>5 DEF WritePage, TypeOK
    <3>3. ASSUME ~LostAck, NEW d \in Paged
          PROVE  \/ lastPage'[d] \in {NoPage, hwPage'[d]}
                 \/ \E u \in Callers : pc'[u] = "record" /\ call'[u].dev = d
      <4>1. CASE d = call[t].dev
        BY <3>2, <4>1
      <4>2. CASE d # call[t].dev
        BY <1>5, <2>7, <3>1, <3>3, <4>2, DevsAssumption DEF CacheInv, WritePage, TypeOK
      <4>3. QED
        BY <4>1, <4>2
    <3>4. QED
      BY <1>5, <3>3 DEF CacheInv, AddrCoherent, WritePage
  <2>3. HolderInv'
    <3>1. \A u \in Callers \ {t} : pc'[u] = pc[u] /\ pc[u] \notin Inside
      BY <1>5, <1>0 DEF Context, MuxInv, Inside, TypeOK, WritePage, NeedsPage, PageLands
    <3>2. QED
      BY <1>5, <1>0, <2>0, <2>7, <3>1 DEF Context, HolderInv, TypeOK, Want, Inside, WritePage
  <2>4. ExclusionInv'
    BY <1>5, <1>0 DEF ExclusionInv, TypeOK, Callers, SuspendI2C, Context, WritePage, NeedsPage, PageLands
  <2>5. QuiesceInv'
    BY <1>5, <1>0 DEF QuiesceInv, TypeOK, Context, WritePage, NeedsPage, PageLands
  <2>6. QED
    BY <2>1, <2>2, <2>3, <2>4, <2>5 DEF IInv
<1>6. CASE WritePageFails(t)
  <2>1. MuxInv'
    BY <1>6, <1>0, CallersAssumption DEF MuxInv, Inside, TypeOK, NoHolder, Context, WritePageFails, NeedsPage, PageLands, Return
  <2>2. CacheInv'
    BY <1>6, <1>0 DEF CacheInv, AddrCoherent, TypeOK, Context, WritePageFails, NeedsPage, PageLands, Return
  <2>3. HolderInv'
    <3>1. \A u \in Callers \ {t} : pc'[u] = pc[u] /\ pc[u] \notin Inside
      BY <1>6, <1>0 DEF Context, MuxInv, Inside, TypeOK, WritePageFails, NeedsPage, PageLands, Return
    <3>2. QED
      BY <1>6, <1>0, <3>1 DEF Context, HolderInv, TypeOK, Want, Inside, WritePageFails, NeedsPage, PageLands, Return
  <2>4. ExclusionInv'
    BY <1>6, <1>0 DEF ExclusionInv, TypeOK, Callers, SuspendI2C, Context, WritePageFails, NeedsPage, PageLands, Return
  <2>5. QuiesceInv'
    BY <1>6, <1>0 DEF QuiesceInv, TypeOK, Context, WritePageFails, NeedsPage, PageLands, Return
  <2>6. QED
    BY <2>1, <2>2, <2>3, <2>4, <2>5 DEF IInv
<1>7. CASE RecordPage(t)
  <2>1. MuxInv'
    BY <1>7, <1>0, CallersAssumption DEF MuxInv, Inside, TypeOK, NoHolder, Context, RecordPage
  <2>2. CacheInv'
    <3>1. \A u \in Callers \ {t} : pc[u] # "record"
      BY <1>7, <1>0 DEF Context, RecordPage, Inside
    <3>2. call[t].dev \in Paged /\ (~LostAck => hwPage[call[t].dev] = Want(t))
      BY <1>7 DEF HolderInv, RecordPage
    <3>3. ASSUME ~LostAck, NEW d \in Paged PROVE lastPage'[d] \in {NoPage, hwPage'[d]}
      <4>1. CASE d = call[t].dev
        BY <1>7, <3>2, <3>3, <4>1, DevsAssumption DEF RecordPage, TypeOK
      <4>2. CASE d # call[t].dev
        BY <1>7, <3>1, <3>3, <4>2, DevsAssumption DEF CacheInv, RecordPage, TypeOK
      <4>3. QED
        BY <4>1, <4>2
    <3>4. \A d \in Devs \ Paged : lastPage'[d] = NoPage
      BY <1>7, <3>2 DEF CacheInv, RecordPage, TypeOK
    <3>5. QED
      BY <1>7, <3>3, <3>4 DEF CacheInv, AddrCoherent, RecordPage
  <2>3. HolderInv'
    <3>1. \A u \in Callers \ {t} : pc'[u] = pc[u] /\ pc[u] \notin Inside
      BY <1>7, <1>0 DEF Context, MuxInv, Inside, TypeOK, RecordPage
    <3>2. QED
      BY <1>7, <1>0, <3>1 DEF Context, HolderInv, TypeOK, Want, Inside, RecordPage
  <2>4. ExclusionInv'
    BY <1>7, <1>0 DEF ExclusionInv, TypeOK, Callers, SuspendI2C, Context, RecordPage
  <2>5. QuiesceInv'
    BY <1>7, <1>0 DEF QuiesceInv, TypeOK, Context, RecordPage
  <2>6. QED
    BY <2>1, <2>2, <2>3, <2>4, <2>5 DEF IInv
<1>8. CASE Transfer(t)
  <2>1. CASE Return(t, "ok")
    <3>1. MuxInv'
      BY <1>8, <2>1, <1>0, CallersAssumption DEF MuxInv, Inside, TypeOK, NoHolder, Context, Transfer, Return
    <3>2. CacheInv'
      BY <1>8, <2>1, <1>0 DEF CacheInv, AddrCoherent, TypeOK, Context, Transfer, Return
    <3>3. HolderInv'
      <4>1. \A u \in Callers \ {t} : pc'[u] = pc[u] /\ pc[u] \notin Inside
        BY <1>8, <2>1, <1>0 DEF Context, MuxInv, Inside, TypeOK, Transfer, Return
      <4>2. QED
        BY <1>8, <2>1, <1>0, <4>1 DEF Context, HolderInv, TypeOK, Want, Inside, Transfer, Return
    <3>4. ExclusionInv'
      BY <1>8, <2>1, <1>0 DEF ExclusionInv, TypeOK, Callers, SuspendI2C, Context, Transfer, Return
    <3>5. QuiesceInv'
      BY <1>8, <2>1, <1>0 DEF QuiesceInv, TypeOK, Context, Transfer, Return
    <3>6. QED
      BY <3>1, <3>2, <3>3, <3>4, <3>5 DEF IInv
  <2>2. CASE /\ at[t] # Len(call[t].regs)
             /\ at' = [at EXCEPT ![t] = @ + 1]
             /\ pc' = [pc EXCEPT ![t] = "clock"]
             /\ UNCHANGED <<mux, res, call>>
    <3>1. MuxInv'
      BY <1>8, <2>2, <1>0, CallersAssumption DEF MuxInv, Inside, TypeOK, NoHolder, Context, Transfer
    <3>2. CacheInv'
      BY <1>8, <2>2, <1>0 DEF CacheInv, AddrCoherent, TypeOK, Context, Transfer
    <3>3. HolderInv'
      <4>1. \A u \in Callers \ {t} : pc'[u] = pc[u] /\ pc[u] \notin Inside
        BY <1>8, <2>2, <1>0 DEF Context, MuxInv, Inside, TypeOK, Transfer
      <4>2. call[t].bulk /\ devAddr = call[t].dev
        BY <1>8, <2>2, <1>0 DEF Context, HolderInv, Transfer
      <4>3. pc'[t] = "clock" /\ call' = call /\ devAddr' = devAddr
        BY <1>8, <2>2 DEF TypeOK, Transfer
      <4>4. QED
        BY <4>1, <4>2, <4>3 DEF HolderInv, Inside
    <3>4. ExclusionInv'
      BY <1>8, <2>2, <1>0 DEF ExclusionInv, TypeOK, Callers, SuspendI2C, Context, Transfer
    <3>5. QuiesceInv'
      BY <1>8, <2>2, <1>0 DEF QuiesceInv, TypeOK, Context, Transfer
    <3>6. QED
      BY <3>1, <3>2, <3>3, <3>4, <3>5 DEF IInv
  <2>3. QED
    BY <1>8, <2>1, <2>2 DEF Transfer
<1>9. CASE TransferFails(t)
  <2>1. MuxInv'
    BY <1>9, <1>0, CallersAssumption DEF MuxInv, Inside, TypeOK, NoHolder, Context, TransferFails, Return
  <2>2. CacheInv'
    BY <1>9, <1>0 DEF CacheInv, AddrCoherent, TypeOK, Context, TransferFails, Return
  <2>3. HolderInv'
    <3>1. \A u \in Callers \ {t} : pc'[u] = pc[u] /\ pc[u] \notin Inside
      BY <1>9, <1>0 DEF Context, MuxInv, Inside, TypeOK, TransferFails, Return
    <3>2. QED
      BY <1>9, <1>0, <3>1 DEF Context, HolderInv, TypeOK, Want, Inside, TransferFails, Return
  <2>4. ExclusionInv'
    BY <1>9, <1>0 DEF ExclusionInv, TypeOK, Callers, SuspendI2C, Context, TransferFails, Return
  <2>5. QuiesceInv'
    BY <1>9, <1>0 DEF QuiesceInv, TypeOK, Context, TransferFails, Return
  <2>6. QED
    BY <2>1, <2>2, <2>3, <2>4, <2>5 DEF IInv
<1>10. QED
  BY <1>1, <1>2, <1>3, <1>4, <1>5, <1>6, <1>7, <1>8, <1>9 DEF CallerStep

\* Entering a call: whoever was in one still is, at the same place.
LEMMA EnterKeeps ==
  ASSUME TypeOK, NEW t \in Callers, NEW c \in Calls, Enter(t, c)
  PROVE  /\ pc[t] = "idle" /\ pc'[t] \in Outside
         /\ \A u \in Callers \ {t} :
              pc'[u] = pc[u] /\ call'[u] = call[u] /\ at'[u] = at[u]
         /\ pc'[t] # "idle" => call'[t] = c /\ ~suspended[c.dev]
BY DEF TypeOK, Enter, Outside

\* While every caller is out of its call, HolderInv says nothing.
LEMMA IdleHolder ==
  ASSUME \A t \in Callers : pc'[t] \in Outside
  PROVE  HolderInv'
BY DEF HolderInv, Outside

\* The callers a suspend excludes are all there are.
LEMMA BarredIdle ==
  ASSUME IInv, barred, pc[Pm] = "idle"
  PROVE  \A t \in Callers : pc[t] = "idle"
BY DEF IInv, ExclusionInv, Callers

\* Over with cs8409_suspend_i2c() ahead of it or behind it, a suspend has all
\* callers out and all codecs without a cached page.
LEMMA QuietFacts ==
  ASSUME IInv, pm \in SuspendI2C \union {"down"}
  PROVE  /\ \A t \in Callers : pc[t] = "idle"
         /\ \A d \in Paged : suspended[d] /\ lastPage[d] = NoPage
BY DEF IInv, ExclusionInv, QuiesceInv

\* The device just marked or reset: a codec only with everybody barred, and it
\* is a codec that comes last.
LEMMA MarkFacts ==
  ASSUME IInv, pm \in {"marking", "reset"}, pc[Pm] = "idle"
  PROVE  /\ pmDev \in Paged => \A t \in Callers : pc[t] = "idle"
         /\ pmLeft \ {pmDev} = {} =>
              pmDev \in Paged /\ \A d \in Devs \ {pmDev} : suspended[d]
<1>1. pmDev \in Paged => \A t \in Callers : pc[t] = "idle"
  BY BarredIdle DEF IInv, QuiesceInv
<1>2. ASSUME pmLeft \ {pmDev} = {} PROVE pmDev \in Paged
  BY <1>2, DevsAssumption DEF IInv, QuiesceInv
<1>3. ASSUME pmLeft \ {pmDev} = {}, NEW d \in Devs \ {pmDev} PROVE suspended[d]
  BY <1>3 DEF IInv, QuiesceInv
<1>4. QED
  BY <1>1, <1>2, <1>3

\* The suspend and resume callbacks do, with every caller guarded.
LEMMA PmSafe ==
  ASSUME AllGuarded, IInv, PmStep
  PROVE  IInv'
<1> USE DEF hwVars, soft, clkWork, callVars, pmVars
<1> TypeOK /\ TypeOK'
  BY PmType DEF IInv
<1> MuxInv /\ CacheInv /\ HolderInv /\ ExclusionInv /\ QuiesceInv
  BY DEF IInv
<1> Pm \in Callers /\ Threads \subseteq Callers
  BY DEF Callers
<1>1. CASE TakeJackLock
  <2>1. MuxInv'
    BY <1>1 DEF MuxInv, TypeOK, TakeJackLock, Guarded, AllGuarded
  <2>2. CacheInv'
    BY <1>1 DEF CacheInv, AddrCoherent, TypeOK, TakeJackLock, Guarded, AllGuarded
  <2>3. HolderInv'
    BY <1>1 DEF HolderInv, TypeOK, Want, TakeJackLock, Guarded, AllGuarded
  <2>4. ExclusionInv'
    BY <1>1 DEF ExclusionInv, TypeOK, Callers, SuspendI2C, TakeJackLock, Guarded, AllGuarded
  <2>5. QuiesceInv'
    BY <1>1 DEF QuiesceInv, TypeOK, TakeJackLock, Guarded, AllGuarded
  <2>6. QED
    BY <2>1, <2>2, <2>3, <2>4, <2>5 DEF IInv
<1>2. CASE MarkSuspended
  <2>1. MuxInv'
    BY <1>2, DevsAssumption DEF MuxInv, TypeOK, MarkSuspended, NextDevice, Guarded, AllGuarded
  <2>2. CacheInv'
    BY <1>2, DevsAssumption DEF CacheInv, AddrCoherent, TypeOK, MarkSuspended, NextDevice, Guarded, AllGuarded
  <2>3. HolderInv'
    BY <1>2, DevsAssumption DEF HolderInv, TypeOK, Want, MarkSuspended, NextDevice, Guarded, AllGuarded
  <2>4. ExclusionInv'
    <3>0. /\ pmDev \in Paged => \A t \in Callers : pc[t] = "idle"
          /\ pmLeft \ {pmDev} = {} =>
               pmDev \in Paged /\ \A d \in Devs \ {pmDev} : suspended[d]
      BY <1>2, MarkFacts DEF MarkSuspended
    <3>1. barred' => barred
      BY <1>2 DEF MarkSuspended, NextDevice
    <3>2. \A t \in Callers : pc[t] # "idle" /\ call[t].dev \in Paged
                              => ~suspended'[call[t].dev]
      BY <1>2, <3>0 DEF MarkSuspended, ExclusionInv, TypeOK
    <3>3. pm' \in {"reset", "cancel", "quiesce"}
      BY <1>2 DEF MarkSuspended, NextDevice
    <3>4. pm' = "cancel" => /\ \A t \in Callers : pc[t] = "idle"
                            /\ \A d \in Devs : suspended'[d]
      BY <1>2, <3>0 DEF MarkSuspended, NextDevice, TypeOK
    <3>5. UNCHANGED callVars
      BY <1>2 DEF MarkSuspended
    <3>6. pc'[Pm] = "idle"
      BY <1>2 DEF MarkSuspended
    <3>7. QED
      BY <3>1, <3>2, <3>3, <3>4, <3>5, <3>6, DevsAssumption DEF ExclusionInv, SuspendI2C
  <2>5. QuiesceInv'
    BY <1>2, DevsAssumption DEF QuiesceInv, TypeOK, MarkSuspended, NextDevice, Guarded, AllGuarded
  <2>6. QED
    BY <2>1, <2>2, <2>3, <2>4, <2>5 DEF IInv
<1>3. CASE ResetChip
  <2>1. MuxInv'
    BY <1>3, DevsAssumption DEF MuxInv, TypeOK, ResetChip, NextDevice, Forgotten, Guarded, AllGuarded
  <2>2. CacheInv'
    <3>1. \A t \in Callers : pc[t] = "idle"
      BY <1>3, MarkFacts DEF ResetChip, QuiesceInv
    <3>2. ~LostAck => \A d \in Paged : /\ lastPage[d] \in {NoPage, hwPage[d]}
                                       /\ d = pmDev => lastPage[d] = NoPage
      BY <1>3, <3>1 DEF ResetChip, CacheInv, QuiesceInv
    <3>3. \A d \in Paged : hwPage'[d] = IF d = pmDev THEN NoPage ELSE hwPage[d]
      BY <1>3, DevsAssumption DEF ResetChip, Forgotten
    <3>4. QED
      BY <1>3, <3>2, <3>3 DEF ResetChip, CacheInv, AddrCoherent
  <2>3. HolderInv'
    <3>1. \A t \in Callers : pc[t] = "idle"
      BY <1>3, MarkFacts DEF ResetChip, QuiesceInv
    <3>2. QED
      BY <1>3, <3>1, IdleHolder DEF ResetChip, Outside
  <2>4. ExclusionInv'
    <3>0. /\ \A t \in Callers : pc[t] = "idle"
          /\ pmLeft \ {pmDev} = {} => \A d \in Devs : suspended[d]
      BY <1>3, MarkFacts DEF ResetChip, QuiesceInv
    <3>1. (barred' => barred) /\ pm' \in {"cancel", "quiesce"}
      BY <1>3 DEF ResetChip, NextDevice
    <3>2. pm' = "cancel" => \A d \in Devs : suspended[d]
      BY <1>3, <3>0 DEF ResetChip, NextDevice
    <3>3. UNCHANGED <<suspended, callVars>>
      BY <1>3 DEF ResetChip
    <3>4. QED
      BY <3>0, <3>1, <3>2, <3>3, DevsAssumption DEF ExclusionInv, SuspendI2C
  <2>5. QuiesceInv'
    BY <1>3, DevsAssumption DEF QuiesceInv, TypeOK, ResetChip, NextDevice, Forgotten, Guarded, AllGuarded
  <2>6. QED
    BY <2>1, <2>2, <2>3, <2>4, <2>5 DEF IInv
<1>4. CASE CancelWork
  <2>1. MuxInv'
    BY <1>4 DEF MuxInv, TypeOK, CancelWork
  <2>2. CacheInv'
    BY <1>4 DEF CacheInv, AddrCoherent, TypeOK, CancelWork
  <2>3. HolderInv'
    BY <1>4 DEF HolderInv, TypeOK, Want, CancelWork
  <2>4. ExclusionInv'
    BY <1>4 DEF ExclusionInv, TypeOK, Callers, SuspendI2C, CancelWork
  <2>5. QuiesceInv'
    BY <1>4 DEF QuiesceInv, TypeOK, CancelWork
  <2>6. QED
    BY <2>1, <2>2, <2>3, <2>4, <2>5 DEF IInv
<1>5. CASE FlushWork
  <2>1. MuxInv'
    BY <1>5 DEF MuxInv, TypeOK, FlushWork
  <2>2. CacheInv'
    BY <1>5 DEF CacheInv, AddrCoherent, TypeOK, FlushWork
  <2>3. HolderInv'
    BY <1>5 DEF HolderInv, TypeOK, Want, FlushWork
  <2>4. ExclusionInv'
    BY <1>5 DEF ExclusionInv, TypeOK, Callers, SuspendI2C, FlushWork
  <2>5. QuiesceInv'
    BY <1>5 DEF QuiesceInv, TypeOK, FlushWork
  <2>6. QED
    BY <2>1, <2>2, <2>3, <2>4, <2>5 DEF IInv
<1>6. CASE SuspendClock
  <2>1. MuxInv'
    BY <1>6 DEF MuxInv, TypeOK, SuspendClock, DisableClock
  <2>2. CacheInv'
    BY <1>6 DEF CacheInv, AddrCoherent, TypeOK, SuspendClock, DisableClock
  <2>3. HolderInv'
    <3>1. \A t \in Callers : pc[t] = "idle"
      BY <1>6, QuietFacts DEF SuspendClock, SuspendI2C
    <3>2. QED
      BY <1>6, <3>1, IdleHolder DEF SuspendClock, Outside
  <2>4. ExclusionInv'
    BY <1>6 DEF ExclusionInv, TypeOK, Callers, SuspendI2C, SuspendClock, DisableClock
  <2>5. QuiesceInv'
    BY <1>6 DEF QuiesceInv, TypeOK, SuspendClock, DisableClock
  <2>6. QED
    BY <2>1, <2>2, <2>3, <2>4, <2>5 DEF IInv
<1>7. CASE ForgetAddr
  <2>1. MuxInv'
    BY <1>7 DEF MuxInv, TypeOK, ForgetAddr
  <2>2. CacheInv'
    BY <1>7 DEF CacheInv, AddrCoherent, TypeOK, ForgetAddr
  <2>3. HolderInv'
    <3>1. \A t \in Callers : pc[t] = "idle"
      BY <1>7, QuietFacts DEF ForgetAddr, SuspendI2C
    <3>2. QED
      BY <1>7, <3>1, IdleHolder DEF ForgetAddr, Outside
  <2>4. ExclusionInv'
    BY <1>7 DEF ExclusionInv, TypeOK, Callers, SuspendI2C, ForgetAddr
  <2>5. QuiesceInv'
    BY <1>7 DEF QuiesceInv, TypeOK, ForgetAddr
  <2>6. QED
    BY <2>1, <2>2, <2>3, <2>4, <2>5 DEF IInv
<1>8. CASE StandbyExit
  <2>1. MuxInv'
    BY <1>8 DEF MuxInv, TypeOK, StandbyExit, Wakes
  <2>2. CacheInv'
    BY <1>8 DEF CacheInv, AddrCoherent, TypeOK, StandbyExit, Wakes
  <2>3. HolderInv'
    BY <1>8 DEF HolderInv, TypeOK, Want, StandbyExit, Wakes
  <2>4. ExclusionInv'
    BY <1>8 DEF ExclusionInv, TypeOK, Callers, SuspendI2C, StandbyExit, Wakes
  <2>5. QuiesceInv'
    BY <1>8 DEF QuiesceInv, TypeOK, StandbyExit, Wakes
  <2>6. QED
    BY <2>1, <2>2, <2>3, <2>4, <2>5 DEF IInv
<1>9. CASE HwInit
  <2>1. MuxInv'
    BY <1>9 DEF MuxInv, TypeOK, HwInit, Wakes, Forgotten, AllGuarded
  <2>2. CacheInv'
    BY <1>9 DEF CacheInv, AddrCoherent, TypeOK, HwInit, Wakes, Forgotten, AllGuarded
  <2>3. HolderInv'
    <3>1. \A t \in Callers : pc[t] = "idle"
      BY <1>9, QuietFacts DEF HwInit, SuspendI2C
    <3>2. QED
      BY <1>9, <3>1, IdleHolder DEF HwInit, Outside
  <2>4. ExclusionInv'
    BY <1>9 DEF ExclusionInv, TypeOK, Callers, SuspendI2C, HwInit, Wakes, Forgotten, AllGuarded
  <2>5. QuiesceInv'
    <3>1. \A d \in Paged : suspended[d] /\ lastPage[d] = NoPage
      BY <1>9, QuietFacts DEF HwInit
    <3>2. held' = Paged /\ \A d \in Paged : lastPage'[d] = NoPage
      BY <1>9, <3>1, DevsAssumption DEF HwInit, AllGuarded
    <3>3. QED
      BY <1>9, <3>1, <3>2 DEF QuiesceInv, HwInit, Wakes
  <2>6. QED
    BY <2>1, <2>2, <2>3, <2>4, <2>5 DEF IInv
<1>10. CASE DeviceUp
  <2>1. MuxInv'
    BY <1>10 DEF MuxInv, TypeOK, DeviceUp
  <2>2. CacheInv'
    BY <1>10 DEF CacheInv, AddrCoherent, TypeOK, DeviceUp
  <2>3. HolderInv'
    BY <1>10 DEF HolderInv, TypeOK, Want, DeviceUp
  <2>4. ExclusionInv'
    BY <1>10 DEF ExclusionInv, TypeOK, Callers, SuspendI2C, DeviceUp
  <2>5. QuiesceInv'
    BY <1>10 DEF QuiesceInv, TypeOK, DeviceUp
  <2>6. QED
    BY <2>1, <2>2, <2>3, <2>4, <2>5 DEF IInv
<1>11. ASSUME NEW d \in Devs, ClearSuspended(d) PROVE IInv'
  <2>1. MuxInv'
    BY <1>11 DEF MuxInv, TypeOK, ClearSuspended
  <2>2. CacheInv'
    BY <1>11 DEF CacheInv, AddrCoherent, TypeOK, ClearSuspended
  <2>3. HolderInv'
    BY <1>11 DEF HolderInv, TypeOK, Want, ClearSuspended
  <2>4. ExclusionInv'
    BY <1>11 DEF ExclusionInv, TypeOK, Callers, SuspendI2C, ClearSuspended
  <2>5. QuiesceInv'
    BY <1>11 DEF QuiesceInv, TypeOK, ClearSuspended
  <2>6. QED
    BY <2>1, <2>2, <2>3, <2>4, <2>5 DEF IInv
<1>12. ASSUME NEW c \in Calls, Quiesce(c) PROVE IInv'
  <2>0. /\ pc[Pm] = "idle" /\ pc'[Pm] \in Outside
        /\ \A u \in Callers \ {Pm} :
             pc'[u] = pc[u] /\ call'[u] = call[u] /\ at'[u] = at[u]
        /\ pc'[Pm] # "idle" => call'[Pm] = c /\ ~suspended[c.dev]
    BY <1>12, EnterKeeps DEF Quiesce
  <2>1. MuxInv'
    BY <1>12, CallFacts DEF MuxInv, TypeOK, Quiesce, Enter, AllGuarded, Inside
  <2>2. CacheInv'
    <3>1. UNCHANGED <<hwVars, soft>>
      BY <1>12 DEF Quiesce
    <3>2. \A u \in Callers : pc[u] = "record" => pc'[u] = "record" /\ call'[u] = call[u]
      BY <1>12, <2>0
    <3>3. QED
      BY <3>1, <3>2 DEF CacheInv, AddrCoherent
  <2>3. HolderInv'
    BY <1>12, CallFacts DEF HolderInv, TypeOK, Want, Quiesce, Enter, AllGuarded, Inside
  <2>4. ExclusionInv'
    <3>1. pm' = "marking" /\ pmDev' = c.dev /\ UNCHANGED <<barred, suspended>>
      BY <1>12 DEF Quiesce
    <3>2. QED
      BY <2>0, <3>1, CallersAssumption DEF ExclusionInv, SuspendI2C, Callers
  <2>5. QuiesceInv'
    BY <1>12, CallFacts DEF QuiesceInv, TypeOK, Quiesce, Enter, AllGuarded, Inside
  <2>6. QED
    BY <2>1, <2>2, <2>3, <2>4, <2>5 DEF IInv
<1>13. ASSUME NEW c \in Calls, InitDevice(c) PROVE IInv'
  <2>0. \/ UNCHANGED callVars
        \/ /\ pc[Pm] = "idle" /\ pc'[Pm] \in Outside
           /\ \A u \in Callers \ {Pm} :
                pc'[u] = pc[u] /\ call'[u] = call[u] /\ at'[u] = at[u]
           /\ pc'[Pm] # "idle" => call'[Pm] = c /\ ~suspended[c.dev]
    BY <1>13, EnterKeeps DEF InitDevice
  <2>1. MuxInv'
    BY <1>13, CallFacts DEF MuxInv, TypeOK, InitDevice, Enter, Inside
  <2>2. CacheInv'
    <3>1. UNCHANGED <<hwVars, soft>>
      BY <1>13 DEF InitDevice
    <3>2. \A u \in Callers : pc[u] = "record" => pc'[u] = "record" /\ call'[u] = call[u]
      BY <1>13, <2>0
    <3>3. QED
      BY <3>1, <3>2 DEF CacheInv, AddrCoherent
  <2>3. HolderInv'
    BY <1>13, CallFacts DEF HolderInv, TypeOK, Want, InitDevice, Enter, Inside
  <2>4. ExclusionInv'
    <3>1. /\ pm = "init" /\ pm' = "waking" /\ pmDev' = pmDev /\ c.dev = pmDev
          /\ UNCHANGED <<barred, suspended>>
      BY <1>13 DEF InitDevice
    <3>2. QED
      BY <2>0, <3>1, CallersAssumption DEF ExclusionInv, SuspendI2C, Callers
  <2>5. QuiesceInv'
    BY <1>13, CallFacts DEF QuiesceInv, TypeOK, InitDevice, Enter, Inside
  <2>6. QED
    BY <2>1, <2>2, <2>3, <2>4, <2>5 DEF IInv
<1>14. QED
  BY <1>1, <1>2, <1>3, <1>4, <1>5, <1>6, <1>7, <1>8, <1>9, <1>10, <1>11, <1>12, <1>13 DEF PmStep

\* The invariant is inductive where every caller is one a suspend waits for.
LEMMA IInvNext == AllGuarded /\ IInv /\ [Next]_vars => IInv'
<1> SUFFICES ASSUME AllGuarded, IInv, [Next]_vars PROVE IInv'
  OBVIOUS
<1> USE DEF hwVars, soft, clkWork, callVars, pmVars
<1> TypeOK /\ TypeOK'
  BY TypeNext DEF IInv
<1> MuxInv /\ CacheInv /\ HolderInv /\ ExclusionInv /\ QuiesceInv
  BY DEF IInv
<1> Pm \in Callers /\ Threads \subseteq Callers
  BY DEF Callers
<1>1. ASSUME NEW t \in Threads, NEW c \in Calls, Begin(t, c) PROVE IInv'
  <2>0. /\ pc[t] = "idle" /\ pc'[t] \in Outside
        /\ \A u \in Callers \ {t} :
             pc'[u] = pc[u] /\ call'[u] = call[u] /\ at'[u] = at[u]
        /\ pc'[t] # "idle" => call'[t] = c /\ ~suspended[c.dev]
    BY <1>1, EnterKeeps DEF Begin
  <2>1. MuxInv'
    BY <1>1, CallFacts, CallersAssumption DEF MuxInv, TypeOK, Begin, Enter, Guarded, AllGuarded, Inside
  <2>2. CacheInv'
    BY <1>1, CallFacts, CallersAssumption DEF CacheInv, AddrCoherent, TypeOK, Begin, Enter, Guarded, AllGuarded, Inside
  <2>3. HolderInv'
    BY <1>1, CallFacts, CallersAssumption DEF HolderInv, TypeOK, Want, Begin, Enter, Guarded, AllGuarded, Inside
  <2>4. ExclusionInv'
    <3>1. ~barred /\ UNCHANGED <<soft, pmVars>>
      BY <1>1 DEF Begin, Guarded, AllGuarded
    <3>2. ~suspended[c.dev] => pm \notin SuspendI2C \union {"down"}
      BY <3>1, CallFacts DEF ExclusionInv
    <3>3. pc'[t] # "idle" => call'[t].dev = c.dev /\ ~suspended[c.dev]
      BY <2>0
    <3>4. pc'[Pm] = pc[Pm] /\ call'[Pm] = call[Pm]
      BY <2>0, CallersAssumption
    <3>5. \A u \in Callers : pc'[u] # "idle" => (u = t \/ pc[u] # "idle")
      BY <2>0
    <3>6. QED
      BY <2>0, <3>1, <3>2, <3>3, <3>4, <3>5 DEF ExclusionInv
  <2>5. QuiesceInv'
    BY <1>1, CallFacts, CallersAssumption DEF QuiesceInv, TypeOK, Begin, Enter, Guarded, AllGuarded, Inside
  <2>6. QED
    BY <2>1, <2>2, <2>3, <2>4, <2>5 DEF IInv
<1>2. CASE \E t \in Callers : CallerStep(t)
  BY <1>2, CallerSafe
<1>3. CASE Expire
  <2>1. MuxInv'
    BY <1>3 DEF MuxInv, TypeOK, Expire
  <2>2. CacheInv'
    BY <1>3 DEF CacheInv, AddrCoherent, TypeOK, Expire
  <2>3. HolderInv'
    BY <1>3 DEF HolderInv, TypeOK, Want, Expire
  <2>4. ExclusionInv'
    BY <1>3 DEF ExclusionInv, TypeOK, Callers, SuspendI2C, Expire
  <2>5. QuiesceInv'
    BY <1>3 DEF QuiesceInv, TypeOK, Expire
  <2>6. QED
    BY <2>1, <2>2, <2>3, <2>4, <2>5 DEF IInv
<1>4. CASE DisableClockWorker
  <2>1. MuxInv'
    BY <1>4, CallersAssumption DEF MuxInv, TypeOK, DisableClockWorker, DisableClock, Inside, NoHolder
  <2>2. CacheInv'
    BY <1>4, CallersAssumption DEF CacheInv, AddrCoherent, TypeOK, DisableClockWorker, DisableClock, Inside, NoHolder
  <2>3. HolderInv'
    <3>1. \A t \in Callers : pc[t] \notin Inside
      BY <1>4, CallersAssumption DEF MuxInv, DisableClockWorker, DisableClock, NoHolder
    <3>2. QED
      BY <1>4, <3>1, IdleHolder DEF DisableClockWorker, TypeOK
  <2>4. ExclusionInv'
    BY <1>4, CallersAssumption DEF ExclusionInv, TypeOK, Callers, SuspendI2C, DisableClockWorker, DisableClock, Inside, NoHolder
  <2>5. QuiesceInv'
    BY <1>4, CallersAssumption DEF QuiesceInv, TypeOK, DisableClockWorker, DisableClock, Inside, NoHolder
  <2>6. QED
    BY <2>1, <2>2, <2>3, <2>4, <2>5 DEF IInv
<1>5. ASSUME NEW k \in {"runtime", "system"}, Suspend(k) PROVE IInv'
  <2>1. MuxInv'
    BY <1>5 DEF MuxInv, TypeOK, Suspend, Guarded, AllGuarded
  <2>2. CacheInv'
    BY <1>5 DEF CacheInv, AddrCoherent, TypeOK, Suspend, Guarded, AllGuarded
  <2>3. HolderInv'
    BY <1>5 DEF HolderInv, TypeOK, Want, Suspend, Guarded, AllGuarded
  <2>4. ExclusionInv'
    BY <1>5 DEF ExclusionInv, TypeOK, Callers, SuspendI2C, Suspend, Guarded, AllGuarded
  <2>5. QuiesceInv'
    BY <1>5, DevsAssumption DEF QuiesceInv, Suspend
  <2>6. QED
    BY <2>1, <2>2, <2>3, <2>4, <2>5 DEF IInv
<1>6. CASE PmStep
  BY <1>6, PmSafe
<1>7. CASE PowerLoss
  <2>1. MuxInv'
    BY <1>7, DevsAssumption DEF MuxInv, TypeOK, PowerLoss, Forgotten
  <2>2. CacheInv'
    <3>1. /\ \A d \in Paged : lastPage[d] = NoPage
          /\ ~clkEnabled /\ devAddr = NoDev
      BY <1>7, QuietFacts DEF PowerLoss, ExclusionInv
    <3>2. QED
      BY <1>7, <3>1 DEF CacheInv, AddrCoherent, PowerLoss
  <2>3. HolderInv'
    <3>1. \A t \in Callers : pc[t] = "idle"
      BY <1>7, QuietFacts DEF PowerLoss, SuspendI2C
    <3>2. QED
      BY <1>7, <3>1, IdleHolder DEF PowerLoss, Outside
  <2>4. ExclusionInv'
    BY <1>7, DevsAssumption DEF ExclusionInv, TypeOK, Callers, SuspendI2C, PowerLoss, Forgotten
  <2>5. QuiesceInv'
    <3>1. \A d \in Paged : suspended[d] /\ lastPage[d] = NoPage
      BY <1>7, QuietFacts DEF PowerLoss
    <3>2. QED
      BY <1>7, <3>1 DEF QuiesceInv, PowerLoss
  <2>6. QED
    BY <2>1, <2>2, <2>3, <2>4, <2>5 DEF IInv
<1>8. CASE UNCHANGED vars
  <2>1. MuxInv'
    BY <1>8 DEF MuxInv, TypeOK, vars
  <2>2. CacheInv'
    BY <1>8 DEF CacheInv, AddrCoherent, TypeOK, vars
  <2>3. HolderInv'
    BY <1>8 DEF HolderInv, TypeOK, Want, vars
  <2>4. ExclusionInv'
    BY <1>8 DEF ExclusionInv, TypeOK, Callers, SuspendI2C, vars
  <2>5. QuiesceInv'
    BY <1>8 DEF QuiesceInv, TypeOK, vars
  <2>6. QED
    BY <2>1, <2>2, <2>3, <2>4, <2>5 DEF IInv
<1>9. QED
  BY <1>1, <1>2, <1>3, <1>4, <1>5, <1>6, <1>7, <1>8 DEF Next

\* And so it holds throughout, for any callers, devices and pages: the helpers and the PM
\* code keep i2c_mux, its caches, the chips and the suspend consistent.
THEOREM InvariantHolds ==
  ASSUME AllGuarded
  PROVE  Spec => []IInv
<1>1. Init => IInv
  BY IInvInit
<1>2. IInv /\ [Next]_vars => IInv'
  BY IInvNext
<1>3. QED
  BY <1>1, <1>2, PTL DEF Spec

\* Where every caller is guarded, a register access always finds the clock on,
\* the address of its own device in the bridge and that device out of reset,
\* through any mix of calls, clock timeouts, suspends and power losses
\* (cs8409_i2c_read() and its siblings, cs8409_suspend_i2c()).
THEOREM BridgeRightDevice ==
  ASSUME AllGuarded
  PROVE  Spec => []RightDevice
<1>1. IInv => RightDevice
  BY ReachedOne DEF RightDevice
<1>2. QED
  BY <1>1, InvariantHolds, PTL

\* And, if a page write that timed out never reached the chip, the page of the
\* register it asks for: the cache of cs8409_i2c_set_page() is never believed
\* wrongly.
THEOREM BridgeRightPage ==
  ASSUME AllGuarded, ~LostAck
  PROVE  Spec => []RightPage
<1>1. IInv => RightPage
  BY DEF IInv, HolderInv, RightPage
<1>2. QED
  BY <1>1, InvariantHolds, PTL

\* cs8409_set_i2c_dev_addr() may skip its write whenever the cache says so.
THEOREM BridgeAddrCoherent ==
  ASSUME AllGuarded
  PROVE  Spec => []AddrCoherent
<1>1. IInv => AddrCoherent
  BY DEF IInv, CacheInv
<1>2. QED
  BY <1>1, InvariantHolds, PTL

-----------------------------------------------------------------------------
(* The clock of the bridge, the suspend, and the resets of the chips.      *)

\* cs8409_enable_i2c_clock(): a clock the driver knows to run has an owner, after
\* any step and for any board: the cancel that does not wait leaves a worker that
\* has yet to take i2c_mux, or is followed by a new timer.
LEMMA OwnedNext == ClockOwned /\ [Next]_vars => ClockOwned'
<1> SUFFICES ASSUME ClockOwned, [Next]_vars PROVE ClockOwned'
  OBVIOUS
<1> USE DEF ClockOwned, hwVars, soft, clkWork, callVars, pmVars
<1>1. ASSUME NEW t \in Threads, NEW c \in Calls, Begin(t, c) PROVE ClockOwned'
  BY <1>1 DEF Begin
<1>2. ASSUME NEW t \in Callers, CallerStep(t) PROVE ClockOwned'
  BY <1>2 DEF CallerStep, Lock, EnableClock, SetAddr, SkipPage, WritePage,
              WritePageFails, RecordPage, Transfer, TransferFails
<1>3. CASE Expire \/ DisableClockWorker
  BY <1>3 DEF Expire, DisableClockWorker, DisableClock
<1>4. ASSUME NEW k \in {"runtime", "system"}, Suspend(k) PROVE ClockOwned'
  BY <1>4 DEF Suspend
<1>5. CASE PmStep
  <2>1. CASE TakeJackLock \/ CancelWork \/ FlushWork \/ ForgetAddr
    BY <2>1 DEF TakeJackLock, CancelWork, FlushWork, ForgetAddr
  <2>2. CASE MarkSuspended \/ ResetChip
    BY <2>2 DEF MarkSuspended, ResetChip, NextDevice
  <2>3. CASE SuspendClock \/ StandbyExit \/ HwInit \/ DeviceUp
    BY <2>3 DEF SuspendClock, DisableClock, StandbyExit, HwInit, Wakes, DeviceUp
  <2>4. ASSUME NEW d \in Devs, ClearSuspended(d) PROVE ClockOwned'
    BY <2>4 DEF ClearSuspended
  <2>5. ASSUME NEW c \in Calls, Quiesce(c) \/ InitDevice(c) PROVE ClockOwned'
    BY <2>5 DEF Quiesce, InitDevice
  <2>6. QED
    BY <1>5, <2>1, <2>2, <2>3, <2>4, <2>5 DEF PmStep
<1>6. CASE PowerLoss \/ UNCHANGED vars
  BY <1>6 DEF PowerLoss, vars
<1>7. QED
  BY <1>1, <1>2, <1>3, <1>4, <1>5, <1>6 DEF Next

\* A clock left running always has the delayed work, queued or running, or the
\* suspend to turn it off, on any board and for any callers
\* (cs8409_enable_i2c_clock(), cs8409_disable_i2c_clock_worker()).
THEOREM BridgeClockOwned == Spec => []ClockOwned
<1>1. Init => ClockOwned
  BY DEF Init, ClockOwned
<1>2. QED
  BY <1>1, OwnedNext, PTL DEF Spec

-----------------------------------------------------------------------------
\* The clock runs unknown to the driver only where the full init has set its bit and
\* the first register access of the PM thread since has not yet enabled it.
KnownInv ==
  /\ pm = "init" => ~suspended[pmDev]
  /\ hwClk /\ ~clkEnabled =>
       /\ ~(Standby /\ ~lost)
       /\ \/ pm \in {"wake", "init"}
          \/ pm = "waking" /\ pc[Pm] \in {"lock", "clock", "addr"}

\* The clock work from its cancel in the suspend on.
QuietInv ==
  /\ pm \in {"flush", "clkoff", "forget", "down"} => ~timer
  /\ pm \in {"clkoff", "forget", "down"} => worker = "idle"

ClockInv == KnownInv /\ QuietInv

\* The boot: the full init has yet to start the clock, the work is idle.
LEMMA ClockInvInit == Init => ClockInv
BY DEF Init, ClockInv, KnownInv, QuietInv

\* A caller starts the clock before its first page select, and none is in a call
\* once the clock work is cancelled for the suspend.
LEMMA CallerClock ==
  ASSUME IInv, ClockInv, NEW t \in Callers, CallerStep(t)
  PROVE  ClockInv'
<1> USE DEF ClockInv, KnownInv, QuietInv, hwVars, soft, clkWork, callVars, pmVars, Standby
<1>0. /\ pc \in [Callers -> Outside \union Inside]
      /\ pc[t] # "idle"
      /\ pm \notin SuspendI2C \union {"down"}
  <2>1. pc[t] # "idle"
    BY DEF CallerStep, Lock, EnableClock, SetAddr, SkipPage, WritePage,
           WritePageFails, RecordPage, Transfer, TransferFails
  <2>2. QED
    BY <2>1, CallerContext DEF IInv, TypeOK
<1>a. Pm \in Callers
  BY DEF Callers
<1>1. CASE Lock(t)
  BY <1>1, <1>0, <1>a DEF Lock, SuspendI2C
<1>2. CASE EnableClock(t)
  BY <1>2, <1>0 DEF EnableClock, SuspendI2C
<1>3. CASE SetAddr(t)
  <2>1. ~call[t].bulk => clkEnabled
    BY <1>3 DEF SetAddr, IInv, HolderInv
  <2>2. QED
    BY <1>3, <1>0, <1>a, <2>1 DEF SetAddr, SuspendI2C
<1>4. CASE pc[t] \in {"page", "record", "xfer"}
  <2>1. clkEnabled
    BY <1>4 DEF IInv, HolderInv
  <2>2. UNCHANGED <<hwClk, clkEnabled, timer, worker, pmVars>>
    BY <1>4 DEF CallerStep, Lock, EnableClock, SetAddr, SkipPage, WritePage,
           WritePageFails, RecordPage, Transfer, TransferFails
  <2>3. QED
    BY <2>1, <2>2
<1>5. QED
  BY <1>1, <1>2, <1>3, <1>4 DEF CallerStep, SkipPage, WritePage, WritePageFails,
     RecordPage, Transfer, TransferFails

\* The suspend stops the clock; the resume gives each device one access at least.
LEMMA PmClock ==
  ASSUME IInv, ClockInv, PmStep
  PROVE  ClockInv'
<1> USE DEF ClockInv, KnownInv, QuietInv, hwVars, soft, clkWork, callVars, pmVars, Standby
<1>0. /\ pc \in [Callers -> Outside \union Inside] /\ Pm \in Callers
      /\ suspended \in [Devs -> BOOLEAN]
  BY DEF IInv, TypeOK, Callers
<1>1. CASE TakeJackLock \/ CancelWork \/ FlushWork \/ ForgetAddr
  BY <1>1 DEF TakeJackLock, CancelWork, FlushWork, ForgetAddr
<1>2. CASE MarkSuspended
  BY <1>2 DEF MarkSuspended, NextDevice
<1>3. CASE ResetChip
  BY <1>3 DEF ResetChip, NextDevice
<1>4. CASE SuspendClock
  BY <1>4 DEF SuspendClock, DisableClock
<1>5. CASE StandbyExit
  BY <1>5 DEF StandbyExit, Wakes
<1>6. CASE HwInit
  BY <1>6 DEF HwInit, Wakes
<1>7. CASE DeviceUp
  BY <1>7 DEF DeviceUp
<1>8. ASSUME NEW d \in Devs, ClearSuspended(d) PROVE ClockInv'
  BY <1>0, <1>8 DEF ClearSuspended
<1>9. ASSUME NEW c \in Calls, Quiesce(c) PROVE ClockInv'
  BY <1>9 DEF Quiesce
<1>10. ASSUME NEW c \in Calls, InitDevice(c) PROVE ClockInv'
  BY <1>0, <1>10 DEF InitDevice, Enter
<1>11. QED
  BY <1>1, <1>2, <1>3, <1>4, <1>5, <1>6, <1>7, <1>8, <1>9, <1>10 DEF PmStep

\* And so does every step.
LEMMA ClockInvNext == IInv /\ ClockInv /\ [Next]_vars => ClockInv'
<1> SUFFICES ASSUME IInv, ClockInv, [Next]_vars PROVE ClockInv'
  OBVIOUS
<1> USE DEF hwVars, soft, clkWork, callVars, pmVars
<1>1. ASSUME NEW t \in Threads, NEW c \in Calls, Begin(t, c) PROVE ClockInv'
  <2>1. pc'[Pm] = pc[Pm]
    BY <1>1, CallersAssumption DEF Begin, Enter, IInv, TypeOK, Callers
  <2>2. QED
    BY <1>1, <2>1 DEF Begin, ClockInv, KnownInv, QuietInv, Standby
<1>2. CASE \E t \in Callers : CallerStep(t)
  BY <1>2, CallerClock
<1>3. CASE Expire \/ DisableClockWorker
  <2>1. CASE Expire
    BY <2>1 DEF Expire, ClockInv, KnownInv, QuietInv, Standby
  <2>2. CASE DisableClockWorker
    BY <2>2 DEF DisableClockWorker, DisableClock, ClockInv, KnownInv, QuietInv, Standby
  <2>3. QED
    BY <1>3, <2>1, <2>2
<1>4. ASSUME NEW k \in {"runtime", "system"}, Suspend(k) PROVE ClockInv'
  BY <1>4 DEF Suspend, ClockInv, KnownInv, QuietInv, Standby
<1>5. CASE PmStep
  BY <1>5, PmClock
<1>6. CASE PowerLoss \/ UNCHANGED vars
  BY <1>6 DEF PowerLoss, vars, ClockInv, KnownInv, QuietInv, Standby
<1>7. QED
  BY <1>1, <1>2, <1>3, <1>4, <1>5, <1>6 DEF Next

\* So both hold in every state of a board whose callers a suspend waits for.
LEMMA ClockInvHolds ==
  ASSUME AllGuarded
  PROVE  Spec => []ClockInv
<1>1. Init => ClockInv
  BY ClockInvInit
<1>2. IInv /\ ClockInv /\ [Next]_vars => ClockInv'
  BY ClockInvNext
<1>3. QED
  BY <1>1, <1>2, InvariantHolds, PTL DEF Spec

\* Where every caller is guarded, the clock runs without the driver's knowledge only
\* in a resume, between the full init and the first access to a chip
\* (cs8409_disable_i2c_clock(), mbp131_hw_init()).
THEOREM BridgeClockKnown ==
  ASSUME AllGuarded
  PROVE  Spec => []ClockKnown
<1>1. ClockInv => ClockKnown
  BY DEF ClockInv, KnownInv, ClockKnown
<1>2. QED
  BY <1>1, ClockInvHolds, PTL

\* And a suspend that is through leaves the bridge without a clock, a queued or
\* running work, an address believed in or a caller, until the resume
\* (cs8409_suspend_i2c()).
THEOREM BridgeSuspendQuiet ==
  ASSUME AllGuarded
  PROVE  Spec => []SuspendQuiet
<1>1. IInv /\ ClockInv => SuspendQuiet
  BY DEF IInv, ExclusionInv, ClockInv, KnownInv, QuietInv, SuspendQuiet
<1>2. QED
  BY <1>1, ClockInvHolds, InvariantHolds, PTL

-----------------------------------------------------------------------------
\* The devices a step puts in reset, and who may be in a call meanwhile.
LEMMA ResetStep ==
  IInv /\ [Next]_vars =>
    \A d \in held' \ held : \A t \in Callers : pc[t] # "idle" => call[t].dev # d
<1> SUFFICES ASSUME IInv, [Next]_vars, NEW d \in held' \ held, NEW t \in Callers,
                    pc[t] # "idle"
             PROVE  call[t].dev # d
  OBVIOUS
<1> USE DEF hwVars, soft, clkWork, callVars, pmVars
<1>1. CASE ResetChip
  BY <1>1, MarkFacts DEF ResetChip, IInv, QuiesceInv
<1>2. CASE HwInit \/ PowerLoss
  BY <1>2, QuietFacts DEF HwInit, PowerLoss
<1>3. ASSUME NEW e \in Devs, ClearSuspended(e) PROVE FALSE
  BY <1>3 DEF ClearSuspended
<1>4. ASSUME NEW u \in Callers, CallerStep(u) PROVE FALSE
  BY <1>4 DEF CallerStep, Lock, EnableClock, SetAddr, SkipPage, WritePage,
              WritePageFails, RecordPage, Transfer, TransferFails
<1>5. CASE Expire \/ DisableClockWorker \/ UNCHANGED vars
  BY <1>5 DEF Expire, DisableClockWorker, vars
<1>6. CASE TakeJackLock \/ CancelWork \/ FlushWork \/ ForgetAddr \/ MarkSuspended
           \/ SuspendClock \/ StandbyExit \/ DeviceUp
  BY <1>6 DEF TakeJackLock, CancelWork, FlushWork, ForgetAddr, MarkSuspended,
              SuspendClock, StandbyExit, DeviceUp
<1>7. ASSUME NEW c \in Calls,
             Quiesce(c) \/ InitDevice(c) \/ \E u \in Threads : Begin(u, c)
      PROVE  FALSE
  BY <1>7 DEF Quiesce, InitDevice, Begin
<1>8. ASSUME NEW k, Suspend(k) PROVE FALSE
  BY <1>8 DEF Suspend
<1>9. QED
  BY <1>1, <1>2, <1>3, <1>4, <1>5, <1>6, <1>7, <1>8 DEF Next, PmStep

\* No chip is put in reset under a call to it, by the suspend, by the full init or by
\* a power loss (mbp131_suspend(), cs8409_cs42l42_suspend()).
THEOREM BridgeResetAlone ==
  ASSUME AllGuarded
  PROVE  Spec => ResetAlone
<1>1. IInv /\ [Next]_vars =>
        [\A d \in held' \ held : \A t \in Callers : pc[t] # "idle" => call[t].dev # d]_vars
  BY ResetStep
<1>2. QED
  BY <1>1, InvariantHolds, PTL DEF Spec, ResetAlone

=============================================================================
