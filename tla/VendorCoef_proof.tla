-------------------------- MODULE VendorCoef_proof --------------------------
(***************************************************************************)
(* The two commands of a coefficient access are never separated by another *)
(* one, and so the accesses are atomic: for any callers that a suspend     *)
(* waits for, any transactions, and any tables of any boards.              *)
(***************************************************************************)
EXTENDS VendorCoef, SequenceTheorems, TLAPS

\* The programs that are run are sequences of operations.
LEMMA ProgramType ==
  /\ <<>> \in Seq(Ops) /\ ToggleClk \in Seq(Ops)
  /\ \A body \in Transactions : ToggleClk \o body \in Seq(Ops) /\ <<>> \o body \in Seq(Ops)
  /\ \A b \in Boards : InitVerbs[b] \in Seq(Ops) /\ HwConfig[b] \in Seq(Ops)
  /\ <<[StandbyProbe EXCEPT !.kind = "get"]>> \in Seq(Ops)
<1>1. <<>> \in Seq(Ops)
  OBVIOUS
<1>2. ToggleClk \in Seq(Ops)
  BY ValsAssumption DEF ToggleClk, Ops
<1>3. ASSUME NEW body \in Transactions
      PROVE  ToggleClk \o body \in Seq(Ops) /\ <<>> \o body \in Seq(Ops)
  BY <1>1, <1>2, ProgramsAssumption, ConcatProperties
<1>4. <<[StandbyProbe EXCEPT !.kind = "get"]>> \in Seq(Ops)
  <2>1. [StandbyProbe EXCEPT !.kind = "get"] \in Ops
    BY ProgramsAssumption DEF Ops
  <2>2. QED
    BY <2>1
<1>5. QED
  BY <1>1, <1>2, <1>3, <1>4, ProgramsAssumption

\* A program taken up keeps the types of the process that runs it.
LEMMA RunType ==
  ASSUME TypeOK, NEW t \in Procs, NEW p \in Seq(Ops), Run(t, p)
  PROVE  /\ prog' \in [Procs -> Seq(Ops)] /\ at' \in [Procs -> Nat \ {0}]
         /\ sent' \in [Procs -> BOOLEAN] /\ got' \in [Procs -> Vals]
BY ValsAssumption DEF TypeOK, Run

\* The operation a process is at, and the value it writes.
LEMMA OpType ==
  ASSUME TypeOK, NEW t \in Procs, Busy(t)
  PROVE  Op(t) \in Ops /\ Value(t) \in Vals
<1>1. prog[t] \in Seq(Ops) /\ at[t] \in Nat \ {0} /\ at[t] <= Len(prog[t])
  BY DEF TypeOK, Busy
<1>2. at[t] \in 1 .. Len(prog[t])
  BY <1>1, LenProperties
<1>3. Op(t) \in Ops
  BY <1>1, <1>2, ElementOfSeq DEF Op
<1>4. got[t] \in Vals
  BY DEF TypeOK
<1>5. ClkOn(got[t]) \in Vals /\ ClkOff(got[t]) \in Vals
  BY <1>4, ValsAssumption
<1>6. Op(t).val \in Vals
  BY <1>3 DEF Ops
<1>7. QED
  BY <1>3, <1>5, <1>6 DEF Value

-----------------------------------------------------------------------------
\* The state of a codec about to be probed is of the declared types.
LEMMA TypeInit == Init => TypeOK
<1> SUFFICES ASSUME Init PROVE TypeOK
  OBVIOUS
<1>1. prog \in [Procs -> Seq(Ops)]
  <2>1. InitVerbs[board] \in Seq(Ops) /\ <<>> \in Seq(Ops)
    BY ProgramType DEF Init
  <2>2. QED
    BY <2>1 DEF Init
<1>2. /\ stage \in [Procs -> {"out", "lock", "in"}] /\ at \in [Procs -> Nat \ {0}]
      /\ sent \in [Procs -> BOOLEAN] /\ got \in [Procs -> Vals]
  BY ValsAssumption DEF Init
<1>3. QED
  BY <1>1, <1>2, ValsAssumption DEF Init, TypeOK, PmStates

\* Every step keeps the types, provided a data command lands.
LEMMA TypeNext == TypeOK /\ CommandsLand /\ [Next]_vars => TypeOK'
<1> SUFFICES ASSUME TypeOK, CommandsLand, [Next]_vars PROVE TypeOK'
  OBVIOUS
<1> USE DEF hw, clk, runs, pmVars
<1>1. ASSUME NEW t \in Procs, SendIndex(t) PROVE TypeOK'
  <2>1. Op(t) \in Ops
    BY <1>1, OpType DEF SendIndex
  <2>2. Op(t).reg \in Regs
    BY <2>1 DEF Ops
  <2>3. QED
    BY <1>1, <2>2 DEF SendIndex, TypeOK
<1>2. ASSUME NEW t \in Procs, SendData(t) PROVE TypeOK'
  <2>1. Busy(t)
    BY <1>2 DEF SendData, CommandsLand
  <2>2. Value(t) \in Vals
    BY <2>1, OpType
  <2>3. coef' \in [Regs -> Vals] /\ got' \in [Procs -> Vals]
    <3>1. index \in Regs /\ coef \in [Regs -> Vals] /\ coef[index] \in Vals
      BY DEF TypeOK
    <3>2. got \in [Procs -> Vals]
      BY DEF TypeOK
    <3>3. CASE Op(t).kind = "get"
      BY <1>2, <3>1, <3>2, <3>3 DEF SendData
    <3>4. CASE Op(t).kind # "get"
      BY <1>2, <2>2, <3>1, <3>2, <3>4 DEF SendData
    <3>5. QED
      BY <3>3, <3>4
  <2>4. clkEnabled' \in BOOLEAN /\ timer' \in BOOLEAN
    <3>1. CASE Op(t).kind = "clk"
      <4>1. clkEnabled' = (t \in Callers) /\ timer' = (timer \/ t \in Callers)
        BY <1>2, <3>1 DEF SendData
      <4>2. (t \in Callers) \in BOOLEAN /\ (timer \/ t \in Callers) \in BOOLEAN
        OBVIOUS
      <4>3. QED
        BY <4>1, <4>2, Zenon
    <3>2. CASE Op(t).kind # "clk"
      BY <1>2, <3>2 DEF SendData, TypeOK
    <3>3. QED
      BY <3>1, <3>2
  <2>5. sent' \in [Procs -> BOOLEAN] /\ at' \in [Procs -> Nat \ {0}]
    BY <1>2 DEF SendData, TypeOK
  <2>6. QED
    BY <1>2, <2>3, <2>4, <2>5 DEF SendData, TypeOK
<1>3. ASSUME NEW t \in Callers, Enter(t) PROVE TypeOK'
  BY <1>3 DEF Enter, Move, TypeOK, Procs
<1>4. ASSUME NEW t \in Callers, Transact(t) PROVE TypeOK'
  <2>1. PICK body \in Transactions :
          Run(t, (IF clkEnabled THEN <<>> ELSE ToggleClk) \o body)
    BY <1>4 DEF Transact
  <2>2. (IF clkEnabled THEN <<>> ELSE ToggleClk) \o body \in Seq(Ops)
    BY ProgramType
  <2>3. t \in Procs
    BY DEF Procs
  <2>4. /\ prog' \in [Procs -> Seq(Ops)] /\ at' \in [Procs -> Nat \ {0}]
        /\ sent' \in [Procs -> BOOLEAN] /\ got' \in [Procs -> Vals]
    BY <2>1, <2>2, <2>3, RunType
  <2>5. QED
    BY <1>4, <2>3, <2>4 DEF Transact, Move, TypeOK
<1>5. ASSUME NEW t \in Callers \union {Worker}, Leave(t) PROVE TypeOK'
  <2>1. t \in Procs
    BY DEF Procs
  <2>2. /\ prog' \in [Procs -> Seq(Ops)] /\ at' \in [Procs -> Nat \ {0}]
        /\ sent' \in [Procs -> BOOLEAN] /\ got' \in [Procs -> Vals]
    BY <1>5, <2>1, RunType, ProgramType DEF Leave
  <2>3. QED
    BY <1>5, <2>1, <2>2 DEF Leave, Move, TypeOK
<1>6. CASE TimerFires
  BY <1>6 DEF TimerFires, Move, TypeOK, Procs
<1>7. ASSUME NEW t \in {Worker, Pm}, DisableClock(t) PROVE TypeOK'
  <2>1. t \in Procs
    BY DEF Procs
  <2>2. (IF clkEnabled THEN ToggleClk ELSE <<>>) \in Seq(Ops)
    BY ProgramType
  <2>3. /\ prog' \in [Procs -> Seq(Ops)] /\ at' \in [Procs -> Nat \ {0}]
        /\ sent' \in [Procs -> BOOLEAN] /\ got' \in [Procs -> Vals]
    BY <1>7, <2>1, <2>2, RunType DEF DisableClock
  <2>4. QED
    BY <1>7, <2>1, <2>3 DEF DisableClock, Move, TypeOK
<1>8. CASE Suspend
  BY <1>8 DEF Suspend, TypeOK, PmStates
<1>9. CASE SuspendI2C
  BY <1>9 DEF SuspendI2C, Move, TypeOK, PmStates, Procs
<1>10. CASE SuspendDone
  <2>1. /\ prog' \in [Procs -> Seq(Ops)] /\ at' \in [Procs -> Nat \ {0}]
        /\ sent' \in [Procs -> BOOLEAN] /\ got' \in [Procs -> Vals]
    BY <1>10, RunType, ProgramType DEF SuspendDone, Procs
  <2>2. QED
    BY <1>10, <2>1 DEF SuspendDone, Move, TypeOK, PmStates, Procs
<1>11. CASE PowerLoss
  BY <1>11, ValsAssumption DEF PowerLoss, TypeOK
<1>12. CASE Firmware
  BY <1>12, ValsAssumption DEF Firmware, TypeOK
<1>13. CASE ApplyVerbs
  <2>1. /\ prog' \in [Procs -> Seq(Ops)] /\ at' \in [Procs -> Nat \ {0}]
        /\ sent' \in [Procs -> BOOLEAN] /\ got' \in [Procs -> Vals]
    <3>1. board \in Boards /\ Pm \in Procs /\ Run(Pm, InitVerbs[board])
      BY <1>13 DEF ApplyVerbs, Procs, TypeOK
    <3>2. QED
      BY <3>1, RunType, ProgramType
  <2>2. QED
    BY <1>13, <2>1 DEF ApplyVerbs, Move, TypeOK, PmStates, Procs
<1>14. CASE LookAtStandby
  BY <1>14 DEF LookAtStandby, Move, TypeOK, PmStates, Procs
<1>15. CASE ReadProbe
  <2>1. /\ prog' \in [Procs -> Seq(Ops)] /\ at' \in [Procs -> Nat \ {0}]
        /\ sent' \in [Procs -> BOOLEAN] /\ got' \in [Procs -> Vals]
    BY <1>15, RunType, ProgramType DEF ReadProbe, Procs
  <2>2. QED
    BY <1>15, <2>1 DEF ReadProbe, Move, TypeOK, Procs
<1>16. CASE LightDone \/ HwInitDone
  <2>1. /\ prog' \in [Procs -> Seq(Ops)] /\ at' \in [Procs -> Nat \ {0}]
        /\ sent' \in [Procs -> BOOLEAN] /\ got' \in [Procs -> Vals]
    BY <1>16, RunType, ProgramType DEF LightDone, HwInitDone, Procs
  <2>2. QED
    BY <1>16, <2>1 DEF LightDone, HwInitDone, Up, Move, TypeOK, PmStates, Procs
<1>17. CASE HwInit
  <2>1. /\ prog' \in [Procs -> Seq(Ops)] /\ at' \in [Procs -> Nat \ {0}]
        /\ sent' \in [Procs -> BOOLEAN] /\ got' \in [Procs -> Vals]
    <3>1. board \in Boards /\ Pm \in Procs /\ Run(Pm, HwConfig[board])
      BY <1>17 DEF HwInit, Procs, TypeOK
    <3>2. QED
      BY <3>1, RunType, ProgramType
  <2>2. QED
    BY <1>17, <2>1 DEF HwInit, Move, TypeOK, PmStates, Procs
<1>18. CASE UNCHANGED vars
  BY <1>18 DEF vars, TypeOK
<1>19. QED
  BY <1>1, <1>2, <1>3, <1>4, <1>5, <1>6, <1>7, <1>8, <1>9, <1>10, <1>11, <1>12,
     <1>13, <1>14, <1>15, <1>16, <1>17, <1>18 DEF Next

-----------------------------------------------------------------------------
\* A codec about to be probed satisfies the invariant.
LEMMA InitInv == Init => IInv
BY TypeInit, ProcsAssumption
   DEF Init, IInv, Exclusive, Quiet, Marked, Powered, CommandsLand, Unlocked, Procs

\* Who is in a program, under the invariant: one process at the most.
LEMMA OneInside ==
  ASSUME Exclusive, Quiet, TypeOK, NEW t \in Procs, NEW u \in Procs,
         stage[t] = "in", stage[u] = "in"
  PROVE  t = u
BY ProcsAssumption DEF Exclusive, Quiet, TypeOK, Procs, Unlocked

\* A step that sends no command and moves no process that is between its two.
LEMMA KeepCommands ==
  ASSUME CommandsLand, sent' = sent, index' = index, vpw' = vpw,
         \A u \in Procs : sent[u] =>
            stage'[u] = stage[u] /\ prog'[u] = prog[u] /\ at'[u] = at[u]
  PROVE  CommandsLand'
BY DEF CommandsLand, Busy, Op

\* Every step of a system without a caller that a suspend does not wait for
\* preserves the invariant.
LEMMA NextInv == ASSUME Late = {} PROVE IInv /\ [Next]_vars => IInv'
<1> SUFFICES ASSUME IInv, [Next]_vars PROVE IInv'
  OBVIOUS
<1> USE DEF hw, clk, runs, pmVars
<1>0. TypeOK' /\ TypeOK
  BY TypeNext DEF IInv
<1> DEFINE S == Exclusive /\ Quiet /\ Marked /\ Powered
<1> SUFFICES S' /\ CommandsLand'
  BY <1>0 DEF IInv
<1>a. S /\ CommandsLand
  BY DEF IInv
<1>1. ASSUME NEW t \in Procs, SendIndex(t) PROVE S' /\ CommandsLand'
  <2>1. S'
    BY <1>1, <1>a DEF SendIndex, Exclusive, Quiet, Marked, Powered
  <2>2. ASSUME NEW u \in Procs, sent'[u]
        PROVE  (stage[u] = "in" /\ Busy(u) /\ index = Op(u).reg /\ vpw)'
    <3>1. CASE u = t
      BY <1>0, <1>1, <1>a, <3>1, ProcsAssumption
         DEF SendIndex, TypeOK, Busy, Op, Powered, Exclusive, Quiet, Unlocked, Procs
    <3>2. CASE u # t
      BY <1>0, <1>1, <1>a, <2>2, <3>2, OneInside DEF SendIndex, TypeOK, CommandsLand
    <3>3. QED
      BY <3>1, <3>2
  <2>3. QED
    BY <2>1, <2>2 DEF CommandsLand
<1>2. ASSUME NEW t \in Procs, SendData(t) PROVE S' /\ CommandsLand'
  <2>1. stage[t] = "in"
    BY <1>2, <1>a DEF SendData, CommandsLand
  <2>2. S'
    <3>1. timer' => timer \/ t \in Callers
      BY <1>2, <1>0 DEF SendData, TypeOK
    <3>2. QED
      BY <1>2, <1>a, <2>1, <3>1 DEF SendData, Exclusive, Quiet, Marked, Powered
  <2>3. ASSUME NEW u \in Procs, sent'[u]
        PROVE  (stage[u] = "in" /\ Busy(u) /\ index = Op(u).reg /\ vpw)'
    <3>1. u # t /\ sent[u]
      BY <1>0, <1>2, <2>3 DEF SendData, TypeOK
    <3>2. stage[u] = "in"
      BY <1>a, <3>1 DEF CommandsLand
    <3>3. QED
      BY <1>0, <1>a, <2>1, <3>1, <3>2, OneInside
  <2>4. QED
    BY <2>2, <2>3 DEF CommandsLand
<1>3. ASSUME NEW t \in Callers, Enter(t) PROVE S' /\ CommandsLand'
  <2>1. t \in Procs /\ t # Pm /\ t # Worker /\ pm = "up" /\ mux # t
    BY <1>3, <1>a, ProcsAssumption DEF Enter, Marked, Exclusive, Procs
  <2>2. S'
    BY <1>3, <1>0, <1>a, <2>1, ProcsAssumption
       DEF Enter, Move, TypeOK, Exclusive, Quiet, Marked, Powered, Procs
  <2>3. CommandsLand'
    BY <1>3, <1>0, <1>a, <2>1, KeepCommands DEF Enter, Move, CommandsLand, TypeOK
  <2>4. QED
    BY <2>2, <2>3
<1>4. ASSUME NEW t \in Callers, Transact(t) PROVE S' /\ CommandsLand'
  <2>1. t \in Procs /\ t # Pm /\ t # Worker /\ pm \in {"up", "waiting"}
    BY <1>4, <1>a, ProcsAssumption DEF Transact, Quiet, Procs
  <2>2. S'
    BY <1>4, <1>0, <1>a, <2>1, ProcsAssumption
       DEF Transact, Move, TypeOK, Exclusive, Quiet, Marked, Powered, Procs, Unlocked
  <2>3. ~sent[t]
    BY <1>4, <1>a, <2>1 DEF Transact, CommandsLand
  <2>4. CommandsLand'
    BY <1>4, <1>0, <1>a, <2>1, <2>3, KeepCommands DEF Transact, Move, Run, TypeOK
  <2>5. QED
    BY <2>2, <2>4
<1>5. ASSUME NEW t \in Callers \union {Worker}, Leave(t) PROVE S' /\ CommandsLand'
  <2>1. t \in Procs /\ t # Pm /\ mux = t
    BY <1>5, <1>a, ProcsAssumption DEF Leave, Exclusive, Procs
  <2>2. S'
    BY <1>5, <1>0, <1>a, <2>1, ProcsAssumption
       DEF Leave, Move, TypeOK, Exclusive, Quiet, Marked, Powered, Procs, Unlocked
  <2>3. CommandsLand'
    BY <1>5, <1>0, <1>a, <2>1, KeepCommands DEF Leave, Move, Run, TypeOK
  <2>4. QED
    BY <2>2, <2>3
<1>6. CASE TimerFires
  <2>1. Worker \in Procs /\ Worker # Pm /\ pm \in {"up", "waiting"} /\ mux # Worker
    BY <1>6, <1>a, ProcsAssumption DEF TimerFires, Quiet, Exclusive, Procs
  <2>2. S'
    BY <1>6, <1>0, <1>a, <2>1, ProcsAssumption
       DEF TimerFires, Move, TypeOK, Exclusive, Quiet, Marked, Powered, Procs
  <2>3. CommandsLand'
    BY <1>6, <1>0, <1>a, <2>1, KeepCommands DEF TimerFires, Move, CommandsLand, TypeOK
  <2>4. QED
    BY <2>2, <2>3
<1>7. CASE DisableClock(Worker)
  <2>1. Worker \in Procs /\ Worker # Pm /\ pm \in {"up", "waiting"} /\ ~sent[Worker]
    BY <1>7, <1>a, ProcsAssumption DEF DisableClock, Quiet, CommandsLand, Procs
  <2>2. S'
    BY <1>7, <1>0, <1>a, <2>1, ProcsAssumption
       DEF DisableClock, Move, TypeOK, Exclusive, Quiet, Marked, Powered, Procs, Unlocked
  <2>3. CommandsLand'
    BY <1>7, <1>0, <1>a, <2>1, KeepCommands DEF DisableClock, Move, Run, TypeOK
  <2>4. QED
    BY <2>2, <2>3
<1>8. CASE pm = "clkoff" /\ DisableClock(Pm)
  <2>1. Pm \in Procs /\ ~sent[Pm]
    BY <1>8, <1>a DEF DisableClock, CommandsLand, Procs
  <2>2. S'
    BY <1>8, <1>0, <1>a, <2>1, ProcsAssumption
       DEF DisableClock, Move, TypeOK, Exclusive, Quiet, Marked, Powered, Procs, Unlocked
  <2>3. CommandsLand'
    BY <1>8, <1>0, <1>a, <2>1, KeepCommands DEF DisableClock, Move, Run, TypeOK
  <2>4. QED
    BY <2>2, <2>3
<1>9. CASE Suspend
  <2>1. S'
    BY <1>9, <1>a DEF Suspend, Exclusive, Quiet, Marked, Powered, Unlocked
  <2>2. CommandsLand'
    BY <1>9, <1>a, KeepCommands DEF Suspend
  <2>3. QED
    BY <2>1, <2>2
<1>10. CASE SuspendI2C
  <2>1. \A t \in Callers \union {Worker} : stage[t] = "out"
    BY <1>10, Late = {} DEF SuspendI2C
  <2>2. mux # Pm /\ stage[Pm] # "in" /\ Pm \in Procs
    BY <1>10, <1>a DEF SuspendI2C, Exclusive, Unlocked, Procs
  <2>3. S'
    BY <1>10, <1>0, <1>a, <2>1, <2>2, ProcsAssumption
       DEF SuspendI2C, Move, TypeOK, Exclusive, Quiet, Marked, Powered, Procs, Unlocked
  <2>4. CommandsLand'
    BY <1>10, <1>0, <1>a, <2>2, KeepCommands DEF SuspendI2C, Move, CommandsLand, TypeOK
  <2>5. QED
    BY <2>3, <2>4
<1>11. CASE SuspendDone
  <2>1. Pm \in Procs /\ mux = Pm
    BY <1>11, <1>a DEF SuspendDone, Exclusive, Unlocked, Procs
  <2>2. S'
    BY <1>11, <1>0, <1>a, <2>1, ProcsAssumption
       DEF SuspendDone, Move, TypeOK, Exclusive, Quiet, Marked, Powered, Procs, Unlocked
  <2>3. CommandsLand'
    BY <1>11, <1>0, <1>a, <2>1, KeepCommands DEF SuspendDone, Move, Run, TypeOK
  <2>4. QED
    BY <2>2, <2>3
<1>12. CASE PowerLoss
  <2>1. \A t \in Procs : stage[t] # "in"
    BY <1>12, <1>a DEF PowerLoss, Quiet, Exclusive, Unlocked, Procs
  <2>2. S'
    BY <1>12, <1>a DEF PowerLoss, Exclusive, Quiet, Marked, Powered
  <2>3. CommandsLand'
    BY <1>12, <1>a, <2>1 DEF PowerLoss, CommandsLand
  <2>4. QED
    BY <2>2, <2>3
<1>13. CASE Firmware
  <2>1. S'
    BY <1>13, <1>a DEF Firmware, Exclusive, Quiet, Marked, Powered
  <2>2. CommandsLand'
    BY <1>13, <1>a, KeepCommands DEF Firmware
  <2>3. QED
    BY <2>1, <2>2
<1>14. CASE ApplyVerbs
  <2>1. ~sent[Pm] /\ Pm \in Procs /\ mux # Pm
    BY <1>14, <1>a DEF ApplyVerbs, CommandsLand, Exclusive, Unlocked, Procs
  <2>2. \A u \in Procs : ~sent[u]
    BY <1>14, <1>a, <2>1 DEF ApplyVerbs, CommandsLand, Quiet, Procs
  <2>3. S'
    BY <1>14, <1>0, <1>a, <2>1, ProcsAssumption
       DEF ApplyVerbs, Move, TypeOK, Exclusive, Quiet, Marked, Powered, Procs, Unlocked
  <2>4. CommandsLand'
    BY <1>14, <2>2 DEF ApplyVerbs, CommandsLand, Run
  <2>5. QED
    BY <2>3, <2>4
<1>15. CASE LookAtStandby
  <2>1. Pm \in Procs /\ mux # Pm
    BY <1>15, <1>a DEF LookAtStandby, Exclusive, Procs
  <2>2. S'
    BY <1>15, <1>0, <1>a, <2>1, ProcsAssumption
       DEF LookAtStandby, Move, TypeOK, Exclusive, Quiet, Marked, Powered, Procs, Unlocked
  <2>3. CommandsLand'
    BY <1>15, <1>0, <1>a, <2>1, KeepCommands DEF LookAtStandby, Move, TypeOK
  <2>4. QED
    BY <2>2, <2>3
<1>16. CASE ReadProbe
  <2>1. Pm \in Procs /\ ~sent[Pm]
    BY <1>16, <1>a DEF ReadProbe, CommandsLand, Procs
  <2>2. S'
    BY <1>16, <1>0, <1>a, <2>1, ProcsAssumption
       DEF ReadProbe, Move, TypeOK, Exclusive, Quiet, Marked, Powered, Procs, Unlocked
  <2>3. CommandsLand'
    BY <1>16, <1>0, <1>a, <2>1, KeepCommands DEF ReadProbe, Move, Run, TypeOK
  <2>4. QED
    BY <2>2, <2>3
<1>17. CASE LightDone
  <2>1. Pm \in Procs /\ mux = Pm
    BY <1>17, <1>a DEF LightDone, Exclusive, Unlocked, Procs
  <2>2. S'
    BY <1>17, <1>0, <1>a, <2>1, ProcsAssumption
       DEF LightDone, Up, Move, TypeOK, Exclusive, Quiet, Marked, Powered, Procs, Unlocked
  <2>3. CommandsLand'
    BY <1>17, <1>0, <1>a, <2>1, KeepCommands DEF LightDone, Move, Run, TypeOK
  <2>4. QED
    BY <2>2, <2>3
<1>18. CASE HwInit
  <2>1. Pm \in Procs
    BY DEF Procs
  <2>2. S'
    BY <1>18, <1>0, <1>a, <2>1, ProcsAssumption
       DEF HwInit, TypeOK, Exclusive, Quiet, Marked, Powered, Procs, Unlocked
  <2>3. CommandsLand'
    BY <1>18, <1>0, <1>a, <2>1, KeepCommands DEF HwInit, Run, TypeOK
  <2>4. QED
    BY <2>2, <2>3
<1>19. CASE HwInitDone
  <2>1. Pm \in Procs /\ mux # Pm
    BY <1>19, <1>a DEF HwInitDone, Exclusive, Procs
  <2>2. S'
    BY <1>19, <1>0, <1>a, <2>1, ProcsAssumption
       DEF HwInitDone, Up, Move, TypeOK, Exclusive, Quiet, Marked, Powered, Procs, Unlocked
  <2>3. CommandsLand'
    BY <1>19, <1>0, <1>a, <2>1, KeepCommands DEF HwInitDone, Move, Run, TypeOK
  <2>4. QED
    BY <2>2, <2>3
<1>20. CASE UNCHANGED vars
  BY <1>20, <1>a
     DEF vars, Exclusive, Quiet, Marked, Powered, CommandsLand, Busy, Op
<1>21. QED
  BY <1>1, <1>2, <1>3, <1>4, <1>5, <1>6, <1>7, <1>8, <1>9, <1>10, <1>11, <1>12,
     <1>13, <1>14, <1>15, <1>16, <1>17, <1>18, <1>19, <1>20 DEF Next
-----------------------------------------------------------------------------
\* cs8409.c: with every caller waited for by the suspend, the invariant holds:
\* one process at a time is between the commands of coefficients, the init of
\* the codec runs with everyone else out, and the suspended mark covers it.
THEOREM Invariant == ASSUME Late = {} PROVE Spec => []IInv
<1>1. Init => IInv
  BY InitInv
<1>2. IInv /\ [Next]_vars => IInv'
  BY NextInv
<1>3. QED
  BY <1>1, <1>2, PTL DEF Spec

\* cs8409_vendor_coef_get(), _set(): the data command of an access always goes
\* to the register its index command named, with the processing on.
THEOREM CommandsLandAlways == ASSUME Late = {} PROVE Spec => []CommandsLand
<1>1. IInv => CommandsLand
  BY DEF IInv
<1>2. QED
  BY <1>1, Invariant, PTL

-----------------------------------------------------------------------------
\* What the processes have begun is kept by a step that keeps the programs and
\* the readings of those between their two commands.
LEMMA BegunKept ==
  ASSUME sent' = sent,
         \A u \in Procs : sent[u] =>
            prog'[u] = prog[u] /\ at'[u] = at[u] /\ got'[u] = got[u]
  PROVE  [u \in Procs |-> Begun(u)]' = [u \in Procs |-> Begun(u)]
<1>1. ASSUME NEW u \in Procs PROVE Begun(u)' = Begun(u)
  BY DEF Begun, Op, Value
<1>2. QED
  BY <1>1

\* A step that takes up a program uses up what the process had read.
LEMMA RunUses ==
  ASSUME IInv, NEW t \in Procs, NEW p, Run(t, p), ~sent[t], coef' = coef
  PROVE  File!Use(t)
<1>1. [u \in Procs |-> Begun(u)]' = [u \in Procs |-> Begun(u)]
  BY BegunKept DEF Run, IInv, TypeOK
<1>2. [u \in Procs |-> Begun(u)][t] = NoOp
  BY DEF Begun
<1>3. QED
  BY <1>1, <1>2 DEF Run, File!Use

\* The first command of an access begins the operation.
LEMMA IndexBegins ==
  ASSUME IInv, NEW t \in Procs, SendIndex(t) PROVE File!Begin(t)
<1> DEFINE O == [u \in Procs |-> Begun(u)]
<1>1. O[t] = NoOp
  BY DEF Begun, SendIndex
<1>2. sent \in [Procs -> BOOLEAN]
  BY DEF IInv, TypeOK
<1>3. O'[t] \in Ops
  <2>1. Op(t) \in Ops /\ Value(t) \in Vals
    BY OpType DEF IInv, SendIndex
  <2>2. sent'[t] /\ Op(t)' = Op(t) /\ Value(t)' = Value(t)
    BY <1>2 DEF SendIndex, Op, Value
  <2>3. Begun(t)' = [kind |-> IF Op(t).kind = "get" THEN "get" ELSE "set",
                     reg |-> Op(t).reg, val |-> Value(t)]
    BY <2>2 DEF Begun
  <2>4. QED
    BY <2>1, <2>3 DEF Ops
<1>4. ASSUME NEW u \in Procs, u # t PROVE Begun(u)' = Begun(u)
  BY <1>2, <1>4 DEF SendIndex, Begun, Op, Value
<1>5. O' = [O EXCEPT ![t] = O'[t]]
  BY <1>4
<1>6. QED
  BY <1>1, <1>3, <1>5 DEF SendIndex, hw, File!Begin

\* The second command is the whole of its effect.
LEMMA DataEnds ==
  ASSUME IInv, NEW t \in Procs, SendData(t) PROVE File!End(t)
<1> DEFINE O == [u \in Procs |-> Begun(u)]
<1>1. sent \in [Procs -> BOOLEAN] /\ got \in [Procs -> Vals] /\ at \in [Procs -> Nat \ {0}]
  BY DEF IInv, TypeOK
<1>2. O[t] = [kind |-> IF Op(t).kind = "get" THEN "get" ELSE "set",
              reg |-> Op(t).reg, val |-> Value(t)]
  BY DEF Begun, SendData
<1>3. O[t] # NoOp
  <2>1. O[t].kind # NoOp.kind
    BY <1>2 DEF NoOp
  <2>2. QED
    BY <2>1
<1>4. ASSUME NEW u \in Procs, u # t PROVE Begun(u)' = Begun(u)
  <2>1. prog' = prog /\ at'[u] = at[u] /\ sent'[u] = sent[u] /\ got'[u] = got[u]
    BY <1>1, <1>4 DEF SendData
  <2>2. QED
    BY <2>1 DEF Begun, Op, Value
<1>5. Begun(t)' = NoOp
  BY <1>1 DEF Begun, SendData
<1>6. O' = [O EXCEPT ![t] = NoOp]
  BY <1>4, <1>5
<1>7. index = Op(t).reg
  BY DEF IInv, CommandsLand, SendData
<1>8. CASE Op(t).kind = "get"
  BY <1>2, <1>3, <1>6, <1>7, <1>8 DEF SendData, File!End
<1>9. CASE Op(t).kind # "get"
  BY <1>2, <1>3, <1>6, <1>7, <1>9 DEF SendData, File!End
<1>10. QED
  BY <1>8, <1>9

\* Every step is a step of the file of registers, or none.
LEMMA StepRefines == IInv /\ [Next]_vars => [File!Next]_(File!vars)
<1> SUFFICES ASSUME IInv, [Next]_vars PROVE [File!Next]_(File!vars)
  OBVIOUS
<1> USE DEF hw, clk, runs, pmVars
<1> DEFINE O == [u \in Procs |-> Begun(u)]
<1>0. /\ Pm \in Procs /\ Worker \in Procs /\ Callers \subseteq Procs
      /\ \A t \in Procs : sent[t] => stage[t] = "in" /\ Busy(t)
  BY DEF Procs, IInv, CommandsLand
<1>1. ASSUME NEW t \in Procs, SendIndex(t) PROVE File!Next
  BY <1>1, IndexBegins DEF File!Next
<1>2. ASSUME NEW t \in Procs, SendData(t) PROVE File!Next
  BY <1>2, DataEnds DEF File!Next
<1>3. ASSUME NEW t \in Procs, NEW p, Run(t, p), ~sent[t], coef' = coef PROVE File!Next
  BY <1>3, RunUses DEF File!Next
<1>4. ASSUME UNCHANGED <<coef, runs>> PROVE UNCHANGED File!vars
  <2>1. O' = O
    BY <1>4, BegunKept
  <2>2. QED
    BY <1>4, <2>1 DEF File!vars
<1>5. ASSUME NEW t \in Callers, Enter(t) PROVE UNCHANGED File!vars
  BY <1>4, <1>5 DEF Enter
<1>6. ASSUME NEW t \in Callers, Transact(t) PROVE File!Next
  BY <1>0, <1>3, <1>6 DEF Transact
<1>7. ASSUME NEW t \in Callers \union {Worker}, Leave(t) PROVE File!Next
  BY <1>0, <1>3, <1>7 DEF Leave
<1>8. ASSUME NEW t \in {Worker, Pm}, DisableClock(t) PROVE File!Next
  BY <1>0, <1>3, <1>8 DEF DisableClock
<1>9. CASE TimerFires \/ Suspend \/ SuspendI2C \/ LookAtStandby
  BY <1>4, <1>9 DEF TimerFires, Suspend, SuspendI2C, LookAtStandby
<1>10. CASE SuspendDone \/ LightDone \/ HwInitDone \/ HwInit
  <2>1. ~sent[Pm] /\ coef' = coef /\ \E p : Run(Pm, p)
    BY <1>10 DEF SuspendDone, LightDone, HwInitDone, HwInit
  <2>2. QED
    BY <1>0, <1>3, <2>1
<1>11. CASE ApplyVerbs \/ ReadProbe
  <2>1. ~sent[Pm]
    BY <1>0, <1>11 DEF ApplyVerbs, ReadProbe, IInv, Exclusive, Unlocked
  <2>2. coef' = coef /\ \E p : Run(Pm, p)
    BY <1>11 DEF ApplyVerbs, ReadProbe
  <2>3. QED
    BY <1>0, <1>3, <2>1, <2>2
<1>12. CASE PowerLoss \/ Firmware
  <2>1. \A t \in Procs : ~sent[t]
    BY <1>0, <1>12
       DEF PowerLoss, Firmware, IInv, Exclusive, Quiet, Unlocked, Procs
  <2>2. O = [t \in Procs |-> NoOp]
    BY <2>1 DEF Begun
  <2>3. O' = O
    BY <1>12, BegunKept DEF PowerLoss, Firmware
  <2>4. coef' \in [Regs -> Vals] /\ got' = got
    BY <1>12, ValsAssumption DEF PowerLoss, Firmware, IInv, TypeOK
  <2>5. File!Lose
    BY <2>2, <2>3, <2>4 DEF File!Lose
  <2>6. QED
    BY <2>5 DEF File!Next
<1>13. CASE UNCHANGED vars
  BY <1>4, <1>13 DEF vars
<1>14. QED
  BY <1>1, <1>2, <1>5, <1>6, <1>7, <1>8, <1>9, <1>10, <1>11, <1>12, <1>13 DEF Next

\* cs8409_vendor_coef_get(), _set(): with every caller waited for, the accesses
\* implement a file of registers read and written in one step each.
THEOREM Refinement == ASSUME Late = {} PROVE Spec => AtomicCoef
<1>1. Init => File!Init
  <2>1. ASSUME Init PROVE File!Init
    <3>1. [t \in Procs |-> Begun(t)] = [t \in Procs |-> NoOp]
      BY <2>1 DEF Init, Begun
    <3>2. TypeOK
      BY <2>1, TypeInit
    <3>3. QED
      BY <3>1, <3>2 DEF File!Init, TypeOK
  <2>2. QED
    BY <2>1
<1>2. IInv /\ [Next]_vars => [File!Next]_(File!vars)
  BY StepRefines
<1>3. QED
  BY <1>1, <1>2, Invariant, PTL DEF Spec, AtomicCoef, File!Spec
=============================================================================
