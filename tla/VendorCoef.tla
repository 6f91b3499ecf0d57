----------------------------- MODULE VendorCoef ------------------------------
(***************************************************************************)
(* The coefficient file of the CS8409's vendor widget (cs8409.c).  A       *)
(* coefficient is accessed by two commands: one sends its index, the other *)
(* reads or writes whatever the index register then names.  Nothing but    *)
(* i2c_mux keeps two users apart, and the init of the codec, its verbs and *)
(* its hw_init, goes without it.                                           *)
(*                                                                         *)
(* Users are the callers of the I2C helpers, each transaction a program of *)
(* coefficient operations run under the mutex; the work that turns the I2C *)
(* clock off; and the PM callbacks, which suspend the codec and init it.   *)
(***************************************************************************)
EXTENDS Integers, Sequences

CONSTANTS
  Callers,     \* callers of the I2C helpers
  Late,        \* those a suspend does not wait for
  Worker,      \* cs8409_disable_i2c_clock_worker()
  Pm,          \* suspend, init
  Boards,
  Light,       \* boards with a light way out of a runtime suspend
  Regs, Vals,
  ClkReg,      \* DEV_CFG1, which holds the clock bit of the I2C master
  InitVerbs,   \* board -> the coefficient operations among its init verbs
  HwConfig,    \* board -> those of its hw_init
  StandbyProbe,  \* the one coefficient the light way looks at
  Transactions,  \* what an I2C transaction does once the clock is on
  Reset,       \* register -> value after a loss of power
  Junk,        \* what firmware may leave in a register
  Touched      \* the registers it may leave it in, over a system sleep

Procs == Callers \union {Worker, Pm}
Ops   == [kind: {"set", "get", "clk"}, reg: Regs, val: Vals]
NoOp  == [kind |-> "none"]
NoMux == "none"

\* Bit 3 of ClkReg runs the clock.
Bit3(v)   == (v \div 8) % 2 = 1
ClkOn(v)  == IF Bit3(v) THEN v ELSE v + 8
ClkOff(v) == IF Bit3(v) THEN v - 8 ELSE v

ASSUME ProcsAssumption ==
  /\ Late \subseteq Callers /\ Worker \notin Callers /\ Pm \notin Callers
  /\ Worker # Pm /\ NoMux \notin Procs
ASSUME ValsAssumption ==
  /\ ClkReg \in Regs /\ 0 \in Vals /\ Junk \in Vals /\ Reset \in [Regs -> Vals]
  /\ Vals \subseteq Nat /\ \A v \in Vals : {ClkOn(v), ClkOff(v)} \subseteq Vals
ASSUME ProgramsAssumption ==
  /\ InitVerbs \in [Boards -> Seq(Ops)] /\ HwConfig \in [Boards -> Seq(Ops)]
  /\ StandbyProbe \in Ops /\ StandbyProbe.kind = "set"
  /\ Transactions \subseteq Seq(Ops) /\ Light \subseteq Boards

VARIABLES
  board,       \* fixed when the codec is probed
  index, coef, \* the index register and the file
  vpw,         \* is the vendor widget's processing on
  gpio,        \* are GPIO setup and reset line as the driver left them
  mux,         \* holder of i2c_mux
  clkEnabled, timer,
  stage,       \* "out", waiting at the mutex ("lock"), or "in" a program
  prog, at,    \* the program a process is in, and its place
  sent,        \* has the index of the operation at that place been sent
  got,         \* what its last read returned
  pm, deep,    \* the PM callbacks; system sleep or runtime suspend
  suspended, fullInit

hw     == <<index, coef, vpw, gpio>>
clk    == <<clkEnabled, timer>>
runs   == <<prog, at, sent, got>>
pmVars == <<pm, deep, suspended, fullInit>>
vars   == <<board, hw, mux, clk, stage, runs, pmVars>>

PmStates == {"probe", "up", "waiting", "clkoff", "down", "verbs", "look", "init"}
\* Where the PM thread sends coefficients without the mutex.
Unlocked == {"probe", "verbs", "init"}

Busy(t) == at[t] <= Len(prog[t])
Op(t)   == prog[t][at[t]]

\* The bit is changed by a read and a write computed from it.
ToggleClk == <<[kind |-> "get", reg |-> ClkReg, val |-> 0],
               [kind |-> "clk", reg |-> ClkReg, val |-> 0]>>
Value(t) ==
  CASE Op(t).kind # "clk" -> Op(t).val
    [] t \in Callers      -> ClkOn(got[t])
    [] OTHER              -> ClkOff(got[t])

Run(t, p) == /\ prog' = [prog EXCEPT ![t] = p]
             /\ at' = [at EXCEPT ![t] = 1]
             /\ got' = [got EXCEPT ![t] = 0]
             /\ UNCHANGED sent

Init ==
  /\ board \in Boards
  /\ index = ClkReg /\ coef = Reset /\ vpw = TRUE /\ gpio = FALSE
  /\ mux = NoMux /\ clkEnabled = FALSE /\ timer = FALSE
  /\ stage = [t \in Procs |-> IF t = Pm THEN "in" ELSE "out"]
  /\ prog = [t \in Procs |-> IF t = Pm THEN InitVerbs[board] ELSE <<>>]
  /\ at = [t \in Procs |-> 1] /\ sent = [t \in Procs |-> FALSE]
  /\ got = [t \in Procs |-> 0]
  /\ pm = "probe" /\ deep = FALSE /\ suspended = TRUE /\ fullInit = FALSE

-----------------------------------------------------------------------------
(* The two commands of cs8409_vendor_coef_get() and _set().                *)

SendIndex(t) ==
  /\ stage[t] = "in" /\ Busy(t) /\ ~sent[t]
  /\ index' = Op(t).reg
  /\ sent' = [sent EXCEPT ![t] = TRUE]
  /\ UNCHANGED <<board, coef, vpw, gpio, mux, clk, stage, prog, at, got, pmVars>>

\* The i2c_clck_enabled flag and the timer go with the write of the clock bit.
SendData(t) ==
  /\ sent[t]
  /\ IF Op(t).kind = "get"
       THEN got' = [got EXCEPT ![t] = coef[index]] /\ UNCHANGED coef
       ELSE coef' = [coef EXCEPT ![index] = Value(t)] /\ UNCHANGED got
  /\ IF Op(t).kind = "clk"
       THEN clkEnabled' = (t \in Callers) /\ timer' = (timer \/ t \in Callers)
       ELSE UNCHANGED clk
  /\ sent' = [sent EXCEPT ![t] = FALSE]
  /\ at' = [at EXCEPT ![t] = @ + 1]
  /\ UNCHANGED <<board, index, vpw, gpio, mux, stage, prog, pmVars>>

-----------------------------------------------------------------------------
(* The I2C helpers.                                                        *)

Move(t, s) == stage' = [stage EXCEPT ![t] = s]

\* Fault: no test of scodec->suspended.
EnterUnchecked(t) ==
  /\ stage[t] = "out"
  /\ Move(t, "lock")
  /\ UNCHANGED <<board, hw, mux, clk, runs, pmVars>>

\* The test of scodec->suspended, made before the mutex is taken.
Enter(t) ==
  /\ stage[t] = "out" /\ ~suspended
  /\ Move(t, "lock")
  /\ UNCHANGED <<board, hw, mux, clk, runs, pmVars>>

\* cs8409_enable_i2c_clock() cancels the timer; it is queued again at once when
\* the clock is on, and otherwise with the write that turns it on.
Transact(t) ==
  /\ stage[t] = "lock" /\ mux = NoMux
  /\ mux' = t /\ Move(t, "in")
  /\ \E body \in Transactions :
        Run(t, (IF clkEnabled THEN <<>> ELSE ToggleClk) \o body)
  /\ timer' = clkEnabled
  /\ UNCHANGED <<board, hw, clkEnabled, pmVars>>

Leave(t) ==
  /\ stage[t] = "in" /\ ~Busy(t) /\ ~sent[t]
  /\ Move(t, "out") /\ mux' = NoMux /\ Run(t, <<>>)
  /\ UNCHANGED <<board, hw, clk, pmVars>>

-----------------------------------------------------------------------------
(* cs8409_disable_i2c_clock(), from the delayed work or the suspend.       *)

TimerFires ==
  /\ timer /\ stage[Worker] = "out"
  /\ timer' = FALSE /\ Move(Worker, "lock")
  /\ UNCHANGED <<board, hw, mux, clkEnabled, runs, pmVars>>

DisableClock(t) ==
  /\ stage[t] = "lock" /\ mux = NoMux
  /\ mux' = t /\ Move(t, "in")
  /\ Run(t, IF clkEnabled THEN ToggleClk ELSE <<>>)
  /\ UNCHANGED <<board, hw, clk, pmVars>>

-----------------------------------------------------------------------------
(* The PM callbacks.                                                       *)

\* The companion chips are taken down and marked as suspended.
Suspend ==
  /\ pm = "up"
  /\ pm' = "waiting" /\ suspended' = TRUE /\ deep' \in BOOLEAN
  /\ UNCHANGED <<board, hw, mux, clk, stage, runs, fullInit>>

\* Fault: a clock work that runs is not waited for.
SuspendI2CNoWait ==
  /\ pm = "waiting"
  /\ \A t \in Callers \ Late : stage[t] = "out"
  /\ timer' = FALSE /\ pm' = "clkoff" /\ Move(Pm, "lock")
  /\ UNCHANGED <<board, hw, mux, clkEnabled, runs, deep, suspended, fullInit>>

\* cs8409_suspend_i2c(), with those done that the suspend waits for: timer
\* cancelled, a worker that runs waited for, then the clock turned off.
SuspendI2C ==
  /\ pm = "waiting"
  /\ \A t \in (Callers \ Late) \union {Worker} : stage[t] = "out"
  /\ timer' = FALSE /\ pm' = "clkoff" /\ Move(Pm, "lock")
  /\ UNCHANGED <<board, hw, mux, clkEnabled, runs, deep, suspended, fullInit>>

SuspendDone ==
  /\ pm = "clkoff" /\ stage[Pm] = "in" /\ ~Busy(Pm) /\ ~sent[Pm]
  /\ pm' = "down" /\ mux' = NoMux /\ Move(Pm, "out") /\ Run(Pm, <<>>)
  /\ UNCHANGED <<board, hw, clk, deep, suspended, fullInit>>

PowerLoss ==
  /\ pm = "down"
  /\ coef' = Reset /\ index' = ClkReg /\ vpw' = FALSE /\ gpio' = FALSE
  /\ UNCHANGED <<board, mux, clk, stage, runs, pmVars>>

\* A system sleep without one: the firmware may leave anything behind.
Firmware ==
  /\ pm = "down" /\ deep
  /\ coef' = [r \in Regs |-> IF r \in Touched THEN Junk ELSE coef[r]]
  /\ UNCHANGED <<board, index, vpw, gpio, mux, clk, stage, runs, pmVars>>

\* cs8409_init(): the verbs first. The first one enables the processing.
ApplyVerbs ==
  /\ pm = "down" \/ (pm = "probe" /\ ~Busy(Pm) /\ ~sent[Pm])
  /\ pm' = "verbs" /\ vpw' = TRUE
  /\ Move(Pm, "in") /\ Run(Pm, InitVerbs[board])
  /\ UNCHANGED <<board, index, coef, gpio, mux, clk, deep, suspended, fullInit>>

\* Fault: the light way is tried after a system sleep too.
TryLightAlways == board \in Light /\ fullInit /\ gpio

\* mbp131_hw_init(): the light way is tried after a runtime suspend only.
TryLight == board \in Light /\ fullInit /\ ~deep /\ gpio

LookAtStandby ==
  /\ pm = "verbs" /\ ~Busy(Pm) /\ ~sent[Pm] /\ TryLight
  /\ pm' = "look" /\ Move(Pm, "lock")
  /\ UNCHANGED <<board, hw, mux, clk, runs, deep, suspended, fullInit>>

\* mbp131_standby_intact() takes the mutex for its one read.
ReadProbe ==
  /\ pm = "look" /\ stage[Pm] = "lock" /\ mux = NoMux
  /\ mux' = Pm /\ Move(Pm, "in")
  /\ Run(Pm, <<[StandbyProbe EXCEPT !.kind = "get"]>>)
  /\ UNCHANGED <<board, hw, clk, pmVars>>

Up == pm' = "up" /\ suspended' = FALSE /\ fullInit' = TRUE

LightDone ==
  /\ pm = "look" /\ stage[Pm] = "in" /\ ~Busy(Pm) /\ ~sent[Pm]
  /\ got[Pm] = StandbyProbe.val
  /\ Up /\ mux' = NoMux /\ Move(Pm, "out") /\ Run(Pm, <<>>)
  /\ UNCHANGED <<board, hw, clk, deep>>

\* Fault: after the first init only the last write of the table is sent again.
HwInitShort ==
  /\ ~Busy(Pm) /\ ~sent[Pm] /\ stage[Pm] = "in"
  /\ \/ pm = "verbs" /\ ~TryLight
     \/ pm = "look" /\ got[Pm] # StandbyProbe.val
  /\ pm' = "init" /\ gpio' = TRUE
  /\ mux' = IF mux = Pm THEN NoMux ELSE mux
  /\ LET table == HwConfig[board]
     IN  Run(Pm, IF fullInit THEN SubSeq(table, Len(table), Len(table)) ELSE table)
  /\ UNCHANGED <<board, index, coef, vpw, clk, stage, deep, suspended, fullInit>>

\* The way of every other board, and of this one when the light way is not
\* open: GPIOs, then the table, command by command and without the mutex.
HwInit ==
  /\ ~Busy(Pm) /\ ~sent[Pm] /\ stage[Pm] = "in"
  /\ \/ pm = "verbs" /\ ~TryLight
     \/ pm = "look" /\ got[Pm] # StandbyProbe.val
  /\ pm' = "init" /\ gpio' = TRUE
  /\ mux' = IF mux = Pm THEN NoMux ELSE mux
  /\ Run(Pm, HwConfig[board])
  /\ UNCHANGED <<board, index, coef, vpw, clk, stage, deep, suspended, fullInit>>

HwInitDone ==
  /\ pm = "init" /\ ~Busy(Pm) /\ ~sent[Pm]
  /\ Up /\ Move(Pm, "out") /\ Run(Pm, <<>>)
  /\ UNCHANGED <<board, hw, mux, clk, deep>>

Next ==
  \/ \E t \in Procs : SendIndex(t) \/ SendData(t)
  \/ \E t \in Callers : Enter(t) \/ Transact(t)
  \/ \E t \in Callers \union {Worker} : Leave(t)
  \/ TimerFires \/ DisableClock(Worker) \/ (pm = "clkoff" /\ DisableClock(Pm))
  \/ Suspend \/ SuspendI2C \/ SuspendDone \/ PowerLoss \/ Firmware
  \/ ApplyVerbs \/ LookAtStandby \/ ReadProbe \/ LightDone \/ HwInit \/ HwInitDone

Spec == Init /\ [][Next]_vars

-----------------------------------------------------------------------------
\* The type invariant.
TypeOK ==
  /\ board \in Boards
  /\ index \in Regs /\ coef \in [Regs -> Vals] /\ vpw \in BOOLEAN /\ gpio \in BOOLEAN
  /\ mux \in Procs \union {NoMux} /\ clkEnabled \in BOOLEAN /\ timer \in BOOLEAN
  /\ stage \in [Procs -> {"out", "lock", "in"}]
  /\ prog \in [Procs -> Seq(Ops)] /\ at \in [Procs -> Nat \ {0}]
  /\ sent \in [Procs -> BOOLEAN] /\ got \in [Procs -> Vals]
  /\ pm \in PmStates /\ deep \in BOOLEAN
  /\ suspended \in BOOLEAN /\ fullInit \in BOOLEAN

\* Who may send commands: the holder of the mutex, and the init of a codec
\* that nobody else can be at.
Exclusive ==
  /\ \A t \in Callers \union {Worker} : stage[t] = "in" <=> mux = t
  /\ stage[Pm] = "in" <=> (mux = Pm \/ pm \in Unlocked)
  /\ mux = Pm => pm \in {"clkoff", "look"}
  /\ stage[Pm] = "lock" => pm \in {"clkoff", "look"}

\* From the moment the clock is cancelled until the codec is up again the
\* suspended mark is set, every caller is out and no clock work is pending.
Quiet ==
  pm \notin {"up", "waiting"} =>
    /\ \A t \in Callers \union {Worker} : stage[t] = "out"
    /\ ~timer

\* The mark that keeps new callers out covers all of the suspend and the init.
Marked == suspended <=> pm # "up"

\* The data command of an operation goes to the register the operation names,
\* with the processing of the vendor widget on.
CommandsLand ==
  \A t \in Procs : sent[t] =>
    stage[t] = "in" /\ Busy(t) /\ index = Op(t).reg /\ vpw

\* Outside a suspend the processing of the vendor widget is on.
Powered == pm # "down" => vpw

\* The inductive invariant: an access is one step to everybody else because one
\* process at a time sends commands, the init with no lock but with nobody left.
IInv == TypeOK /\ Exclusive /\ Quiet /\ Marked /\ Powered /\ CommandsLand

\* What a process has begun: its index command is sent, its data command is not.
Begun(t) ==
  IF ~sent[t] THEN NoOp
  ELSE [kind |-> IF Op(t).kind = "get" THEN "get" ELSE "set",
        reg |-> Op(t).reg, val |-> Value(t)]

\* To everyone the coefficients are registers read and written one at a time:
\* an operation begins with its index command and takes effect with the other,
\* on the register it names, whatever the others do in between.
File == INSTANCE CoefFile WITH
          file <- coef, got <- got, NoVal <- 0, op <- [t \in Procs |-> Begun(t)]
AtomicCoef == File!Spec
=============================================================================
