------------------------------ MODULE I2CBridge ------------------------------
(***************************************************************************)
(* The I2C bridge of the CS8409 (cs8409.c): the mutex i2c_mux, the clock   *)
(* that a delayed work turns off after 25 ms without use, the cached       *)
(* device address (spec->dev_addr), the cached page of each companion chip *)
(* (scodec->last_page) and the `suspended' mark, under concurrent callers  *)
(* and a suspend and resume of the codec.                                  *)
(*                                                                         *)
(* Everything the driver only believes about the hardware stands beside    *)
(* what the hardware holds: clkEnabled/hwClk, devAddr/hwAddr,              *)
(* lastPage/hwPage.  A register is one per page; its offset within the     *)
(* page is never cached and so needs no model.                             *)
(***************************************************************************)
EXTENDS Integers, Sequences

CONSTANTS
  Threads,    \* callers of the I2C helpers other than the PM callbacks
  Users,      \* those that are control writes of user space
  Pm,         \* the thread that runs the suspend and resume callbacks
  Devs,       \* devices on the bus: companion codecs and amplifiers
  Paged,      \* those with a page register (sub_codec.paged)
  NoDev,      \* address register at its power-on value; spec->dev_addr == 0
  Pages,
  NoPage,     \* page register after a reset; scodec->last_page == 0
  Vals,
  Default,    \* register contents after a reset
  Calls,      \* the calls the callers make, see CallType
  Mbp131,     \* TRUE: the MacBookPro13,1 board; FALSE: the Dell boards
  LostAck     \* may a page write that timed out have reached the chip?

Callers == Threads \union {Pm}

\* Whom a suspend of the MacBook board waits for: holders of jack_lock or of a
\* runtime PM reference. A control write has neither, the Dell handlers neither.
Guarded == IF Mbp131 THEN Threads \ Users ELSE {}

CallType == [dev: Devs, write: BOOLEAN, bulk: BOOLEAN,
             regs: Seq([page: Pages, val: Vals])]

ASSUME CallersAssumption ==
  Users \subseteq Threads /\ Pm \notin Threads /\ "none" \notin Callers
ASSUME DevsAssumption == /\ Paged \subseteq Devs /\ Paged # {}
                         /\ NoDev \notin Devs /\ NoPage \notin Pages
ASSUME ValsAssumption == Default \in Vals
ASSUME CallsAssumption ==
  /\ Calls \subseteq CallType /\ Calls # {}
  /\ \A c \in Calls : Len(c.regs) > 0 /\ (~c.bulk => Len(c.regs) = 1)
ASSUME BoardAssumption == Mbp131 \in BOOLEAN /\ LostAck \in BOOLEAN

VARIABLES
  hwClk, hwAddr,       \* the bridge: clock running, address register
  hwPage, mem, held,   \* the chips: page, registers, which are held in reset
  clkEnabled, devAddr, lastPage,  \* what the driver believes
  suspended,           \* scodec->suspended
  mux,                 \* holder of i2c_mux, or NoHolder
  timer, worker,       \* i2c_clk_work: queued with its delay; executing
  pc, call, at, got, res,  \* callers
  pm, pmLeft, pmDev, sleep, barred, lost   \* the PM callbacks

hwVars   == <<hwClk, hwAddr, hwPage, mem, held>>
soft     == <<clkEnabled, devAddr, lastPage>>
clkWork  == <<timer, worker>>
callVars == <<pc, call, at, got, res>>
pmVars   == <<pm, pmLeft, pmDev, sleep, barred, lost, suspended>>
vars     == <<hwVars, soft, mux, clkWork, callVars, pmVars>>

NoHolder == "none"
AnyCall == CHOOSE c \in Calls : TRUE   \* where a caller is in no call
Outside  == {"idle", "lock"}
Inside   == {"clock", "addr", "page", "record", "xfer"}  \* holding i2c_mux
Results  == {"none", "busy", "ok", "EPERM", "EIO"}
PmStates == {"up", "quiesce", "marking", "reset", "cancel", "flush", "clkoff",
             "forget", "down", "wake", "init", "waking"}
SuspendI2C == {"cancel", "flush", "clkoff", "forget"}

Locs == Devs \X (Pages \union {NoPage})
Loc(d, p) == <<d, IF d \in Paged THEN p ELSE NoPage>>

\* Page and value of the entry a caller is at.
Want(t) == call[t].regs[at[t]].page
Data(t) == call[t].regs[at[t]].val

\* The devices that see what is sent with the clock and the address as they are.
Reached == {d \in Devs : hwClk /\ hwAddr = d /\ d \notin held}

\* Chips in D back at their reset defaults.
Forgotten(D) == /\ hwPage' = [d \in Devs |-> IF d \in D THEN NoPage ELSE hwPage[d]]
                /\ mem' = [l \in Locs |-> IF l[1] \in D THEN Default ELSE mem[l]]

-----------------------------------------------------------------------------
(* The callers: cs8409_i2c_read/_write and their bulk forms.               *)

\* `if (scodec->suspended) return -EPERM', before the mutex is taken.
Enter(t, c) ==
  /\ pc[t] = "idle"
  /\ IF suspended[c.dev]
       THEN /\ res' = [res EXCEPT ![t] = "EPERM"]
            /\ UNCHANGED <<pc, call, at, got>>
       ELSE /\ pc' = [pc EXCEPT ![t] = "lock"]
            /\ call' = [call EXCEPT ![t] = c]
            /\ at' = [at EXCEPT ![t] = 1]
            /\ got' = [got EXCEPT ![t] = Default]
            /\ res' = [res EXCEPT ![t] = "busy"]

\* A caller other than PM. User tasks are frozen around a system sleep, the
\* guarded callers kept away while the PM callbacks bar them.
Begin(t, c) ==
  /\ t \in Guarded => ~barred
  /\ t \in Users => pm = "up" \/ sleep = "runtime"
  /\ Enter(t, c)
  /\ UNCHANGED <<hwVars, soft, mux, clkWork, pmVars>>

\* The bulk forms set the address before the first clock enable, the single
\* ones after it.
Lock(t) ==
  /\ pc[t] = "lock" /\ mux = NoHolder
  /\ mux' = t
  /\ pc' = [pc EXCEPT ![t] = IF call[t].bulk THEN "addr" ELSE "clock"]
  /\ UNCHANGED <<hwVars, soft, clkWork, call, at, got, res, pmVars>>

\* Fault: the work is queued by the call that starts the clock only, though each
\* one cancelled it.
EnableClockOnce(t) ==
  /\ pc[t] = "clock"
  /\ hwClk' = (hwClk \/ ~clkEnabled)
  /\ clkEnabled' = TRUE
  /\ timer' = (pm # "flush" /\ ~clkEnabled)
  /\ pc' = [pc EXCEPT ![t] = IF call[t].bulk THEN "page" ELSE "addr"]
  /\ UNCHANGED <<hwAddr, hwPage, mem, held, devAddr, lastPage, mux, worker,
                 call, at, got, res, pmVars>>

\* cancel_delayed_work() does not wait for a worker that runs already; while
\* cancel_delayed_work_sync() is waiting, a queued work is not accepted.
EnableClock(t) ==
  /\ pc[t] = "clock"
  /\ hwClk' = (hwClk \/ ~clkEnabled)
  /\ clkEnabled' = TRUE
  /\ timer' = (pm # "flush")
  /\ pc' = [pc EXCEPT ![t] = IF call[t].bulk THEN "page" ELSE "addr"]
  /\ UNCHANGED <<hwAddr, hwPage, mem, held, devAddr, lastPage, mux, worker,
                 call, at, got, res, pmVars>>

SetAddr(t) ==
  /\ pc[t] = "addr"
  /\ IF devAddr # call[t].dev
       THEN hwAddr' = call[t].dev /\ devAddr' = call[t].dev
       ELSE UNCHANGED <<hwAddr, devAddr>>
  /\ pc' = [pc EXCEPT ![t] = IF call[t].bulk THEN "clock" ELSE "page"]
  /\ UNCHANGED <<hwClk, hwPage, mem, held, clkEnabled, lastPage, mux, clkWork,
                 call, at, got, res, pmVars>>

\* Fault: only the first page is ever selected.
NeedsPageOnce(t) == call[t].dev \in Paged /\ lastPage[call[t].dev] = NoPage

NeedsPage(t) == call[t].dev \in Paged /\ lastPage[call[t].dev] # Want(t)

SkipPage(t) ==
  /\ pc[t] = "page" /\ ~NeedsPage(t)
  /\ pc' = [pc EXCEPT ![t] = "xfer"]
  /\ UNCHANGED <<hwVars, soft, mux, clkWork, call, at, got, res, pmVars>>

\* The end of a call, `goto error' included: the guard of i2c_mux releases it.
Return(t, r) ==
  /\ pc' = [pc EXCEPT ![t] = "idle"]
  /\ call' = [call EXCEPT ![t] = AnyCall]
  /\ at' = [at EXCEPT ![t] = 1]
  /\ res' = [res EXCEPT ![t] = r]
  /\ mux' = NoHolder

\* What a page write does to whichever device it reaches; one without a page
\* register takes it for a register.
PageLands(t) ==
  /\ hwPage' = [d \in Devs |-> IF d \in Reached \intersect Paged
                                 THEN Want(t) ELSE hwPage[d]]
  /\ \E v \in Vals :
       mem' = [l \in Locs |-> IF l[1] \in Reached \ Paged THEN v ELSE mem[l]]

WritePage(t) ==
  /\ pc[t] = "page" /\ NeedsPage(t)
  /\ PageLands(t)
  /\ pc' = [pc EXCEPT ![t] = "record"]
  /\ UNCHANGED <<hwClk, hwAddr, held, soft, mux, clkWork, call, at, got, res, pmVars>>

\* Fault: the result of the page write is not looked at.
WritePageIgnored(t) ==
  /\ pc[t] = "page" /\ NeedsPage(t)
  /\ pc' = [pc EXCEPT ![t] = "xfer"]
  /\ UNCHANGED <<hwVars, soft, mux, clkWork, call, at, got, res, pmVars>>

\* cs8409_i2c_wait_complete() timed out: last_page keeps its old value.
WritePageFails(t) ==
  /\ pc[t] = "page" /\ NeedsPage(t)
  /\ Return(t, "EIO")
  /\ \/ LostAck /\ PageLands(t)
     \/ UNCHANGED <<hwPage, mem>>
  /\ UNCHANGED <<hwClk, hwAddr, held, soft, clkWork, got, pmVars>>

RecordPage(t) ==
  /\ pc[t] = "record"
  /\ lastPage' = [lastPage EXCEPT ![call[t].dev] = Want(t)]
  /\ pc' = [pc EXCEPT ![t] = "xfer"]
  /\ UNCHANGED <<hwVars, clkEnabled, devAddr, mux, clkWork, call, at, got, res, pmVars>>

\* The register access itself, on whatever the bridge reaches; with nothing
\* there a read brings anything.
Access(t) ==
  IF call[t].write
    THEN /\ mem' = [l \in Locs |-> IF \E d \in Reached : l = Loc(d, hwPage[d])
                                     THEN Data(t) ELSE mem[l]]
         /\ UNCHANGED got
    ELSE /\ \E v \in Vals :
              /\ \A d \in Reached : v = mem[Loc(d, hwPage[d])]
              /\ got' = [got EXCEPT ![t] = v]
         /\ UNCHANGED mem

Transfer(t) ==
  /\ pc[t] = "xfer"
  /\ Access(t)
  /\ IF at[t] = Len(call[t].regs)
       THEN Return(t, "ok")
       ELSE /\ at' = [at EXCEPT ![t] = @ + 1]
            /\ pc' = [pc EXCEPT ![t] = "clock"]
            /\ UNCHANGED <<mux, res, call>>
  /\ UNCHANGED <<hwClk, hwAddr, hwPage, held, soft, clkWork, pmVars>>

\* Fault: what failed is tried again, i2c_mux kept, for as long as it fails.
TransferRetries(t) ==
  /\ pc[t] = "xfer"
  /\ pc' = [pc EXCEPT ![t] = "clock"]
  /\ UNCHANGED <<hwVars, soft, mux, clkWork, call, at, got, res, pmVars>>

TransferFails(t) ==
  /\ pc[t] = "xfer"
  /\ Return(t, "EIO")
  /\ UNCHANGED got
  /\ UNCHANGED mem \/ (call[t].write /\ Access(t))
  /\ UNCHANGED <<hwClk, hwAddr, hwPage, held, soft, clkWork, pmVars>>

CallerStep(t) ==
  \/ Lock(t) \/ EnableClock(t) \/ SetAddr(t) \/ SkipPage(t) \/ WritePage(t)
  \/ WritePageFails(t) \/ RecordPage(t) \/ Transfer(t) \/ TransferFails(t)

-----------------------------------------------------------------------------
(* i2c_clk_work.  Its critical section touches only the clock and its      *)
(* flag, so it is one step, as is the same function in the suspend.        *)

Expire ==
  /\ timer /\ worker = "idle"
  /\ timer' = FALSE
  /\ worker' = "ready"
  /\ UNCHANGED <<hwVars, soft, mux, callVars, pmVars>>

\* Fault: the flag is cleared before it is tested.
DisableClockFlagFirst ==
  /\ mux = NoHolder
  /\ clkEnabled' = FALSE
  /\ UNCHANGED hwClk

DisableClock ==
  /\ mux = NoHolder
  /\ hwClk' = (hwClk /\ ~clkEnabled)
  /\ clkEnabled' = FALSE

DisableClockWorker ==
  /\ worker = "ready"
  /\ DisableClock
  /\ worker' = "idle"
  /\ UNCHANGED <<hwAddr, hwPage, mem, held, devAddr, lastPage, mux, timer,
                 callVars, pmVars>>

-----------------------------------------------------------------------------
(* The PM callbacks.  A runtime suspend of the MacBook board is a standby, *)
(* the chips stay out of reset; every other suspend resets them.           *)

Standby == Mbp131 /\ sleep = "runtime"

Suspend(k) ==
  /\ pm = "up"
  /\ k = "runtime" => \A t \in Guarded : pc[t] = "idle"
  /\ k = "system" => \A t \in Users : pc[t] = "idle"
  /\ pm' = "quiesce"
  /\ pmLeft' = Devs
  /\ sleep' = k
  /\ barred' = (k = "runtime")
  /\ UNCHANGED <<hwVars, soft, mux, clkWork, callVars, pmDev, lost, suspended>>

\* Fault: jack_lock is not taken.
SkipJackLock ==
  /\ pm = "quiesce" /\ Mbp131 /\ ~barred /\ pmLeft \subseteq Paged
  /\ barred' = TRUE
  /\ UNCHANGED <<hwVars, soft, mux, clkWork, callVars, pm, pmLeft, pmDev, sleep,
                 lost, suspended>>

\* mbp131_suspend() takes jack_lock for the companion codec, after the amps.
TakeJackLock ==
  /\ pm = "quiesce" /\ Mbp131 /\ ~barred /\ pmLeft \subseteq Paged
  /\ \A t \in Guarded : pc[t] = "idle"
  /\ barred' = TRUE
  /\ UNCHANGED <<hwVars, soft, mux, clkWork, callVars, pm, pmLeft, pmDev, sleep,
                 lost, suspended>>

\* The power-down writes to the next device: the amps, then the codecs.
Quiesce(c) ==
  /\ pm = "quiesce" /\ c.dev \in pmLeft
  /\ c.dev \in Paged => pmLeft \subseteq Paged /\ (Mbp131 => barred)
  /\ Enter(Pm, c)
  /\ pm' = "marking"
  /\ pmDev' = c.dev
  /\ UNCHANGED <<hwVars, soft, mux, clkWork, pmLeft, sleep, barred, lost, suspended>>

\* On to the next device, or to cs8409_suspend_i2c(); jack_lock goes with the
\* last codec, the exclusion of a runtime suspend stays.
NextDevice ==
  /\ pmLeft' = pmLeft \ {pmDev}
  /\ pm' = IF pmLeft' = {} THEN "cancel" ELSE "quiesce"
  /\ barred' = (barred /\ (sleep = "runtime" \/ pmLeft' # {}))

\* Fault: last_page survives the suspend.
MarkSuspendedOnly ==
  /\ pm = "marking" /\ pc[Pm] = "idle"
  /\ suspended' = [suspended EXCEPT ![pmDev] = TRUE]
  /\ IF pmDev \in Paged /\ ~Standby
       THEN pm' = "reset" /\ UNCHANGED <<pmLeft, barred>>
       ELSE NextDevice
  /\ UNCHANGED <<hwVars, soft, mux, clkWork, callVars, pmDev, sleep, lost>>

\* suspended = 1, last_page = 0: not under i2c_mux.
MarkSuspended ==
  /\ pm = "marking" /\ pc[Pm] = "idle"
  /\ suspended' = [suspended EXCEPT ![pmDev] = TRUE]
  /\ lastPage' = [lastPage EXCEPT ![pmDev] = NoPage]
  /\ IF pmDev \in Paged /\ ~Standby
       THEN pm' = "reset" /\ UNCHANGED <<pmLeft, barred>>
       ELSE NextDevice
  /\ UNCHANGED <<hwVars, clkEnabled, devAddr, mux, clkWork, callVars, pmDev,
                 sleep, lost>>

\* The reset GPIO low.
ResetChip ==
  /\ pm = "reset"
  /\ held' = held \union {pmDev}
  /\ Forgotten({pmDev})
  /\ NextDevice
  /\ UNCHANGED <<hwClk, hwAddr, soft, mux, clkWork, callVars, pmDev, sleep, lost,
                 suspended>>

CancelWork ==
  /\ pm = "cancel"
  /\ timer' = FALSE
  /\ pm' = "flush"
  /\ UNCHANGED <<hwVars, soft, mux, worker, callVars, pmLeft, pmDev, sleep,
                 barred, lost, suspended>>

\* Fault: cancel_delayed_work(), which waits for nobody.
CancelOnly ==
  /\ pm = "flush"
  /\ pm' = "clkoff"
  /\ UNCHANGED <<hwVars, soft, mux, clkWork, callVars, pmLeft, pmDev, sleep,
                 barred, lost, suspended>>

FlushWork ==
  /\ pm = "flush" /\ worker = "idle"
  /\ pm' = "clkoff"
  /\ UNCHANGED <<hwVars, soft, mux, clkWork, callVars, pmLeft, pmDev, sleep,
                 barred, lost, suspended>>

SuspendClock ==
  /\ pm = "clkoff"
  /\ DisableClock
  /\ pm' = "forget"
  /\ UNCHANGED <<hwAddr, hwPage, mem, held, devAddr, lastPage, mux, clkWork,
                 callVars, pmLeft, pmDev, sleep, barred, lost, suspended>>

\* Fault: dev_addr survives the suspend.
KeepAddr ==
  /\ pm = "forget"
  /\ pm' = "down"
  /\ UNCHANGED <<hwVars, soft, mux, clkWork, callVars, pmLeft, pmDev, sleep,
                 barred, lost, suspended>>

ForgetAddr ==
  /\ pm = "forget"
  /\ devAddr' = NoDev
  /\ pm' = "down"
  /\ UNCHANGED <<hwVars, clkEnabled, lastPage, mux, clkWork, callVars, pmLeft,
                 pmDev, sleep, barred, lost, suspended>>

\* The CS8409 and with it the reset lines of the chips.
PowerLoss ==
  /\ pm = "down" /\ ~lost
  /\ hwClk' = FALSE
  /\ hwAddr' = NoDev
  /\ held' = Paged
  /\ Forgotten(Devs)
  /\ lost' = TRUE
  /\ UNCHANGED <<soft, mux, clkWork, callVars, pm, pmLeft, pmDev, sleep, barred,
                 suspended>>

Wakes == pm' = "wake" /\ pmLeft' = Devs

\* The light way: mbp131_standby_intact() found everything as it was.
StandbyExit ==
  /\ pm = "down" /\ Standby /\ ~lost
  /\ Wakes
  /\ UNCHANGED <<hwVars, soft, mux, clkWork, callVars, pmDev, sleep, barred, lost,
                 suspended>>

\* The full init.  The table written to the bridge has the clock bit set. Only
\* the MacBook board resets the codec again and forgets its page.
HwInit ==
  /\ pm = "down" /\ (Standby => lost)
  /\ Wakes
  /\ hwClk' = TRUE
  /\ IF Mbp131
       THEN /\ held' = Paged /\ Forgotten(Paged)
            /\ lastPage' = [d \in Devs |-> IF d \in Paged THEN NoPage ELSE lastPage[d]]
       ELSE UNCHANGED <<held, hwPage, mem, lastPage>>
  /\ UNCHANGED <<hwAddr, clkEnabled, devAddr, mux, clkWork, callVars, pmDev,
                 sleep, barred, lost, suspended>>

\* Reset GPIO high, suspended = 0: the codecs first, then the amps.
ClearSuspended(d) ==
  /\ pm = "wake" /\ d \in pmLeft
  /\ d \notin Paged => pmLeft \intersect Paged = {}
  /\ suspended' = [suspended EXCEPT ![d] = FALSE]
  /\ held' = held \ {d}
  /\ pm' = "init"
  /\ pmDev' = d
  /\ UNCHANGED <<hwClk, hwAddr, hwPage, mem, soft, mux, clkWork, callVars,
                 pmLeft, sleep, barred, lost>>

\* The init sequence of the device; the light way writes nothing to an amp.
InitDevice(c) ==
  /\ pm = "init" /\ c.dev = pmDev
  /\ \/ Enter(Pm, c)
     \/ Standby /\ ~lost /\ pmDev \notin Paged /\ UNCHANGED callVars
  /\ pm' = "waking"
  /\ UNCHANGED <<hwVars, soft, mux, clkWork, pmLeft, pmDev, sleep, barred, lost,
                 suspended>>

DeviceUp ==
  /\ pm = "waking" /\ pc[Pm] = "idle"
  /\ pmLeft' = pmLeft \ {pmDev}
  /\ pm' = IF pmLeft' = {} THEN "up" ELSE "wake"
  /\ barred' = (barred /\ pmLeft' # {})
  /\ lost' = (lost /\ pmLeft' # {})
  /\ UNCHANGED <<hwVars, soft, mux, clkWork, callVars, pmDev, sleep, suspended>>

PmStep ==
  \/ TakeJackLock \/ MarkSuspended \/ ResetChip \/ CancelWork \/ FlushWork
  \/ SuspendClock \/ ForgetAddr \/ StandbyExit \/ HwInit \/ DeviceUp
  \/ \E d \in Devs : ClearSuspended(d)
  \/ \E c \in Calls : Quiesce(c) \/ InitDevice(c)

-----------------------------------------------------------------------------
\* Probed, before the first init: the codecs marked suspended and in reset, no
\* card yet that could call.
Init ==
  /\ hwClk = FALSE /\ hwAddr = NoDev /\ held = Paged
  /\ hwPage = [d \in Devs |-> NoPage] /\ mem = [l \in Locs |-> Default]
  /\ clkEnabled = FALSE /\ devAddr = NoDev
  /\ lastPage = [d \in Devs |-> NoPage]
  /\ suspended = [d \in Devs |-> d \in Paged]
  /\ mux = NoHolder /\ timer = FALSE /\ worker = "idle"
  /\ pc = [t \in Callers |-> "idle"] /\ call = [t \in Callers |-> AnyCall]
  /\ at = [t \in Callers |-> 1] /\ got = [t \in Callers |-> Default]
  /\ res = [t \in Callers |-> "none"]
  /\ pm = "down" /\ pmLeft = {} /\ pmDev \in Paged /\ sleep = "system"
  /\ barred = TRUE /\ lost = TRUE

Next ==
  \/ \E t \in Threads, c \in Calls : Begin(t, c)
  \/ \E t \in Callers : CallerStep(t)
  \/ Expire \/ DisableClockWorker
  \/ \E k \in {"runtime", "system"} : Suspend(k)
  \/ PmStep \/ PowerLoss

\* Callers and the work run to their end; a mutex hands itself on to a waiter
\* that was passed over, so its waiters, and the PM thread that waits for the
\* callers, get their turn.  Nothing forces a call, a suspend or a power loss.
Fairness ==
  /\ \A t \in Callers : SF_vars(CallerStep(t))
  /\ WF_vars(Expire) /\ SF_vars(DisableClockWorker)
  /\ SF_vars(PmStep)

Spec == Init /\ [][Next]_vars
FairSpec == Spec /\ Fairness

-----------------------------------------------------------------------------
TypeOK ==
  /\ hwClk \in BOOLEAN /\ hwAddr \in Devs \union {NoDev} /\ held \subseteq Devs
  /\ hwPage \in [Devs -> Pages \union {NoPage}] /\ mem \in [Locs -> Vals]
  /\ clkEnabled \in BOOLEAN /\ devAddr \in Devs \union {NoDev}
  /\ lastPage \in [Devs -> Pages \union {NoPage}]
  /\ suspended \in [Devs -> BOOLEAN]
  /\ mux \in Callers \union {NoHolder}
  /\ timer \in BOOLEAN /\ worker \in {"idle", "ready"}
  /\ pc \in [Callers -> Outside \union Inside]
  /\ call \in [Callers -> Calls] /\ at \in [Callers -> Nat \ {0}]
  /\ \A t \in Callers : at[t] <= Len(call[t].regs)
  /\ got \in [Callers -> Vals] /\ res \in [Callers -> Results]
  /\ pm \in PmStates /\ pmLeft \subseteq Devs /\ pmDev \in Devs
  /\ sleep \in {"runtime", "system"} /\ barred \in BOOLEAN /\ lost \in BOOLEAN

\* When a caller starts its transfer the bridge runs its clock and addresses
\* the very device the call names, and that device is out of reset: whatever
\* other callers, the delayed clock work and a suspend did before
\* (cs8409_i2c_read() and its siblings).
RightDevice ==
  \A t \in Callers : pc[t] \in {"record", "xfer"} => call[t].dev \in Reached

\* And the chip has the page of that register selected: skipping the page write
\* on a cached last_page never reaches another register (cs8409_i2c_set_page()).
RightPage ==
  \A t \in Callers : pc[t] = "xfer" /\ call[t].dev \in Paged
                        => hwPage[call[t].dev] = Want(t)

\* The address the driver believes in is the one the bridge has, or none: after
\* the CS8409 lost power in a suspend the address is written again
\* (cs8409_suspend_i2c(), cs8409_set_i2c_dev_addr()).
AddrCoherent == devAddr \in {NoDev, hwAddr}

\* A clock left running always has somebody who will turn it off: the delayed
\* work, queued or running, or the suspend on its way to do so.  This is what
\* the comment of cs8409_enable_i2c_clock() argues about the cancel that does
\* not wait.
ClockOwned ==
  clkEnabled => timer \/ worker = "ready" \/ pm \in {"flush", "clkoff"}

\* The flag and the clock part only where the full init wrote the clock bit of
\* the bridge itself: a clock that runs unflagged is nobody's to turn off.
ClockKnown == hwClk /\ ~clkEnabled => pm \in {"wake", "init", "waking"}

\* Once cs8409_suspend_i2c() is through, the bridge is left alone until the
\* resume: nothing clocked or queued, no address believed in, nobody in a call.
SuspendQuiet ==
  pm = "down" => /\ ~clkEnabled /\ ~hwClk /\ ~timer /\ worker = "idle"
                 /\ devAddr = NoDev
                 /\ \A t \in Callers : pc[t] = "idle"

-----------------------------------------------------------------------------
(* The strengthening that makes RightDevice and RightPage inductive on a   *)
(* board that guards all callers.                                          *)

MuxInv == \A t \in Callers : mux = t <=> pc[t] \in Inside

\* Caches against the hardware.
CacheInv ==
  /\ clkEnabled => hwClk
  /\ AddrCoherent
  /\ \A d \in Devs \ Paged : lastPage[d] = NoPage
  /\ ~LostAck => \A d \in Paged :
       \/ lastPage[d] \in {NoPage, hwPage[d]}
       \/ \E t \in Callers : pc[t] = "record" /\ call[t].dev = d

\* What a holder of i2c_mux has established so far.
HolderInv ==
  \A t \in Callers :
    /\ pc[t] = "addr" /\ ~call[t].bulk => clkEnabled
    /\ pc[t] = "clock" /\ call[t].bulk => devAddr = call[t].dev
    /\ pc[t] = "clock" /\ ~call[t].bulk => at[t] = 1
    /\ pc[t] \in {"page", "record", "xfer"} => clkEnabled /\ devAddr = call[t].dev
    /\ pc[t] = "record" => call[t].dev \in Paged
    /\ ~LostAck /\ pc[t] \in {"record", "xfer"} /\ call[t].dev \in Paged
         => hwPage[call[t].dev] = Want(t)

\* Who may be in a call while the PM callbacks are at work.
ExclusionInv ==
  /\ barred => \A t \in Threads : pc[t] = "idle"
  /\ pc[Pm] # "idle" => pm \in {"marking", "waking"} /\ call[Pm].dev = pmDev
  /\ \A t \in Callers : pc[t] # "idle" /\ call[t].dev \in Paged
                            => ~suspended[call[t].dev]
  /\ pm \in SuspendI2C \union {"down"} =>
       /\ \A t \in Callers : pc[t] = "idle"
       /\ \A d \in Paged : suspended[d]
       /\ barred \/ \A d \in Devs : suspended[d]
  /\ pm = "forget" => ~clkEnabled
  /\ pm = "down" => ~clkEnabled /\ devAddr = NoDev

\* How far a suspend has come.
QuiesceInv ==
  /\ held \subseteq {d \in Paged : suspended[d]}
  /\ \A d \in Paged : suspended[d] => lastPage[d] = NoPage
  /\ pm \in {"quiesce", "marking", "reset"} =>
       /\ sleep = "runtime" => barred
       /\ \A d \in Devs \ pmLeft : suspended[d]
       /\ Paged \subseteq pmLeft \/ pmLeft \subseteq Paged
  /\ pm \in {"marking", "reset"} =>
       IF pmDev \in Paged THEN barred /\ pmLeft \subseteq Paged ELSE Paged \subseteq pmLeft
  /\ pm = "reset" => pmDev \in Paged /\ suspended[pmDev] /\ pc[Pm] = "idle"

\* What the proofs assume of the instance: every caller is one a suspend waits
\* for, as on the MacBook board without control writes.
AllGuarded == Mbp131 /\ Users = {}

IInv == TypeOK /\ MuxInv /\ CacheInv /\ HolderInv /\ ExclusionInv /\ QuiesceInv

-----------------------------------------------------------------------------
\* A chip is put in reset only when no call to it is under way.
ResetAlone ==
  [][\A d \in held' \ held : \A t \in Callers : pc[t] # "idle" => call[t].dev # d]_vars

\* A suspend that began ends, in spite of callers, of the work it waits for
\* and of the mutex both want (mbp131_suspend(), cs8409_cs42l42_suspend()).
SuspendCompletes == (pm = "quiesce") ~> (pm = "down")

\* When the callers stop for good the clock does too, 25 ms later.
ClockStops ==
  (<>[](pm = "up" /\ \A t \in Callers : pc[t] = "idle")) => <>[](~hwClk)

\* The register file the callers are promised.
RegFile == INSTANCE RegFile WITH
  active <- [t \in Callers |-> pc[t] # "idle"]
RegFileSpec == RegFile!Spec
=============================================================================
