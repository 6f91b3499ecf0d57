------------------------------- MODULE RegFile -------------------------------
(***************************************************************************)
(* What the I2C helpers promise their callers: a set of registers, each    *)
(* named by a device and a page, read and written one after another as the *)
(* call lists them.  No clock, no address, no page select, no mutex.  A    *)
(* call ends with every entry done ("ok"), or gives up at one ("EIO"), or  *)
(* is refused ("EPERM").                                                   *)
(***************************************************************************)
EXTENDS Integers, Sequences

CONSTANTS Callers, Devs, Paged, Locs, Loc(_, _), Vals, Default, Calls, AnyCall

VARIABLES mem, active, call, at, got, res

vars == <<mem, active, call, at, got, res>>

Init ==
  /\ mem = [l \in Locs |-> Default]
  /\ active = [t \in Callers |-> FALSE]
  /\ call = [t \in Callers |-> AnyCall] /\ at = [t \in Callers |-> 1]
  /\ got = [t \in Callers |-> Default] /\ res = [t \in Callers |-> "none"]

Refuse(t) ==
  /\ ~active[t]
  /\ res' = [res EXCEPT ![t] = "EPERM"]
  /\ UNCHANGED <<mem, active, call, at, got>>

Start(t, c) ==
  /\ ~active[t]
  /\ active' = [active EXCEPT ![t] = TRUE]
  /\ call' = [call EXCEPT ![t] = c] /\ at' = [at EXCEPT ![t] = 1]
  /\ got' = [got EXCEPT ![t] = Default] /\ res' = [res EXCEPT ![t] = "busy"]
  /\ UNCHANGED mem

Target(t) == Loc(call[t].dev, call[t].regs[at[t]].page)

Written(t) == mem' = [mem EXCEPT ![Target(t)] = call[t].regs[at[t]].val]

End(t, r) ==
  /\ active' = [active EXCEPT ![t] = FALSE]
  /\ call' = [call EXCEPT ![t] = AnyCall] /\ at' = [at EXCEPT ![t] = 1]
  /\ res' = [res EXCEPT ![t] = r]

\* The entry the call is at, whole and on the register it names.
Entry(t) ==
  /\ active[t]
  /\ IF call[t].write
       THEN Written(t) /\ UNCHANGED got
       ELSE got' = [got EXCEPT ![t] = mem[Target(t)]] /\ UNCHANGED mem
  /\ IF at[t] = Len(call[t].regs)
       THEN End(t, "ok")
       ELSE at' = [at EXCEPT ![t] = @ + 1] /\ UNCHANGED <<active, call, res>>

\* Given up: a write may have been done without its completion being seen.
Fail(t) ==
  /\ active[t]
  /\ UNCHANGED mem \/ (call[t].write /\ Written(t))
  /\ End(t, "EIO")
  /\ UNCHANGED got

\* Devices reset: never under a call to one of them.
Reset(D) ==
  /\ \A t \in Callers : active[t] => call[t].dev \notin D
  /\ mem' = [l \in Locs |-> IF l[1] \in D THEN Default ELSE mem[l]]
  /\ UNCHANGED <<active, call, at, got, res>>

Next ==
  \/ \E t \in Callers : Refuse(t) \/ Entry(t) \/ Fail(t) \/ \E c \in Calls : Start(t, c)
  \/ \E D \in SUBSET Devs : Reset(D)

Spec == Init /\ [][Next]_vars
=============================================================================
