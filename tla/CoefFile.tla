------------------------------- MODULE CoefFile ------------------------------
(***************************************************************************)
(* What the users of the vendor coefficients of the CS8409 rely on: a file *)
(* of registers, each read and written by its number.  No index register,  *)
(* no mutex.  An operation begins, and takes effect at once when it ends.  *)
(***************************************************************************)
CONSTANTS Procs, Regs, Vals, Ops, NoOp, NoVal

VARIABLES
  file,   \* the registers
  op,     \* the operation each process is in, or NoOp
  got     \* what its last read returned

vars == <<file, op, got>>

Init ==
  /\ file \in [Regs -> Vals]
  /\ op = [t \in Procs |-> NoOp]
  /\ got \in [Procs -> Vals]

Begin(t) ==
  /\ op[t] = NoOp
  /\ op'[t] \in Ops /\ op' = [op EXCEPT ![t] = op'[t]]
  /\ UNCHANGED <<file, got>>

\* The register an operation names, that one alone, is what it acts on.
End(t) ==
  /\ op[t] # NoOp
  /\ op' = [op EXCEPT ![t] = NoOp]
  /\ \/ /\ op[t].kind = "set"
        /\ file' = [file EXCEPT ![op[t].reg] = op[t].val]
        /\ UNCHANGED got
     \/ /\ op[t].kind = "get"
        /\ got' = [got EXCEPT ![t] = file[op[t].reg]]
        /\ UNCHANGED file

\* What was read is used up.
Use(t) ==
  /\ op[t] = NoOp
  /\ got' = [got EXCEPT ![t] = NoVal]
  /\ UNCHANGED <<file, op>>

\* Power, reset or firmware: the contents change, but under no operation.
Lose ==
  /\ op = [t \in Procs |-> NoOp]
  /\ file' \in [Regs -> Vals]
  /\ UNCHANGED <<op, got>>

Next == Lose \/ \E t \in Procs : Begin(t) \/ End(t) \/ Use(t)

Spec == Init /\ [][Next]_vars
=============================================================================
