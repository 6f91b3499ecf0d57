-------------------------- MODULE CoefBoards_proof --------------------------
(***************************************************************************)
(* The init of every board ends with the coefficients its tables give, and *)
(* gets there with the serial ports enabled last: for any tables that meet *)
(* TablesAssumption, PortsAssumption and LayoutAssumption, which TLC finds *)
(* true of the nine of cs8409-tables.c.                                    *)
(***************************************************************************)
EXTENDS CoefBoards, VendorCoef_proof, WellFoundedInduction

\* The first n - 1 writes of a sequence are in the file, later ones of a
\* register over earlier ones.
Written(s, n) ==
  \A i \in 1..(n - 1) :
    (\A j \in (i + 1)..(n - 1) : s[j].reg # s[i].reg) => coef[s[i].reg] = s[i].val

\* What the PM thread sends without the mutex, and how much of the whole table it
\* has sent; at the look at the standby mark it is between verbs and table.
Program == CASE pm \in {"probe", "verbs"} -> InitVerbs[board]
             [] OTHER -> HwConfig[board]
Place == CASE pm \in {"probe", "verbs"} -> at[Pm]
           [] pm = "look" -> Len(InitVerbs[board]) + 1
           [] OTHER -> Len(InitVerbs[board]) + at[Pm]
ProgramInv == pm \in Unlocked => /\ prog[Pm] = Program
                                 /\ at[Pm] \in 1..(Len(Program) + 1)
TableInv == pm \in Unlocked \union {"look"} => Written(Table(board), Place)

\* A program run under the mutex: reads, writes of registers the tables do not
\* set, and the clock bit, computed from what the register still holds.
GuestOp(s, i) ==
  \/ s[i].kind = "get"
  \/ /\ s[i].kind = "set" /\ s[i].reg # T!DEV_CFG2
     /\ ~Known(Target[board][s[i].reg])
  \/ /\ s[i].kind = "clk" /\ s[i].reg = ClkReg
     /\ i = 2 /\ s[1] = ToggleClk[1]
Guest(t) ==
  /\ \A i \in 1..Len(prog[t]) : GuestOp(prog[t], i)
  /\ at[t] = 2 /\ Len(prog[t]) >= 2 /\ prog[t][2].kind = "clk" => got[t] = coef[ClkReg]
GuestInv ==
  \A t \in Procs : stage[t] = "in" /\ (t = Pm => pm \notin Unlocked) => Guest(t)

\* What the init left is there for as long as the light way may be tried, but for
\* the registers of verbs that are still to be sent again.
Complete  == \A r \in Regs : Known(Target[board][r]) => Holds(r)
ToCome(r) == pm = "verbs" /\ \E i \in at[Pm]..Len(InitVerbs[board]) :
                                InitVerbs[board][i].reg = r
HeldInv ==
  /\ pm \in {"up", "waiting", "clkoff"} => Complete
  /\ pm \in {"down", "verbs", "look"} /\ TryLight =>
       \A r \in Regs : Known(Target[board][r]) => Holds(r) \/ ToCome(r)
  /\ pm = "look" => TryLight
  /\ pm = "probe" => ~fullInit

\* The look at the standby mark only reads.
LookInv == pm = "look" /\ stage[Pm] = "in" =>
             \A i \in 1..Len(prog[Pm]) : prog[Pm][i].kind = "get"

\* The inductive invariant.
CInv == IInv /\ ProgramInv /\ TableInv /\ LookInv /\ GuestInv /\ HeldInv

-----------------------------------------------------------------------------
\* A register that a sequence names has a last place there, whose value is what
\* the sequence leaves in it.
LEMMA LastPlace ==
  ASSUME NEW s \in Seq(Ops), NEW r, NEW k \in 1..Len(s), s[k].reg = r
  PROVE  \E i \in 1..Len(s) : /\ s[i].reg = r /\ LastOf(s, r) = s[i].val
                              /\ \A j \in (i + 1)..Len(s) : s[j].reg # r
<1>0. Len(s) \in Nat
  BY LenProperties
<1> DEFINE at_r == {i \in 1..Len(s) : s[i].reg = r}
           dist == {Len(s) - i : i \in at_r}
<1>a. ASSUME NEW x \in Nat, NEW y \in Nat, x < y
      PROVE  <<x, y>> \in OpToRel(<, Nat)
  BY <1>a, Zenon DEF OpToRel
<1>1. PICK m \in dist : \A y \in dist : ~(<<y, m>> \in OpToRel(<, Nat))
  <2>1. dist \subseteq Nat /\ Len(s) - k \in dist
    BY <1>0
  <2>2. QED
    BY <2>1, WFMin, NatLessThanWellFounded
<1>b. dist \subseteq Nat /\ \A y \in dist : ~(y < m)
  <2>1. dist \subseteq Nat
    BY <1>0
  <2>2. QED
    BY <1>a, <1>1, <2>1, Zenon
<1>2. PICK i \in at_r : m = Len(s) - i
  OBVIOUS
<1>3. \A j \in at_r : j <= i
  <2>1. ASSUME NEW j \in at_r PROVE Len(s) - j \in dist /\ Len(s) - i \in dist
    OBVIOUS
  <2>2. ASSUME NEW j \in at_r PROVE ~(Len(s) - j < Len(s) - i)
    BY <1>b, <1>2, <2>1, Zenon
  <2> HIDE DEF dist
  <2>3. QED
    BY <1>0, <2>2
<1>4. \A j \in at_r : (\A q \in at_r : q <= j) => j = i
  BY <1>0, <1>3
<1>5. (CHOOSE j \in at_r : \A q \in at_r : q <= j) = i
  BY <1>3, <1>4
<1>6. LastOf(s, r) = s[i].val
  BY <1>5 DEF LastOf
<1>7. \A j \in (i + 1)..Len(s) : s[j].reg # r
  BY <1>0, <1>3
<1>8. QED
  BY <1>6, <1>7

\* A register whose value the sequence states is one it names.
LEMMA KnownNamed ==
  ASSUME NEW s, NEW r, Known(LastOf(s, r))
  PROVE  \E k \in 1..Len(s) : s[k].reg = r
BY DEF LastOf, Known, Unknown

\* Places of a first part, and of a second behind it.
LEMMA Shift ==
  \A m, n \in Nat :
    /\ \A i \in 1..m : i \in 1..(m + n) /\ i <= m
    /\ \A i \in 1..n : /\ m + i \in 1..(m + n)
                       /\ ~(m + i <= m) /\ (m + i) - m = i
OBVIOUS

\* A table is its verbs and then its sequence.
LEMMA TableParts ==
  ASSUME NEW b \in Boards
  PROVE  /\ Table(b) \in Seq(Ops)
         /\ Len(InitVerbs[b]) \in Nat /\ Len(HwConfig[b]) \in Nat
         /\ Len(Table(b)) = Len(InitVerbs[b]) + Len(HwConfig[b])
         /\ \A i \in 1..Len(InitVerbs[b]) : Table(b)[i] = InitVerbs[b][i]
         /\ \A i \in 1..Len(HwConfig[b]) :
               Table(b)[Len(InitVerbs[b]) + i] = HwConfig[b][i]
<1>1. InitVerbs[b] \in Seq(Ops) /\ HwConfig[b] \in Seq(Ops)
  BY ProgramsAssumption
<1>2. Len(InitVerbs[b]) \in Nat /\ Len(HwConfig[b]) \in Nat
  BY <1>1, LenProperties
<1>3. /\ Table(b) \in Seq(Ops)
      /\ Len(Table(b)) = Len(InitVerbs[b]) + Len(HwConfig[b])
      /\ \A i \in 1..(Len(InitVerbs[b]) + Len(HwConfig[b])) :
           Table(b)[i] = IF i <= Len(InitVerbs[b]) THEN InitVerbs[b][i]
                         ELSE HwConfig[b][i - Len(InitVerbs[b])]
  BY <1>1, ConcatProperties DEF Table
<1>4. ASSUME NEW i \in 1..Len(HwConfig[b])
      PROVE  Table(b)[Len(InitVerbs[b]) + i] = HwConfig[b][i]
  <2>1. /\ Len(InitVerbs[b]) + i \in 1..(Len(InitVerbs[b]) + Len(HwConfig[b]))
        /\ ~(Len(InitVerbs[b]) + i <= Len(InitVerbs[b]))
        /\ (Len(InitVerbs[b]) + i) - Len(InitVerbs[b]) = i
    BY <1>2, Shift, Zenon
  <2>2. QED
    BY <1>3, <2>1, Zenon
<1>5. ASSUME NEW i \in 1..Len(InitVerbs[b]) PROVE Table(b)[i] = InitVerbs[b][i]
  <2>1. i \in 1..(Len(InitVerbs[b]) + Len(HwConfig[b])) /\ i <= Len(InitVerbs[b])
    BY <1>2, Shift, Zenon
  <2>2. QED
    BY <1>3, <2>1, Zenon
<1>6. QED
  BY <1>2, <1>3, <1>4, <1>5

\* A whole table in the file is a complete init.
LEMMA WholeTable ==
  ASSUME TypeOK, Written(Table(board), Len(Table(board)) + 1)
  PROVE  Complete
<1> DEFINE s == Table(board)
<1>0. board \in Boards /\ s \in Seq(Ops) /\ Len(s) \in Nat
  BY TableParts, LenProperties DEF TypeOK
<1> SUFFICES ASSUME NEW r \in Regs, Known(Target[board][r]) PROVE Holds(r)
  BY DEF Complete
<1>1. Target[board][r] = LastOf(s, r)
  BY <1>0 DEF Target
<1>2. PICK k \in 1..Len(s) : s[k].reg = r
  BY <1>1, KnownNamed
<1> HIDE DEF s
<1>3. PICK i \in 1..Len(s) : /\ s[i].reg = r /\ LastOf(s, r) = s[i].val
                             /\ \A j \in (i + 1)..Len(s) : s[j].reg # r
  BY <1>0, <1>2, LastPlace
<1>4. coef[r] = s[i].val
  BY <1>0, <1>3 DEF Written, s
<1>5. QED
  BY <1>1, <1>3, <1>4 DEF Holds

-----------------------------------------------------------------------------
\* A write of the next place of a sequence leaves one more of it in the file.
LEMMA WriteExtends ==
  ASSUME NEW s, NEW n \in Nat \ {0}, coef \in [Regs -> Vals],
         \A i \in 1..n : s[i].reg \in Regs,
         Written(s, n), coef' = [coef EXCEPT ![s[n].reg] = s[n].val]
  PROVE  \A i \in 1..n : (\A j \in (i + 1)..n : s[j].reg # s[i].reg) =>
                            coef'[s[i].reg] = s[i].val
<1> SUFFICES ASSUME NEW i \in 1..n, \A j \in (i + 1)..n : s[j].reg # s[i].reg
             PROVE  coef'[s[i].reg] = s[i].val
  OBVIOUS
<1>1. CASE i = n
  BY <1>1
<1>2. CASE i # n
  <2>1. i \in 1..(n - 1) /\ n \in (i + 1)..n
    BY <1>2
  <2>2. s[n].reg # s[i].reg
    BY <2>1
  <2>3. \A j \in (i + 1)..(n - 1) : s[j].reg # s[i].reg
    OBVIOUS
  <2>4. coef[s[i].reg] = s[i].val
    BY <2>1, <2>3 DEF Written
  <2>5. QED
    BY <2>2, <2>4
<1>3. QED
  BY <1>1, <1>2

\* A step of others leaves the init where it is, and what it left.
LEMMA InitKept ==
  ASSUME ProgramInv, TableInv, HeldInv,
         UNCHANGED <<board, coef, gpio, pm, deep, fullInit>>,
         pm \in Unlocked => prog'[Pm] = prog[Pm] /\ at'[Pm] = at[Pm]
  PROVE  ProgramInv' /\ TableInv' /\ HeldInv'
<1>1. ProgramInv'
  BY DEF ProgramInv, Program, Unlocked
<1>2. TableInv'
  <2>1. pm \in Unlocked \union {"look"} => Place' = Place
    BY DEF Place, Unlocked
  <2>2. QED
    BY <2>1 DEF TableInv, Written, Table
<1>3. HeldInv'
  <2>1. \A r \in Regs : /\ Holds(r)' <=> Holds(r)
                        /\ ToCome(r)' <=> ToCome(r)
    BY DEF Holds, ToCome, Unlocked
  <2>2. TryLight' <=> TryLight
    BY DEF TryLight
  <2>3. QED
    BY <2>1, <2>2 DEF HeldInv, Complete
<1>4. QED
  BY <1>1, <1>2, <1>3

\* A guest that is not moved, and whose register is not written, stays one.
LEMMA GuestKept ==
  ASSUME NEW t, Guest(t), UNCHANGED <<board, coef>>,
         prog'[t] = prog[t], at'[t] = at[t], got'[t] = got[t]
  PROVE  Guest(t)'
BY DEF Guest, GuestOp

\* One that takes up a program of such operations becomes one.
LEMMA GuestStarts ==
  ASSUME TypeOK, NEW t \in Procs, NEW p, \A i \in 1..Len(p) : GuestOp(p, i),
         Run(t, p), board' = board
  PROVE  Guest(t)'
BY DEF TypeOK, Guest, GuestOp, Run

\* Whatever is run under the mutex is made of such operations.
LEMMA GuestPrograms ==
  ASSUME board \in Boards
  PROVE  /\ \A i \in 1..Len(<<>>) : GuestOp(<<>>, i)
         /\ \A i \in 1..Len(ToggleClk) : GuestOp(ToggleClk, i)
         /\ LET look == <<[StandbyProbe EXCEPT !.kind = "get"]>>
            IN  \A i \in 1..Len(look) : GuestOp(look, i)
         /\ \A body \in Transactions :
              \A p \in {<<>> \o body, ToggleClk \o body} :
                \A i \in 1..Len(p) : GuestOp(p, i)
<1>1. \A i \in 1..Len(<<>>) : GuestOp(<<>>, i)
  OBVIOUS
<1>2. /\ Len(ToggleClk) = 2 /\ ToggleClk[1].kind = "get"
      /\ ToggleClk[2].kind = "clk" /\ ToggleClk[2].reg = ClkReg
  BY DEF ToggleClk
<1>3. \A i \in 1..Len(ToggleClk) : GuestOp(ToggleClk, i)
  BY <1>2 DEF GuestOp
<1>4. LET look == <<[StandbyProbe EXCEPT !.kind = "get"]>>
      IN  \A i \in 1..Len(look) : GuestOp(look, i)
  <2> DEFINE op == [StandbyProbe EXCEPT !.kind = "get"]
  <2>1. op.kind = "get"
    BY ProgramsAssumption DEF Ops
  <2> HIDE DEF op
  <2>2. \A i \in 1..Len(<<op>>) : <<op>>[i] = op
    OBVIOUS
  <2>3. \A i \in 1..Len(<<op>>) : GuestOp(<<op>>, i)
    BY <2>1, <2>2 DEF GuestOp
  <2>4. QED
    BY <2>3 DEF op
<1>5. ASSUME NEW body \in Transactions
      PROVE  \A p \in {<<>> \o body, ToggleClk \o body} :
                \A i \in 1..Len(p) : GuestOp(p, i)
  <2>1. body \in Seq(Ops) /\ ToggleClk \in Seq(Ops)
    BY ProgramsAssumption, ProgramType
  <2>2. ASSUME NEW i \in 1..Len(body)
        PROVE  \/ body[i].kind = "get"
               \/ /\ body[i].kind = "set" /\ body[i].reg # T!DEV_CFG2
                  /\ ~Known(Target[board][body[i].reg])
    BY <2>2, TablesAssumption
  <2>3. \A i \in 1..Len(body) : GuestOp(body, i)
    BY <2>2 DEF GuestOp
  <2>4. <<>> \o body = body
    BY <2>1
  <2>5. ASSUME NEW i \in 1..Len(ToggleClk \o body)
        PROVE  GuestOp(ToggleClk \o body, i)
    <3> DEFINE p == ToggleClk \o body
    <3>1. /\ Len(body) \in Nat /\ Len(p) = 2 + Len(body)
          /\ \A k \in 1..(2 + Len(body)) :
               p[k] = IF k <= 2 THEN ToggleClk[k] ELSE body[k - 2]
      <4>1. Len(body) \in Nat
        BY <2>1, LenProperties
      <4>2. /\ Len(p) = Len(ToggleClk) + Len(body)
            /\ \A k \in 1..(Len(ToggleClk) + Len(body)) :
                 p[k] = IF k <= Len(ToggleClk) THEN ToggleClk[k]
                        ELSE body[k - Len(ToggleClk)]
        BY <2>1, ConcatProperties, Zenon
      <4>3. QED
        BY <1>2, <4>1, <4>2, Zenon
    <3> HIDE DEF p
    <3>2. CASE i \in 1..2
      <4>1. p[i] = ToggleClk[i] /\ p[1] = ToggleClk[1]
        BY <3>1, <3>2
      <4>2. QED
        BY <1>2, <3>2, <4>1 DEF GuestOp, p
    <3>3. CASE i \notin 1..2
      <4>1. i \in 1..(2 + Len(body))
        BY <3>1 DEF p
      <4>2. i - 2 \in 1..Len(body) /\ ~(i <= 2)
        BY <3>1, <3>3, <4>1
      <4>3. p[i] = body[i - 2]
        BY <3>1, <4>1, <4>2
      <4>4. QED
        BY <2>2, <4>2, <4>3 DEF GuestOp, p
    <3>4. QED
      BY <3>2, <3>3
  <2>6. QED
    BY <2>3, <2>4, <2>5
<1>6. QED
  BY <1>1, <1>3, <1>4, <1>5

-----------------------------------------------------------------------------
\* The clock bit is all that turning the clock on and off changes.
LEMMA ClockBit ==
  \A v \in Nat : ClkOff(ClkOn(v)) = ClkOff(v) /\ ClkOff(ClkOff(v)) = ClkOff(v)
BY DEF ClkOff, ClkOn, Bit3

\* The operation a guest is at.
LEMMA GuestAt ==
  ASSUME IInv, GuestInv, NEW t \in Procs, sent[t], t = Pm => pm \notin Unlocked
  PROVE  /\ Guest(t) /\ stage[t] = "in" /\ index = Op(t).reg
         /\ prog[t] \in Seq(Ops) /\ at[t] \in 1..Len(prog[t]) /\ Len(prog[t]) \in Nat
         /\ GuestOp(prog[t], at[t]) /\ Op(t) = prog[t][at[t]]
<1>1. stage[t] = "in" /\ Busy(t) /\ index = Op(t).reg
  BY DEF IInv, CommandsLand
<1>2. prog[t] \in Seq(Ops) /\ at[t] \in Nat \ {0}
  BY DEF IInv, TypeOK
<1>3. Len(prog[t]) \in Nat /\ at[t] \in 1..Len(prog[t])
  BY <1>1, <1>2, LenProperties DEF Busy
<1>4. Guest(t)
  BY <1>1 DEF GuestInv
<1>5. QED
  BY <1>1, <1>2, <1>3, <1>4 DEF Guest, Op

\* A guest leaves the coefficients of the tables alone, but for the clock bit,
\* and the enable bits of the ports with them.
LEMMA GuestWrites ==
  ASSUME IInv, GuestInv, NEW t \in Procs, SendData(t), t = Pm => pm \notin Unlocked
  PROVE  /\ \A r \in Regs : Known(Target[board][r]) /\ Holds(r) => Holds(r)'
         /\ coef'[T!DEV_CFG2] = coef[T!DEV_CFG2]
<1>1. /\ sent[t] /\ board' = board
      /\ coef \in [Regs -> Vals] /\ index \in Regs /\ got[t] \in Vals
  BY DEF SendData, IInv, TypeOK
<1>2. /\ Guest(t) /\ index = Op(t).reg /\ GuestOp(prog[t], at[t])
      /\ Op(t) = prog[t][at[t]] /\ at[t] \in 1..Len(prog[t]) /\ Len(prog[t]) \in Nat
  BY <1>1, GuestAt
<1>3. CASE Op(t).kind = "get"
  BY <1>1, <1>3 DEF SendData, Holds
<1>4. CASE Op(t).kind = "set" /\ index # T!DEV_CFG2 /\ ~Known(Target[board][index])
  <2>1. coef' = [coef EXCEPT ![index] = Value(t)]
    BY <1>4 DEF SendData
  <2>2. ASSUME NEW r \in Regs, Known(Target[board][r]), Holds(r) PROVE Holds(r)'
    BY <1>1, <1>4, <2>1, <2>2 DEF Holds
  <2>3. coef'[T!DEV_CFG2] = coef[T!DEV_CFG2]
    BY <1>1, <1>4, <2>1, PortsAssumption
  <2>4. QED
    BY <2>2, <2>3
<1>5. CASE Op(t).kind = "clk" /\ index = ClkReg /\ at[t] = 2
  <2>1. coef' = [coef EXCEPT ![index] = Value(t)]
    BY <1>5 DEF SendData
  <2>2. got[t] = coef[ClkReg]
    BY <1>2, <1>5 DEF Guest
  <2>3. Value(t) \in {ClkOn(coef[ClkReg]), ClkOff(coef[ClkReg])}
    BY <1>5, <2>2 DEF Value
  <2>4. coef[ClkReg] \in Nat
    BY <1>1, ValsAssumption
  <2>5. coef'[ClkReg] = Value(t) /\ ClkOff(coef'[ClkReg]) = ClkOff(coef[ClkReg])
    BY <1>1, <1>5, <2>1, <2>3, <2>4, ClockBit
  <2>6. ASSUME NEW r \in Regs, Holds(r) PROVE Holds(r)'
    <3>1. CASE r = ClkReg
      BY <1>1, <2>5, <2>6, <3>1 DEF Holds
    <3>2. CASE r # ClkReg
      BY <1>1, <1>5, <2>1, <2>6, <3>2 DEF Holds
    <3>3. QED
      BY <3>1, <3>2
  <2>7. coef'[T!DEV_CFG2] = coef[T!DEV_CFG2]
    BY <1>1, <1>5, <2>1, PortsAssumption
  <2>8. QED
    BY <2>6, <2>7
<1>6. QED
  BY <1>2, <1>3, <1>4, <1>5 DEF GuestOp

\* It stays one; the first step of a toggle of the clock reads the register.
LEMMA GuestGoes ==
  ASSUME IInv, GuestInv, NEW t \in Procs, SendData(t), t = Pm => pm \notin Unlocked
  PROVE  Guest(t)'
<1>1. /\ sent[t] /\ board' = board /\ prog' = prog
      /\ at \in [Procs -> Nat \ {0}] /\ got \in [Procs -> Vals]
      /\ at'[t] = at[t] + 1
  BY DEF SendData, IInv, TypeOK
<1>2. /\ Guest(t) /\ index = Op(t).reg /\ Op(t) = prog[t][at[t]]
      /\ at[t] \in 1..Len(prog[t]) /\ Len(prog[t]) \in Nat
  BY <1>1, GuestAt
<1>3. \A i \in 1..Len(prog[t]) : GuestOp(prog[t], i)'
  BY <1>1, <1>2 DEF Guest, GuestOp
<1>4. ASSUME at'[t] = 2, Len(prog[t]) >= 2, prog[t][2].kind = "clk"
      PROVE  got'[t] = coef'[ClkReg]
  <2>1. at[t] = 1 /\ 2 \in 1..Len(prog[t])
    BY <1>1, <1>2, <1>4
  <2>2. prog[t][1] = ToggleClk[1]
    BY <1>2, <1>4, <2>1 DEF Guest, GuestOp
  <2>3. Op(t).kind = "get" /\ Op(t).reg = ClkReg
    BY <1>2, <2>1, <2>2 DEF ToggleClk
  <2>4. QED
    BY <1>1, <1>2, <2>3 DEF SendData
<1>5. QED
  BY <1>1, <1>3, <1>4 DEF Guest

-----------------------------------------------------------------------------
\* Where the init is in the table of its board.
LEMMA InitPlace ==
  ASSUME IInv, ProgramInv, pm \in Unlocked
  PROVE  /\ board \in Boards /\ Len(Program) \in Nat /\ Len(Table(board)) \in Nat
         /\ at[Pm] \in 1..(Len(Program) + 1)
         /\ Len(InitVerbs[board]) \in Nat /\ Len(HwConfig[board]) \in Nat
         /\ Place \in 1..(Len(Table(board)) + 1)
         /\ at[Pm] \in 1..Len(Program) =>
              /\ Place \in 1..Len(Table(board))
              /\ Table(board)[Place] = Program[at[Pm]]
<1> DEFINE m == Len(InitVerbs[board])
           n == Len(HwConfig[board])
<1>1. board \in Boards
  BY DEF IInv, TypeOK
<1>2. /\ m \in Nat /\ n \in Nat /\ Len(Table(board)) = m + n
      /\ \A i \in 1..m : Table(board)[i] = InitVerbs[board][i]
      /\ \A i \in 1..n : Table(board)[m + i] = HwConfig[board][i]
  BY <1>1, TableParts, Zenon
<1>3. at[Pm] \in 1..(Len(Program) + 1)
  BY DEF ProgramInv
<1> HIDE DEF m, n
<1> DEFINE Goal ==
      /\ Len(Program) \in Nat /\ Place \in 1..(m + n + 1)
      /\ at[Pm] \in 1..Len(Program) => /\ Place \in 1..(m + n)
                                      /\ Table(board)[Place] = Program[at[Pm]]
<1>4. Goal
  <2>1. CASE pm \in {"probe", "verbs"}
    <3>1. Program = InitVerbs[board] /\ Place = at[Pm] /\ Len(Program) = m
      BY <2>1, Zenon DEF Program, Place, m
    <3>2. Place \in 1..(m + n + 1) /\ (at[Pm] \in 1..m => Place \in 1..(m + n))
      BY <1>2, <1>3, <3>1
    <3>3. at[Pm] \in 1..m => Table(board)[Place] = InitVerbs[board][at[Pm]]
      BY <1>2, <3>1, Zenon
    <3>4. QED
      BY <1>2, <3>1, <3>2, <3>3, Zenon
  <2>2. CASE pm = "init"
    <3>1. Program = HwConfig[board] /\ Place = m + at[Pm] /\ Len(Program) = n
      BY <2>2 DEF Program, Place, m, n
    <3>2. Place \in 1..(m + n + 1) /\ (at[Pm] \in 1..n => Place \in 1..(m + n))
      BY <1>2, <1>3, <3>1
    <3>3. at[Pm] \in 1..n => Table(board)[Place] = HwConfig[board][at[Pm]]
      BY <1>2, <3>1, Zenon
    <3>4. QED
      BY <1>2, <3>1, <3>2, <3>3, Zenon
  <2>3. QED
    BY <2>1, <2>2 DEF Unlocked
<1> HIDE DEF Goal
<1>5. Len(InitVerbs[board]) \in Nat /\ Len(HwConfig[board]) \in Nat
  BY <1>2 DEF m, n
<1>6. m + n \in Nat
  BY <1>2
<1>7. QED
  BY <1>1, <1>2, <1>3, <1>4, <1>5, <1>6, Zenon DEF Goal

\* The init writes the next place of the table.
LEMMA InitWrites ==
  ASSUME IInv, ProgramInv, SendData(Pm), pm \in Unlocked
  PROVE  /\ at[Pm] \in 1..Len(Program) /\ at'[Pm] = at[Pm] + 1
         /\ Place \in 1..Len(Table(board))
         /\ Table(board)[Place] = Program[at[Pm]]
         /\ coef' = [coef EXCEPT ![Table(board)[Place].reg] = Table(board)[Place].val]
<1>1. /\ sent[Pm] /\ Pm \in Procs /\ at \in [Procs -> Nat \ {0}]
  BY DEF SendData, IInv, TypeOK, Procs
<1>2. Busy(Pm) /\ index = Op(Pm).reg /\ prog[Pm] = Program
  BY <1>1 DEF IInv, CommandsLand, ProgramInv
<1>3. at[Pm] \in 1..Len(Program) /\ at'[Pm] = at[Pm] + 1
  BY <1>1, <1>2, InitPlace DEF Busy, SendData
<1>4. Place \in 1..Len(Table(board)) /\ Table(board)[Place] = Program[at[Pm]]
  BY <1>3, InitPlace
<1>5. Op(Pm) = Table(board)[Place]
  BY <1>2, <1>4 DEF Op
<1>6. Op(Pm).kind = "set"
  <2>1. board \in Boards
    BY DEF IInv, TypeOK
  <2>2. \A i \in 1..Len(Table(board)) : Table(board)[i].kind = "set"
    BY <2>1, TablesAssumption, Zenon
  <2>3. Table(board)[Place].kind = "set"
    BY <1>4, <2>2
  <2>4. QED
    BY <1>5, <2>3
<1>7. coef' = [coef EXCEPT ![Op(Pm).reg] = Op(Pm).val]
  <2>1. Value(Pm) = Op(Pm).val
    <3>1. Op(Pm).kind # "clk"
      BY <1>6
    <3>2. CASE Pm \in Callers
      BY <3>2, ProcsAssumption
    <3>3. CASE Pm \notin Callers
      BY <3>1, <3>3 DEF Value
    <3>4. QED
      BY <3>2, <3>3
  <2>2. Op(Pm).kind # "get"
    BY <1>6
  <2>3. QED
    BY <1>2, <2>1, <2>2 DEF SendData
<1>8. QED
  BY <1>3, <1>4, <1>5, <1>7

\* The registers of a table are registers of the file.
LEMMA TableRegs ==
  ASSUME NEW b \in Boards, NEW i \in 1..Len(Table(b))
  PROVE  Table(b)[i].reg \in Regs
<1>1. Table(b) \in Seq(Ops)
  BY TableParts
<1>2. Table(b)[i] \in Ops
  BY <1>1, ElementOfSeq
<1>3. QED
  BY <1>2 DEF Ops

\* So the part of the table that is in the file grows by that place.
LEMMA TableGrows ==
  ASSUME IInv, ProgramInv, TableInv, SendData(Pm), pm \in Unlocked
  PROVE  ProgramInv' /\ TableInv'
<1>1. /\ at[Pm] \in 1..Len(Program) /\ at'[Pm] = at[Pm] + 1
      /\ Place \in 1..Len(Table(board))
      /\ coef' = [coef EXCEPT ![Table(board)[Place].reg] = Table(board)[Place].val]
  BY InitWrites
<1>2. /\ board' = board /\ pm' = pm /\ prog' = prog
  BY DEF SendData, pmVars
<1>3. /\ board \in Boards /\ Len(Program) \in Nat /\ Len(Table(board)) \in Nat
      /\ Len(InitVerbs[board]) \in Nat /\ coef \in [Regs -> Vals]
  BY InitPlace DEF IInv, TypeOK
<1>4. Program' = Program
  BY <1>2 DEF Program
<1>5. ProgramInv'
  BY <1>1, <1>2, <1>3, <1>4 DEF ProgramInv
<1>6. Place' = Place + 1
  BY <1>1, <1>2, <1>3 DEF Place, Unlocked
<1>7. Place \in Nat \ {0} /\ \A i \in 1..Place : Table(board)[i].reg \in Regs
  BY <1>1, <1>3, TableRegs
<1>8. Written(Table(board), Place)
  BY DEF TableInv
<1>9. \A i \in 1..Place :
        (\A j \in (i + 1)..Place : Table(board)[j].reg # Table(board)[i].reg) =>
           coef'[Table(board)[i].reg] = Table(board)[i].val
  BY <1>1, <1>3, <1>7, <1>8, WriteExtends
<1>10. Table(board)' = Table(board) /\ Place' - 1 = Place
  BY <1>2, <1>6, <1>7 DEF Table
<1>11. QED
  BY <1>5, <1>9, <1>10, Zenon DEF TableInv, Written

\* What was held while the verbs are sent again: a register is given by the last of
\* them what the table gives it, or is still to come.
LEMMA VerbsHold ==
  ASSUME IInv, ProgramInv, HeldInv, SendData(Pm), pm = "verbs", TryLight,
         NEW r \in Regs, Known(Target[board][r])
  PROVE  Holds(r)' \/ ToCome(r)'
<1> DEFINE s == InitVerbs[board]
           k == at[Pm]
<1>0. pm \in Unlocked /\ board' = board /\ pm' = pm
      /\ board \in Light /\ board \in Boards
  BY DEF Unlocked, SendData, pmVars, TryLight, IInv, TypeOK
<1>1. /\ k \in 1..Len(s) /\ at'[Pm] = k + 1 /\ Len(s) \in Nat /\ s \in Seq(Ops)
      /\ coef' = [coef EXCEPT ![s[k].reg] = s[k].val]
  <2>1. Program = s
    BY DEF Program
  <2>2. QED
    BY <1>0, <2>1, InitWrites, InitPlace, ProgramsAssumption
<1>2. coef \in [Regs -> Vals]
  BY DEF IInv, TypeOK
<1> HIDE DEF k
<1>3. CASE \E j \in (k + 1)..Len(s) : s[j].reg = r
  BY <1>0, <1>1, <1>3 DEF ToCome
<1>4. CASE ~(\E j \in (k + 1)..Len(s) : s[j].reg = r) /\ s[k].reg = r
  <2>1. PICK i \in 1..Len(s) : /\ s[i].reg = r /\ LastOf(s, r) = s[i].val
                               /\ \A j \in (i + 1)..Len(s) : s[j].reg # r
    BY <1>1, <1>4, LastPlace
  <2>2. i = k
    <3> HIDE DEF s
    <3>1. QED
      BY <1>1, <1>4, <2>1
  <2>3. LastOf(s, r) = Target[board][r]
    BY <1>0, <1>1, <1>4, TablesAssumption
  <2>4. coef'[r] = Target[board][r]
    BY <1>1, <1>2, <1>4, <2>1, <2>2, <2>3
  <2>5. QED
    BY <1>0, <2>4 DEF Holds
<1>5. CASE ~(\E j \in (k + 1)..Len(s) : s[j].reg = r) /\ s[k].reg # r
  <2>1. ~(\E j \in k..Len(s) : s[j].reg = r)
    <3> HIDE DEF s
    <3>1. QED
      BY <1>1, <1>5
  <2>2. Holds(r)
    BY <2>1 DEF HeldInv, ToCome, k
  <2>3. coef'[r] = coef[r]
    BY <1>1, <1>2, <1>5
  <2>4. QED
    BY <1>0, <2>2, <2>3 DEF Holds
<1>6. QED
  BY <1>3, <1>4, <1>5

-----------------------------------------------------------------------------
\* Guests that a step leaves alone.
LEMMA GuestsStay ==
  ASSUME GuestInv, UNCHANGED <<board, coef, prog, at, got>>,
         \A u \in Procs : stage'[u] = "in" /\ (u = Pm => pm' \notin Unlocked) =>
                            stage[u] = "in" /\ (u = Pm => pm \notin Unlocked)
  PROVE  GuestInv'
<1>1. ASSUME NEW u \in Procs, Guest(u) PROVE Guest(u)'
  BY <1>1, GuestKept
<1>2. QED
  BY <1>1 DEF GuestInv

\* Guests around a process that takes up a program.
LEMMA GuestsRun ==
  ASSUME IInv, GuestInv, NEW t \in Procs, NEW p, \A i \in 1..Len(p) : GuestOp(p, i),
         Run(t, p), UNCHANGED <<board, coef, pm>>,
         \A u \in Procs \ {t} : stage'[u] = stage[u]
  PROVE  GuestInv'
<1>1. Guest(t)'
  BY GuestStarts DEF IInv
<1>2. ASSUME NEW u \in Procs, u # t, Guest(u) PROVE Guest(u)'
  BY <1>2, GuestKept DEF Run, IInv, TypeOK
<1>3. QED
  BY <1>1, <1>2 DEF GuestInv

\* No guests while the PM thread is alone, in the init or out.
LEMMA GuestsNone ==
  ASSUME \A u \in Procs \ {Pm} : stage'[u] # "in", stage'[Pm] = "in" => pm' \in Unlocked
  PROVE  GuestInv'
BY DEF GuestInv

\* A step of anyone that writes no coefficient and moves no program of the init.
LEMMA OtherStep ==
  ASSUME CInv,
         UNCHANGED <<board, coef, gpio, pm, deep, fullInit>>,
         pm \in Unlocked => prog'[Pm] = prog[Pm] /\ at'[Pm] = at[Pm],
         pm = "look" => prog'[Pm] = prog[Pm] /\ stage'[Pm] = stage[Pm]
  PROVE  ProgramInv' /\ TableInv' /\ LookInv' /\ HeldInv'
BY InitKept DEF CInv, LookInv

\* A data command of the init.
LEMMA InitData ==
  ASSUME CInv, SendData(Pm), pm \in Unlocked
  PROVE  ProgramInv' /\ TableInv' /\ LookInv' /\ GuestInv' /\ HeldInv'
<1>1. /\ IInv /\ ProgramInv /\ TableInv /\ LookInv /\ GuestInv /\ HeldInv
      /\ UNCHANGED <<board, stage, prog, gpio, pm, deep, fullInit>> /\ Pm \in Procs
  BY DEF CInv, SendData, pmVars, Procs
<1>2. ProgramInv' /\ TableInv'
  BY <1>1, TableGrows
<1>3. LookInv'
  BY <1>1 DEF LookInv, Unlocked
<1>4. GuestInv'
  <2>1. \A u \in Procs \ {Pm} : stage[u] = "out"
    BY <1>1 DEF IInv, Quiet, Unlocked, Procs
  <2>2. QED
    BY <1>1, <2>1, GuestsNone
<1>5. HeldInv'
  <2>1. TryLight' <=> TryLight
    BY <1>1 DEF TryLight
  <2>2. Target[board]' = Target[board]
    BY <1>1
  <2>3. ASSUME pm = "verbs", TryLight, NEW r \in Regs, Known(Target[board][r])
        PROVE  Holds(r)' \/ ToCome(r)'
    BY <1>1, <2>3, VerbsHold
  <2>4. pm = "probe" => ~fullInit'
    BY <1>1 DEF HeldInv
  <2>5. QED
    BY <1>1, <2>1, <2>2, <2>3, <2>4 DEF HeldInv, Unlocked
<1>6. QED
  BY <1>2, <1>3, <1>4, <1>5

\* A data command of a guest.
LEMMA GuestData ==
  ASSUME CInv, NEW t \in Procs, SendData(t), t = Pm => pm \notin Unlocked
  PROVE  ProgramInv' /\ TableInv' /\ LookInv' /\ GuestInv' /\ HeldInv'
<1>1. /\ IInv /\ ProgramInv /\ TableInv /\ LookInv /\ GuestInv /\ HeldInv
      /\ UNCHANGED <<board, stage, prog, gpio, pm, deep, fullInit>> /\ sent[t]
  BY DEF CInv, SendData, pmVars
<1>2. stage[t] = "in" /\ Busy(t)
  BY <1>1 DEF IInv, CommandsLand
<1>3. pm \notin Unlocked /\ (pm = "look" => t = Pm)
  BY <1>1, <1>2 DEF IInv, Quiet, Unlocked, Procs
<1>4. ProgramInv'
  BY <1>1, <1>3 DEF ProgramInv
<1>5. TableInv'
  <2>1. CASE pm = "look"
    <3>1. Op(Pm).kind = "get"
      BY <1>1, <1>2, <1>3, <2>1, GuestAt DEF LookInv
    <3>2. coef' = coef
      BY <1>3, <2>1, <3>1 DEF SendData
    <3>3. Place' = Place
      BY <1>1, <2>1 DEF Place
    <3>4. QED
      BY <1>1, <2>1, <3>2, <3>3 DEF TableInv, Written, Table
  <2>2. CASE pm # "look"
    BY <1>1, <1>3, <2>2 DEF TableInv
  <2>3. QED
    BY <2>1, <2>2
<1>6. LookInv'
  BY <1>1 DEF LookInv
<1>7. GuestInv'
  <2>1. Guest(t)'
    BY <1>1, GuestGoes
  <2>2. \A u \in Procs : stage[u] = "in" => u = t
    BY <1>1, <1>2, OneInside DEF IInv
  <2>3. QED
    BY <1>1, <2>1, <2>2 DEF GuestInv
<1>8. HeldInv'
  <2>1. \A r \in Regs : Known(Target[board][r]) /\ Holds(r) => Holds(r)'
    BY <1>1, GuestWrites
  <2>2. Target[board]' = Target[board] /\ (TryLight' <=> TryLight)
    BY <1>1 DEF TryLight
  <2>3. \A r \in Regs : ~ToCome(r)
    BY <1>3 DEF ToCome, Unlocked
  <2>4. QED
    BY <1>1, <1>3, <2>1, <2>2, <2>3 DEF HeldInv, Complete, Unlocked
<1>9. QED
  BY <1>4, <1>5, <1>6, <1>7, <1>8

-----------------------------------------------------------------------------
\* A codec about to be probed has sent nothing.
LEMMA CoefInit == Init => CInv
<1> SUFFICES ASSUME Init PROVE CInv
  OBVIOUS
<1>1. IInv /\ board \in Boards /\ Pm \in Procs
  BY InitInv DEF Init, Procs
<1>2. /\ pm = "probe" /\ prog[Pm] = InitVerbs[board] /\ at[Pm] = 1 /\ ~fullInit
      /\ \A t \in Procs \ {Pm} : stage[t] = "out"
  BY <1>1 DEF Init
<1>3. Len(InitVerbs[board]) \in Nat
  BY <1>1, TableParts
<1>4. ProgramInv
  BY <1>2, <1>3 DEF ProgramInv, Program
<1>5. TableInv
  BY <1>2 DEF TableInv, Written, Place
<1>6. LookInv /\ GuestInv /\ HeldInv
  BY <1>2 DEF LookInv, GuestInv, HeldInv, Unlocked
<1>7. QED
  BY <1>1, <1>4, <1>5, <1>6 DEF CInv

\* Verbs begin: what was held is held, and nothing of the table is sent yet.
LEMMA VerbsBegin ==
  ASSUME CInv, ApplyVerbs
  PROVE  ProgramInv' /\ TableInv' /\ LookInv' /\ GuestInv' /\ HeldInv'
<1>1. /\ IInv /\ HeldInv /\ board \in Boards /\ Pm \in Procs
      /\ UNCHANGED <<board, coef, gpio, deep, fullInit>>
      /\ pm \in {"down", "probe"} /\ pm' = "verbs"
  BY DEF CInv, ApplyVerbs, IInv, TypeOK, Procs
<1>2. prog'[Pm] = InitVerbs[board] /\ at'[Pm] = 1
  BY <1>1 DEF ApplyVerbs, Run, IInv, TypeOK
<1>3. Len(InitVerbs[board]) \in Nat
  BY <1>1, TableParts
<1>4. Program' = InitVerbs[board] /\ Place' = 1
  BY <1>1, <1>2 DEF Program, Place
<1>5. ProgramInv' /\ TableInv' /\ LookInv'
  BY <1>1, <1>2, <1>3, <1>4 DEF ProgramInv, TableInv, LookInv, Written
<1>6. GuestInv'
  <2>1. \A u \in Procs \ {Pm} : stage'[u] = "out"
    BY <1>1 DEF ApplyVerbs, Move, IInv, Quiet, TypeOK, Procs
  <2>2. QED
    BY <1>1, <2>1, GuestsNone DEF Unlocked
<1>7. HeldInv'
  <2>1. TryLight' <=> TryLight
    BY <1>1 DEF TryLight
  <2>2. \A r \in Regs : (Holds(r)' <=> Holds(r)) /\ ~ToCome(r)
    BY <1>1 DEF Holds, ToCome
  <2>3. TryLight => pm = "down"
    BY <1>1 DEF HeldInv, TryLight
  <2>4. QED
    BY <1>1, <2>1, <2>2, <2>3 DEF HeldInv
<1>8. QED
  BY <1>5, <1>6, <1>7

\* Verbs done: none is to come, and the table is sent as far as they go.
LEMMA VerbsDone ==
  ASSUME CInv, pm = "verbs", ~Busy(Pm)
  PROVE  /\ Written(Table(board), Len(InitVerbs[board]) + 1)
         /\ \A r \in Regs : ~ToCome(r)
<1>1. IInv /\ ProgramInv /\ TableInv /\ pm \in Unlocked /\ board \in Boards
  BY DEF CInv, Unlocked, IInv, TypeOK
<1>2. /\ Program = InitVerbs[board] /\ Place = at[Pm] /\ prog[Pm] = Program
  BY <1>1 DEF Program, Place, ProgramInv
<1>3. at[Pm] \in 1..(Len(Program) + 1) /\ Len(Program) \in Nat
  BY <1>1, InitPlace
<1>4. at[Pm] = Len(InitVerbs[board]) + 1
  BY <1>2, <1>3 DEF Busy
<1>5. QED
  BY <1>1, <1>2, <1>3, <1>4 DEF TableInv, ToCome

\* From the verbs to the look at the standby mark.
LEMMA LookBegins ==
  ASSUME CInv, LookAtStandby
  PROVE  ProgramInv' /\ TableInv' /\ LookInv' /\ GuestInv' /\ HeldInv'
<1>1. /\ IInv /\ HeldInv /\ Pm \in Procs /\ stage'[Pm] = "lock"
      /\ UNCHANGED <<board, coef, gpio, deep, fullInit>>
      /\ pm = "verbs" /\ pm' = "look" /\ TryLight
  BY DEF CInv, LookAtStandby, Move, IInv, TypeOK, Procs, hw
<1>2. /\ Written(Table(board), Len(InitVerbs[board]) + 1)
      /\ \A r \in Regs : ~ToCome(r)
  BY VerbsDone DEF LookAtStandby
<1>3. ProgramInv' /\ LookInv'
  BY <1>1 DEF ProgramInv, LookInv, Unlocked
<1>4. TableInv'
  BY <1>1, <1>2 DEF TableInv, Place, Written, Table
<1>5. GuestInv'
  <2>1. \A u \in Procs \ {Pm} : stage'[u] = "out"
    BY <1>1 DEF LookAtStandby, Move, IInv, Quiet, TypeOK, Procs
  <2>2. QED
    BY <1>1, <2>1, GuestsNone
<1>6. HeldInv'
  <2>1. TryLight' <=> TryLight
    BY <1>1 DEF TryLight
  <2>2. \A r \in Regs : Holds(r)' <=> Holds(r)
    BY <1>1 DEF Holds
  <2>3. QED
    BY <1>1, <1>2, <2>1, <2>2 DEF HeldInv
<1>7. QED
  BY <1>3, <1>4, <1>5, <1>6

\* From either to the table.
LEMMA TableBegins ==
  ASSUME CInv, HwInit
  PROVE  ProgramInv' /\ TableInv' /\ LookInv' /\ GuestInv' /\ HeldInv'
<1>1. /\ IInv /\ TableInv /\ Pm \in Procs /\ board \in Boards
      /\ UNCHANGED <<board, coef, stage>>
      /\ pm \in {"verbs", "look"} /\ pm' = "init" /\ ~Busy(Pm)
  BY DEF CInv, HwInit, IInv, TypeOK, Procs
<1>2. prog'[Pm] = HwConfig[board] /\ at'[Pm] = 1
  BY <1>1 DEF HwInit, Run, IInv, TypeOK
<1>3. Len(InitVerbs[board]) \in Nat /\ Len(HwConfig[board]) \in Nat
  BY <1>1, TableParts
<1>4. Written(Table(board), Len(InitVerbs[board]) + 1)
  BY <1>1, VerbsDone DEF TableInv, Place
<1>5. Program' = HwConfig[board] /\ Place' = Len(InitVerbs[board]) + 1
  BY <1>1, <1>2 DEF Program, Place
<1>6. ProgramInv' /\ LookInv' /\ HeldInv'
  BY <1>1, <1>2, <1>3, <1>5 DEF ProgramInv, LookInv, HeldInv
<1>7. TableInv'
  BY <1>1, <1>4, <1>5 DEF TableInv, Written, Table
<1>8. GuestInv'
  <2>1. \A u \in Procs \ {Pm} : stage'[u] = "out"
    BY <1>1 DEF IInv, Quiet, Procs
  <2>2. QED
    BY <1>1, <2>1, GuestsNone DEF Unlocked
<1>9. QED
  BY <1>6, <1>7, <1>8

\* The codec is up with all of its coefficients, after the table as after the look.
LEMMA UpComplete ==
  ASSUME CInv, LightDone \/ HwInitDone
  PROVE  ProgramInv' /\ TableInv' /\ LookInv' /\ GuestInv' /\ HeldInv'
<1>1. /\ IInv /\ ProgramInv /\ TableInv /\ HeldInv /\ Pm \in Procs /\ board \in Boards
      /\ UNCHANGED <<board, coef>> /\ pm \in {"look", "init"} /\ pm' = "up"
      /\ stage'[Pm] = "out"
  BY DEF CInv, LightDone, HwInitDone, Up, Move, IInv, TypeOK, Procs, hw
<1>2. Complete
  <2>1. CASE pm = "look"
    BY <2>1 DEF HeldInv, Complete, ToCome, CInv
  <2>2. CASE pm = "init"
    <3>1. Program = HwConfig[board] /\ Place = Len(InitVerbs[board]) + at[Pm]
      BY <2>2 DEF Program, Place
    <3>2. ~Busy(Pm) /\ prog[Pm] = Program
      BY <1>1, <2>2 DEF LightDone, HwInitDone, ProgramInv, Unlocked
    <3>3. /\ at[Pm] \in 1..(Len(Program) + 1) /\ Len(Program) \in Nat
      BY <1>1, <2>2, InitPlace DEF Unlocked
    <3>4. at[Pm] = Len(HwConfig[board]) + 1
      BY <3>1, <3>2, <3>3 DEF Busy
    <3>5. Place = Len(Table(board)) + 1
      <4>1. /\ Len(InitVerbs[board]) \in Nat /\ Len(HwConfig[board]) \in Nat
            /\ Len(Table(board)) = Len(InitVerbs[board]) + Len(HwConfig[board])
        BY <1>1, TableParts, Zenon
      <4>2. \A m, n \in Nat : m + (n + 1) = (m + n) + 1
        OBVIOUS
      <4>3. QED
        BY <3>1, <3>4, <4>1, <4>2, Zenon
    <3>6. Written(Table(board), Len(Table(board)) + 1)
      BY <1>1, <2>2, <3>5 DEF TableInv, Unlocked
    <3>7. QED
      BY <1>1, <3>6, WholeTable DEF IInv
  <2>3. QED
    BY <1>1, <2>1, <2>2
<1>3. ProgramInv' /\ TableInv' /\ LookInv'
  BY <1>1 DEF ProgramInv, TableInv, LookInv, Unlocked
<1>4. GuestInv'
  <2>1. \A u \in Procs \ {Pm} : stage'[u] = "out"
    BY <1>1 DEF LightDone, HwInitDone, Move, IInv, Quiet, TypeOK, Procs
  <2>2. QED
    BY <1>1, <2>1, GuestsNone
<1>5. HeldInv'
  BY <1>1, <1>2 DEF HeldInv, Complete, Holds
<1>6. QED
  BY <1>3, <1>4, <1>5

\* From up to down: the mutex is still to be waited for, the file as it is.
LEMMA GoesDown ==
  ASSUME CInv, Late = {}, Suspend \/ SuspendI2C \/ SuspendDone
  PROVE  ProgramInv' /\ TableInv' /\ LookInv' /\ GuestInv' /\ HeldInv'
<1>1. /\ IInv /\ GuestInv /\ HeldInv /\ Pm \in Procs
      /\ UNCHANGED <<board, coef>> /\ pm \in {"up", "waiting", "clkoff"}
      /\ pm' \in {"waiting", "clkoff", "down"}
  BY DEF CInv, Suspend, SuspendI2C, SuspendDone, Procs, hw
<1>2. Complete /\ Complete'
  BY <1>1 DEF HeldInv, Complete, Holds
<1>3. ProgramInv' /\ TableInv' /\ LookInv' /\ HeldInv'
  BY <1>1, <1>2 DEF ProgramInv, TableInv, LookInv, HeldInv, Complete, Unlocked
<1>4. GuestInv'
  <2>1. CASE Suspend \/ SuspendI2C
    <3>1. UNCHANGED runs /\ \A u \in Procs : stage'[u] = "in" => stage[u] = "in"
      BY <1>1, <2>1 DEF Suspend, SuspendI2C, Move, IInv, TypeOK
    <3>2. QED
      BY <1>1, <3>1, GuestsStay DEF runs, Unlocked
  <2>2. CASE SuspendDone
    <3>1. /\ stage'[Pm] = "out"
          /\ \A u \in Procs \ {Pm} : stage'[u] = "out"
      BY <1>1, <2>2 DEF SuspendDone, Move, IInv, Quiet, TypeOK, Procs
    <3>2. QED
      BY <3>1, GuestsNone
  <2>3. QED
    BY <2>1, <2>2
<1>5. QED
  BY <1>3, <1>4

\* While it is down: the loss of power takes the reset line back, and firmware runs in
\* a system sleep only; neither leaves the light way open.
LEMMA WhileDown ==
  ASSUME CInv, PowerLoss \/ Firmware
  PROVE  ProgramInv' /\ TableInv' /\ LookInv' /\ GuestInv' /\ HeldInv'
<1>1. /\ IInv /\ pm = "down" /\ pm' = pm /\ stage' = stage /\ Pm \in Procs
  BY DEF CInv, PowerLoss, Firmware, pmVars, Procs
<1>2. ~TryLight'
  BY DEF PowerLoss, Firmware, TryLight, pmVars
<1>3. ProgramInv' /\ TableInv' /\ LookInv' /\ HeldInv'
  BY <1>1, <1>2 DEF ProgramInv, TableInv, LookInv, HeldInv, Unlocked
<1>4. GuestInv'
  <2>1. \A u \in Procs : stage[u] # "in"
    BY <1>1 DEF IInv, Quiet, Exclusive, Unlocked, Procs
  <2>2. QED
    BY <1>1, <2>1 DEF GuestInv
<1>5. QED
  BY <1>3, <1>4

-----------------------------------------------------------------------------
\* Every step preserves the invariant.
LEMMA CoefNext == ASSUME Late = {} PROVE CInv /\ [Next]_vars => CInv'
<1> SUFFICES ASSUME CInv, [Next]_vars PROVE CInv'
  OBVIOUS
<1> DEFINE Rest == ProgramInv' /\ TableInv' /\ LookInv' /\ GuestInv' /\ HeldInv'
<1>a. /\ IInv /\ GuestInv /\ IInv' /\ Pm \in Procs /\ Worker \in Procs
      /\ Callers \subseteq Procs /\ board \in Boards
  BY NextInv DEF CInv, Procs, IInv, TypeOK
<1> SUFFICES Rest
  BY <1>a DEF CInv
<1> USE DEF hw, clk, runs, pmVars
<1>1. ASSUME NEW t \in Procs, SendIndex(t) PROVE Rest
  <2>1. /\ UNCHANGED <<board, coef, gpio, pm, deep, fullInit>>
        /\ UNCHANGED <<prog, at, got, stage>>
    BY <1>1 DEF SendIndex
  <2>2. GuestInv'
    BY <1>a, <2>1, GuestsStay
  <2>3. QED
    BY <2>1, <2>2, OtherStep
<1>2. ASSUME NEW t \in Procs, SendData(t) PROVE Rest
  BY <1>2, InitData, GuestData
<1>3. ASSUME NEW t \in Procs \ {Pm}, UNCHANGED <<board, hw, runs, pmVars>>, Move(t, "lock")
      PROVE  Rest
  <2>1. \A u \in Procs : stage'[u] = "in" => stage[u] = "in"
    BY <1>a, <1>3 DEF Move, IInv, TypeOK
  <2>2. stage'[Pm] = stage[Pm]
    BY <1>a, <1>3 DEF Move, IInv, TypeOK
  <2>3. GuestInv'
    BY <1>a, <1>3, <2>1, GuestsStay
  <2>4. QED
    BY <1>3, <2>2, <2>3, OtherStep
<1>4. ASSUME NEW t \in Procs, t = Pm => pm = "clkoff",
             UNCHANGED <<board, hw, pmVars>>, NEW st, Move(t, st),
             NEW p, \A i \in 1..Len(p) : GuestOp(p, i), Run(t, p)
      PROVE  Rest
  <2>1. \A u \in Procs \ {t} : stage'[u] = stage[u]
    BY <1>a, <1>4 DEF Move, IInv, TypeOK
  <2>2. GuestInv'
    BY <1>a, <1>4, <2>1, GuestsRun
  <2>3. t # Pm => prog'[Pm] = prog[Pm] /\ at'[Pm] = at[Pm]
    BY <1>a, <1>4 DEF Run, IInv, TypeOK
  <2>4. QED
    BY <1>a, <1>4, <2>1, <2>2, <2>3, OtherStep DEF Unlocked
<1>5. ASSUME NEW t \in Callers, Enter(t) PROVE Rest
  BY <1>a, <1>3, <1>5, ProcsAssumption DEF Enter
<1>6. CASE TimerFires
  BY <1>a, <1>3, <1>6, ProcsAssumption DEF TimerFires
<1>7. ASSUME NEW t \in Callers, Transact(t) PROVE Rest
  <2>1. PICK body \in Transactions :
          Run(t, (IF clkEnabled THEN <<>> ELSE ToggleClk) \o body)
    BY <1>7 DEF Transact
  <2>2. LET p == (IF clkEnabled THEN <<>> ELSE ToggleClk) \o body
        IN  \A i \in 1..Len(p) : GuestOp(p, i)
    <3>1. CASE clkEnabled
      BY <1>a, <3>1, GuestPrograms
    <3>2. CASE ~clkEnabled
      BY <1>a, <3>2, GuestPrograms
    <3>3. QED
      BY <3>1, <3>2
  <2>3. Move(t, "in") /\ UNCHANGED <<board, hw, pmVars>> /\ t \in Procs /\ t # Pm
    BY <1>7, <1>a, ProcsAssumption DEF Transact
  <2>4. QED
    BY <1>4, <2>1, <2>2, <2>3
<1>8. ASSUME NEW t \in Callers \union {Worker}, Leave(t) PROVE Rest
  <2>1. Run(t, <<>>) /\ Move(t, "out") /\ UNCHANGED <<board, hw, pmVars>>
    BY <1>8 DEF Leave
  <2>2. t \in Procs /\ t # Pm
    BY <1>a, ProcsAssumption
  <2>3. QED
    BY <1>4, <1>a, <2>1, <2>2, GuestPrograms
<1>9. ASSUME NEW t \in {Worker, Pm}, t = Pm => pm = "clkoff", DisableClock(t) PROVE Rest
  <2>1. PICK p \in {ToggleClk, <<>>} : Run(t, p)
    BY <1>9 DEF DisableClock
  <2>2. \A i \in 1..Len(p) : GuestOp(p, i)
    BY <1>a, GuestPrograms
  <2>3. Move(t, "in") /\ UNCHANGED <<board, hw, pmVars>> /\ t \in Procs
    BY <1>9, <1>a DEF DisableClock
  <2>4. QED
    BY <1>4, <1>9, <2>1, <2>2, <2>3
<1>10. CASE ReadProbe
  <2> DEFINE p == <<[StandbyProbe EXCEPT !.kind = "get"]>>
  <2>1. /\ Run(Pm, p) /\ Move(Pm, "in") /\ pm = "look"
        /\ UNCHANGED <<board, coef, gpio, pm, deep, fullInit>>
    BY <1>10 DEF ReadProbe
  <2>2. \A u \in Procs \ {Pm} : stage'[u] = stage[u]
    BY <1>a, <2>1 DEF Move, IInv, TypeOK
  <2>3. GuestInv'
    BY <1>a, <2>1, <2>2, GuestPrograms, GuestsRun
  <2>4. ProgramInv' /\ TableInv' /\ HeldInv'
    BY <2>1, InitKept DEF CInv, Unlocked
  <2>5. LookInv'
    <3> DEFINE op == [StandbyProbe EXCEPT !.kind = "get"]
    <3>1. op.kind = "get"
      BY ProgramsAssumption DEF Ops
    <3>2. prog'[Pm] = <<op>>
      BY <1>a, <2>1 DEF Run, IInv, TypeOK
    <3> HIDE DEF op
    <3>3. \A i \in 1..Len(<<op>>) : <<op>>[i] = op
      OBVIOUS
    <3>4. QED
      BY <3>1, <3>2, <3>3 DEF LookInv
  <2>6. QED
    BY <2>3, <2>4, <2>5
<1>11. CASE Suspend \/ SuspendI2C \/ SuspendDone
  BY <1>11, Late = {}, GoesDown
<1>12. CASE PowerLoss \/ Firmware
  BY <1>12, WhileDown
<1>13. CASE ApplyVerbs
  BY <1>13, VerbsBegin
<1>14. CASE LookAtStandby
  BY <1>14, LookBegins
<1>15. CASE LightDone \/ HwInitDone
  BY <1>15, UpComplete
<1>16. CASE HwInit
  BY <1>16, TableBegins
<1>17. CASE UNCHANGED vars
  <2>1. /\ UNCHANGED <<board, coef, gpio, pm, deep, fullInit>>
        /\ UNCHANGED <<prog, at, got, stage>>
    BY <1>17 DEF vars
  <2>2. GuestInv'
    BY <1>a, <2>1, GuestsStay
  <2>3. QED
    BY <2>1, <2>2, OtherStep
<1>18. CASE DisableClock(Worker) \/ (pm = "clkoff" /\ DisableClock(Pm))
  BY <1>9, <1>18, ProcsAssumption
<1>19. QED
  BY <1>1, <1>2, <1>5, <1>6, <1>7, <1>8, <1>10, <1>11, <1>12, <1>13, <1>14,
     <1>15, <1>16, <1>17, <1>18 DEF Next

-----------------------------------------------------------------------------
\* cs8409.c: with every caller waited for, the init writes its board's table place by
\* place, nobody else writes what the table sets, and what is held through a suspend
\* is what the light way finds again.
THEOREM CoefInvariant == ASSUME Late = {} PROVE Spec => []CInv
<1>1. CInv /\ [Next]_vars => CInv'
  BY CoefNext
<1>2. QED
  BY <1>1, CoefInit, PTL DEF Spec

\* cs8409_init(), mbp131_hw_init() and the other hw_init: whichever way a board came
\* up, every coefficient of its verbs and of its table holds what is given there.
THEOREM InitCompleteAlways == ASSUME Late = {} PROVE Spec => []InitComplete
<1>1. CInv => InitComplete
  BY DEF CInv, HeldInv, Complete, InitComplete
<1>2. QED
  BY <1>1, CoefInvariant, PTL

\* What a table leaves in a register is a number.
LEMMA TargetType ==
  ASSUME NEW b \in Boards, NEW r \in Regs PROVE Target[b][r] \in Nat
<1> DEFINE s == Table(b)
<1>1. s \in Seq(Ops) /\ Target[b][r] = LastOf(s, r)
  BY TableParts DEF Target
<1> HIDE DEF s
<1>2. CASE \E k \in 1..Len(s) : s[k].reg = r
  <2>1. PICK i \in 1..Len(s) : LastOf(s, r) = s[i].val
    BY <1>1, <1>2, LastPlace
  <2>2. s[i] \in Ops
    BY <1>1, ElementOfSeq
  <2>3. QED
    BY <1>1, <2>1, <2>2, ValsAssumption DEF Ops
<1>3. CASE ~(\E k \in 1..Len(s) : s[k].reg = r)
  BY <1>1, <1>3 DEF LastOf, Unknown
<1>4. QED
  BY <1>2, <1>3

\* A complete file lays the channels out as the tables do.
LEMMA CompleteWired ==
  ASSUME TypeOK, Complete PROVE Layout(board, coef)
<1> DEFINE b == board
           goal == Target[b]
<1>1. b \in Boards /\ Layout(b, goal)
  BY LayoutAssumption DEF TypeOK
<1>2. ASSUME NEW p \in 1..2, NEW r \in PortRegs(p), Known(goal[r])
      PROVE  coef[r] = goal[r]
  BY <1>2, PortsAssumption DEF Complete, Holds
<1>3. ASSUME NEW p \in 1..2, NEW r \in PortRegs(p), Live(goal[r]) PROVE Known(goal[r])
  <2>1. goal[r] \in Nat
    BY <1>1, TargetType, PortsAssumption
  <2>2. T!SlotOff = 32768
    BY DEF T!SlotOff
  <2>3. QED
    BY <1>3, <2>1, <2>2 DEF Live, Known
<1>4. ASSUME NEW l \in T!Listeners[b]
      PROVE  \E r \in T!TxCtrl[l.port] : Reaches(coef[r], r, l)
  <2>1. PICK r \in T!TxCtrl[l.port] : Reaches(goal[r], r, l)
    BY <1>1 DEF Layout
  <2>2. l.port \in 1..2 /\ r \in PortRegs(l.port)
    BY <1>1, LayoutAssumption DEF PortRegs
  <2>3. Known(goal[r])
    BY <1>3, <2>1, <2>2 DEF Reaches
  <2>4. QED
    BY <1>2, <2>1, <2>2, <2>3
<1>5. ASSUME NEW l \in T!Talkers[b]
      PROVE  \E r \in T!RxCtrl[l.port] : Reaches(coef[r], r, l)
  <2>1. PICK r \in T!RxCtrl[l.port] : Reaches(goal[r], r, l)
    BY <1>1 DEF Layout
  <2>2. l.port \in 1..2 /\ r \in PortRegs(l.port)
    BY <1>1, LayoutAssumption DEF PortRegs
  <2>3. Known(goal[r])
    BY <1>3, <2>1, <2>2 DEF Reaches
  <2>4. QED
    BY <1>2, <2>1, <2>2, <2>3
<1>6. ASSUME b \in Light, NEW p \in 1..2, NEW r \in T!TxCtrl[p]
      PROVE  coef[r] = goal[r]
  BY <1>2, <1>6, LayoutAssumption DEF PortRegs
<1>7. QED
  BY <1>1, <1>4, <1>5, <1>6 DEF Layout

\* cs8409-tables.c: whenever a board is up the bridge sends and takes the channels of
\* its companion chips where these look for them, whatever it came up from.
THEOREM WiredAlways == ASSUME Late = {} PROVE Spec => []Wired
<1>1. CInv => Wired
  BY CompleteWired DEF CInv, IInv, HeldInv, Wired
<1>2. QED
  BY <1>1, CoefInvariant, PTL

\* A step that enables a port is a write of the init, and all of the port's registers
\* stand before it in the table.
LEMMA PortStep ==
  ASSUME CInv, [Next]_vars, NEW p \in 1..2,
         ~PortOn(coef[T!DEV_CFG2], p), PortOn(coef'[T!DEV_CFG2], p),
         NEW r \in PortRegs(p), Known(Target[board][r])
  PROVE  Holds(r)
<1> USE DEF hw, clk, runs, pmVars
<1>0. /\ IInv /\ ProgramInv /\ TableInv /\ GuestInv /\ board \in Boards
      /\ T!DEV_CFG2 \in Regs /\ coef \in [Regs -> Vals]
  BY PortsAssumption DEF CInv, IInv, TypeOK
<1>1. coef'[T!DEV_CFG2] # coef[T!DEV_CFG2]
  OBVIOUS
<1>2. PICK t \in Procs : SendData(t)
  <2>1. ~PowerLoss /\ ~Firmware
    BY <1>0, <1>1, PortsAssumption DEF PowerLoss, Firmware
  <2>2. QED
    BY <1>1, <2>1
       DEF Next, vars, SendIndex, Enter, Transact, Leave, TimerFires, DisableClock,
           Suspend, SuspendI2C, SuspendDone, ApplyVerbs, LookAtStandby, ReadProbe,
           LightDone, HwInit, HwInitDone
<1>3. t = Pm /\ pm \in Unlocked
  BY <1>0, <1>1, <1>2, GuestWrites
<1> DEFINE s == Table(board)
           n == Place
<1>4. /\ n \in 1..Len(s) /\ coef' = [coef EXCEPT ![s[n].reg] = s[n].val]
      /\ Written(s, n) /\ s \in Seq(Ops) /\ Len(s) \in Nat
  BY <1>0, <1>2, <1>3, InitWrites, InitPlace, TableParts DEF TableInv
<1> HIDE DEF n
<1>5. s[n].reg = T!DEV_CFG2 /\ PortOn(s[n].val, p)
  BY <1>0, <1>1, <1>4, TableRegs
<1>6. \A j \in n..Len(s) : s[j].reg \notin PortRegs(p)
  BY <1>0, <1>4, <1>5, PortsAssumption
<1>7. r \in Regs
  BY PortsAssumption
<1>8. Target[board][r] = LastOf(s, r)
  BY <1>0, <1>7 DEF Target
<1>b. s \in Seq(Ops)
  BY <1>4
<1> HIDE DEF s
<1>9. PICK k \in 1..Len(s) : s[k].reg = r
  BY <1>8, KnownNamed
<1>10. PICK i \in 1..Len(s) : /\ s[i].reg = r /\ LastOf(s, r) = s[i].val
                              /\ \A j \in (i + 1)..Len(s) : s[j].reg # r
  BY <1>b, <1>9, LastPlace
<1>11. coef[r] = s[i].val
  <2>1. i \notin n..Len(s)
    BY <1>6, <1>10
  <2>2. i \in 1..(n - 1)
    BY <1>4, <2>1
  <2>3. \A j \in (i + 1)..(n - 1) : s[j].reg # s[i].reg
    BY <1>4, <1>10
  <2>4. QED
    BY <1>4, <1>10, <2>2, <2>3 DEF Written
<1>12. QED
  BY <1>8, <1>10, <1>11 DEF Holds

\* cs8409-tables.c: a serial port is enabled only once its clocks and slots are what
\* the table says, by the init alone, and never by firmware or a loss of power.
THEOREM PortsLastAlways == ASSUME Late = {} PROVE Spec => PortsLast
<1>1. ASSUME CInv, [Next]_vars
      PROVE  [\A p \in 1..2 :
                ~PortOn(coef[T!DEV_CFG2], p) /\ PortOn(coef'[T!DEV_CFG2], p) =>
                  \A r \in PortRegs(p) : Known(Target[board][r]) => Holds(r)]_vars
  BY <1>1, PortStep
<1>2. QED
  BY <1>1, CoefInvariant, PTL DEF Spec, PortsLast
=============================================================================
