----------------------------- MODULE CoefBoards ------------------------------
(***************************************************************************)
(* VendorCoef with the tables of cs8409-tables.c: what is in the file when *)
(* the init of a board is done, and in which order it gets there.          *)
(***************************************************************************)
EXTENDS VendorCoef

T == INSTANCE Cs8409Tables

\* Values beyond 16 bits stand for contents that nothing states.
Known(v) == v < 65536
MCVals   == 0..131071
Unknown  == 65536
MCJunk   == 65552

MCBoards    == T!BoardNames
MCRegs      == T!CoefRegs
MCInitVerbs == [b \in MCBoards |-> T!InitVerbsOf[b]]
MCHwConfig  == [b \in MCBoards |-> T!HwConfigOf[b]]
MCProbe     == T!StandbyMark

\* Two registers whose value in the tables is taken to be the reset value.
MCReset == [r \in MCRegs |-> IF r \in {T!BEEP_CFG, T!PRE_SCALE_ATTN2} THEN 0 ELSE Unknown]
\* Over a system sleep firmware may use the second port; it leaves what the
\* standby check looks at.
MCTouched == T!ClkCtrl[2] \union (T!TxCtrl[2] \ {T!Tx(2, 0)}) \union {T!DEV_CFG2}

\* A read and a write over I2C: address, transfer, completion, data.
MCTransactions ==
  { <<T!Set(T!I2C_QREAD, 1), T!Get(T!I2C_STS), T!Get(T!I2C_QREAD)>>,
    <<T!Set(T!I2C_ADDR, 144), T!Set(T!I2C_QWRITE, 2), T!Get(T!I2C_STS)>> }

-----------------------------------------------------------------------------
\* The value an init leaves in a register: the last one its commands give it.
LastOf(seq, r) ==
  LET at_r == {i \in 1..Len(seq) : seq[i].reg = r}
  IN  IF at_r = {} THEN Unknown
      ELSE seq[CHOOSE i \in at_r : \A j \in at_r : j <= i].val

\* The commands of an init, the verbs and then the table.
Table(b) == InitVerbs[b] \o HwConfig[b]
Target == [b \in Boards |-> [r \in Regs |-> LastOf(Table(b), r)]]
Holds(r) == \/ coef[r] = Target[board][r]
            \/ r = ClkReg /\ ClkOff(coef[r]) = ClkOff(Target[board][r])

\* However a board came up, from power-on, from a sleep with or without a loss
\* of power, or by the light way out of standby, which writes no table: every
\* coefficient of its verbs and of its table holds the value given there.
InitComplete ==
  pm = "up" => \A r \in Regs : Known(Target[board][r]) => Holds(r)

\* The enable bits of the two serial ports.
PortOn(v, p) == Known(v) /\ (v \div (IF p = 1 THEN 32 ELSE 64)) % 2 = 1
PortRegs(p)  == T!ClkCtrl[p] \union T!TxCtrl[p] \union T!RxCtrl[p]

\* A port is turned on only once its clocks and slots are what the table says:
\* amps and converters never see a frame of another layout.
PortsLast ==
  [][\A p \in 1..2 :
       ~PortOn(coef[T!DEV_CFG2], p) /\ PortOn(coef'[T!DEV_CFG2], p) =>
         \A r \in PortRegs(p) : Known(Target[board][r]) => Holds(r)]_vars

\* The slot a register of the bridge names: off, or a position of the frame.
Live(v)   == v < T!SlotOff
Bit(v)    == v % 256
Late24(v) == (v \div 8192) % 2 = 1    \* other phase of the frame clock
Side(p, r) == IF (r - T!Tx(p, 0)) % 2 = 0 THEN "left" ELSE "right"
Reaches(v, r, l) == Live(v) /\ Bit(v) = l.bit /\ Side(l.port, r) = l.side

\* Each channel of a board's companion chips is where the bridge sends it, or looks
\* for it, by the slots of a file; and where the init turns unused slots off, no two
\* transmitters of a port meet in the 24 bits of a sample.
Layout(b, file) ==
  /\ \A l \in T!Listeners[b] : \E r \in T!TxCtrl[l.port] : Reaches(file[r], r, l)
  /\ \A l \in T!Talkers[b] : \E r \in T!RxCtrl[l.port] : Reaches(file[r], r, l)
  /\ b \in Light =>
       \A p \in 1..2 : \A r, q \in T!TxCtrl[p] :
         r # q /\ file[r] # T!SlotOff /\ file[q] # T!SlotOff =>
           /\ Known(file[r]) /\ Known(file[q])
           /\ \/ Late24(file[r]) # Late24(file[q])
              \/ Bit(file[r]) + 24 <= Bit(file[q]) \/ Bit(file[q]) + 24 <= Bit(file[r])

\* Whenever a board is up its channels are laid out so.
Wired == pm = "up" => Layout(board, coef)

-----------------------------------------------------------------------------
\* What the proofs need of the tables: they only set; the I2C transactions write
\* registers of their own; and a light way out of standby, which stops after the
\* verbs, finds in those the last word on their registers.
ASSUME TablesAssumption ==
  /\ \A b \in Boards : \A i \in 1..Len(Table(b)) : Table(b)[i].kind = "set"
  /\ \A body \in Transactions : \A i \in 1..Len(body) :
       \/ body[i].kind = "get"
       \/ /\ body[i].kind = "set" /\ body[i].reg # T!DEV_CFG2
          /\ \A b \in Boards : ~Known(Target[b][body[i].reg])
  /\ \A b \in Light : \A i \in 1..Len(InitVerbs[b]) :
       LET r == InitVerbs[b][i].reg IN LastOf(InitVerbs[b], r) = Target[b][r]
\* No table sets up a port behind the write that enables it, and neither a reset nor
\* firmware leaves one enabled.
ASSUME PortsAssumption ==
  /\ ClkReg # T!DEV_CFG2 /\ T!DEV_CFG2 \in Regs
  /\ \A p \in 1..2 : PortRegs(p) \subseteq Regs \ {ClkReg}
  /\ \A p \in 1..2 : ~PortOn(Reset[T!DEV_CFG2], p) /\ ~PortOn(Junk, p)
  /\ \A b \in Boards, p \in 1..2 : \A i \in 1..Len(Table(b)) :
       Table(b)[i].reg = T!DEV_CFG2 /\ PortOn(Table(b)[i].val, p) =>
         \A j \in i..Len(Table(b)) : Table(b)[j].reg \notin PortRegs(p)
\* The tables lay the channels out.
ASSUME LayoutAssumption ==
  /\ \A b \in Boards : /\ Layout(b, Target[b])
                       /\ \A l \in T!Listeners[b] \union T!Talkers[b] : l.port \in 1..2
  /\ \A b \in Light, p \in 1..2 : \A r \in T!TxCtrl[p] : Known(Target[b][r])
=============================================================================
