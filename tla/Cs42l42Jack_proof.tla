-------------------------- MODULE Cs42l42Jack_proof --------------------------
(***************************************************************************)
(* The GPIO word, what ALSA is told and what the driver believes of each   *)
(* jack, on the boards with CS42L42s: for any number of plugs, suspends,   *)
(* sleeps and writes of the speaker switch.                                *)
(***************************************************************************)
EXTENDS Cs42l42Jack, TLAPS

\* How far a suspend or a resume is: which chips are marked, and the runtime PM
\* status in between.
PmInv ==
  /\ pm.pc \in {"down", "reset"} => rpm = "active"
  /\ pm.pc \notin {"idle", "down", "reset"} => rpm = "suspended"
  /\ pm.pc \in {"idle", "gpio"} /\ rpm = "suspended" => \A c \in Scodecs : suspended[c]
  /\ pm.pc = "down" => \A c \in Scodecs : c < pm.c => suspended[c]
  /\ pm.pc = "reset" => \A c \in Scodecs : c <= pm.c => suspended[c]

\* A write of the switch that is under way meets no PM callback, and its word is the
\* one stored.
PutInv ==
  put.pc = "write" => rpm = "active" /\ pm.pc = "idle" /\ put.word = gpioData

\* The word stored has the switch as it was set; so has the word driven, from the
\* first write of a resume to the end of the next suspend.
Driven == ~(rpm = "suspended" /\ pm.pc \in {"idle", "gpio"})
SwitchInv ==
  /\ setting <=> Pdn \in gpioData
  /\ put.pc = "idle" /\ Driven => (Pdn \in gpio <=> Pdn \in gpioData)

\* A chip that is not marked suspended is out of reset in both words, and one that
\* is about to be unmarked is in the word that is driven next.
ResetInv ==
  /\ \A c \in Scodecs : ~suspended[c] => c \in gpio /\ c \in gpioData
  /\ pm.pc = "out" => pm.c \in gpioData

WireInv == PutInv /\ SwitchInv /\ ResetInv

\* ALSA knows what is believed of a jack, or the handler is about to tell.
Synced(c) == /\ reported[c] = PinSense(believed[c])
             /\ board = "dell" => (speaker <=> believed[0] = Nothing)
WillTell(c) == /\ hdl.c = c
               /\ \/ hdl.pc = "report"
                  \/ hdl.pc = "unmask" /\ (NoTypeDect(c) => TipChanged(c, hdl.tip))

\* Without an overlap: nothing is believed from the marks of a suspend to the end
\* of the next init, and the speaker pin is on from its beginning.
ToldInv ==
  /\ pm.pc = "gpio" /\ board = "dell" =>
       speaker \/ believed[0] # Nothing \/ hdl.pc \in {"unmask", "report"}
  /\ "mixed" \notin spoiled =>
       /\ pm.pc # "idle" => hdl.pc = "idle"
       /\ rpm = "active" /\ pm.pc = "idle" =>
            \A c \in Scodecs : Synced(c) \/ WillTell(c)
       /\ pm.pc = "down" => \A c \in Scodecs : c < pm.c => believed[c] = Nothing
       /\ pm.pc = "reset" => \A c \in Scodecs : c <= pm.c => believed[c] = Nothing
       /\ rpm = "suspended" => \A c \in Scodecs : believed[c] = Nothing
       /\ rpm = "suspended" /\ pm.pc = "idle" => hdl.pc \in {"idle", "look", "tip", "report"}
       /\ rpm = "suspended" /\ pm.pc # "idle" /\ board = "dell" => speaker

-----------------------------------------------------------------------------
(* Types.                                                                   *)

ChipType == [ts : {"unplug", "trans", "plug"}, tsLatch : BOOLEAN,
             tsMask : BOOLEAN, hsLatch : BOOLEAN, hsMask : BOOLEAN,
             hsRun : BOOLEAN, hsType : PlugTypes \union {"INVALID"}]
HdlType == [pc : HdlStates, todo : SUBSET Scodecs, c : Scodecs,
            done : {"yes", "no", "error"}, tip : {"unplug", "trans", "plug"},
            first : SUBSET {1, 2}, type : PlugTypes \union {"INVALID"}]

\* There are one or two chips, by their numbers.
LEMMA ChipNumbers ==
  ASSUME TypeOK
  PROVE  /\ Scodecs \subseteq {0, 1} /\ 0 \in Scodecs /\ Last \in Scodecs
         /\ \A c \in Scodecs : c <= Last /\ (c # Last => c + 1 \in Scodecs) /\ c # Pdn
BY JackAssumption DEF TypeOK, Scodecs, Last, Pdn

\* A chip out of reset is one of the declared states.
LEMMA FreshType == \A plug : Fresh(plug) \in ChipType
BY DEF Fresh, ChipType

\* What an access makes of a chip is one too.
LEMMA AccessTypes ==
  ASSUME NEW x \in ChipType
  PROVE  /\ DoneRead(x) \in ChipType /\ TipRead(x) \in ChipType
         /\ StatusRead(x) \in ChipType /\ DetectMasked(x) \in ChipType
         /\ DetectStarted(x) \in ChipType
         /\ [StatusRead(x) EXCEPT !.tsMask = FALSE] \in ChipType
         /\ [x EXCEPT !.hsMask = TRUE, !.hsRun = FALSE] \in ChipType
         /\ [x EXCEPT !.tsMask = FALSE] \in ChipType
         /\ [x EXCEPT !.hsRun = FALSE] \in ChipType
BY DEF ChipType, DoneRead, TipRead, StatusRead, DetectMasked, DetectStarted

\* Responses are made of the lines of the chips there are.
LEMMA BecomeType ==
  ASSUME TypeOK, UNCHANGED board, NEW chips \in [Scodecs -> ChipType], Become(chips)
  PROVE  chip' \in [Scodecs -> ChipType] /\ responses' \subseteq (SUBSET Scodecs) \ {{}}
<1>1. LinesLow(chips) \subseteq Scodecs
  BY DEF LinesLow
<1>2. QED
  BY <1>1 DEF Become, TypeOK

\* Nothing happening to a chip.
LEMMA KeepType ==
  ASSUME TypeOK, KeepChips
  PROVE  chip' \in [Scodecs -> ChipType] /\ responses' \subseteq (SUBSET Scodecs) \ {{}}
BY DEF KeepChips, TypeOK, ChipType

\* An access to one chip, done or refused.
LEMMA ChangeType ==
  ASSUME TypeOK, UNCHANGED board, NEW c \in Scodecs, NEW x \in ChipType, Change(c, x)
  PROVE  chip' \in [Scodecs -> ChipType] /\ responses' \subseteq (SUBSET Scodecs) \ {{}}
<1>1. [chip EXCEPT ![c] = x] \in [Scodecs -> ChipType]
  BY DEF TypeOK, ChipType
<1>2. CASE suspended[c]
  BY <1>2, KeepType DEF Change, KeepChips
<1>3. CASE ~suspended[c]
  BY <1>1, <1>3, BecomeType DEF Change
<1>4. QED
  BY <1>2, <1>3

\* A write of the GPIO word.
LEMMA DriveType ==
  ASSUME TypeOK, UNCHANGED board, NEW word, Drive(word)
  PROVE  /\ gpio' = word
         /\ chip' \in [Scodecs -> ChipType]
         /\ responses' \subseteq (SUBSET Scodecs) \ {{}}
<1> DEFINE chips == [c \in Scodecs |-> IF c \in word /\ c \in gpio THEN chip[c]
                                                                 ELSE Fresh(jack[c])]
<1>1. chips \in [Scodecs -> ChipType]
  BY FreshType DEF TypeOK, ChipType
<1>2. Become(chips) /\ gpio' = word
  BY DEF Drive
<1> HIDE DEF chips
<1>3. QED
  BY <1>1, <1>2, BecomeType

\* What the chip senses.
LEMMA SenseType ==
  ASSUME TypeOK, UNCHANGED board, NEW c \in Scodecs,
         NEW s \in {"unplug", "trans", "plug"}, Sense(c, s)
  PROVE  chip' \in [Scodecs -> ChipType] /\ responses' \subseteq (SUBSET Scodecs) \ {{}}
<1>1. [chip[c] EXCEPT !.ts = s, !.tsLatch = @ \/ ~InReset(c)] \in ChipType
  <2>1. chip[c] \in ChipType
    BY DEF TypeOK, ChipType
  <2>2. (chip[c].tsLatch \/ ~InReset(c)) \in BOOLEAN
    OBVIOUS
  <2>3. QED
    BY <2>1, <2>2 DEF ChipType
<1>2. [chip EXCEPT ![c] = [@ EXCEPT !.ts = s, !.tsLatch = @ \/ ~InReset(c)]]
        \in [Scodecs -> ChipType]
  BY <1>1 DEF TypeOK, ChipType
<1>3. QED
  BY <1>2, BecomeType DEF Sense

\* The notes kept are of three kinds.
LEMMA NotedType ==
  ASSUME TypeOK, Noted
  PROVE  spoiled' \subseteq {"moved", "mixed", "lost"}
BY DEF TypeOK, Noted

\* The handler goes on to a chip, or is done.
LEMMA VisitType ==
  ASSUME TypeOK, NEW chips \in SUBSET Scodecs, Visit(chips)
  PROVE  /\ hdl' \in HdlType
         /\ hdl'.pc \in {"idle", "look"}
<1> USE DEF HdlStates, HdlIdle, HdlType
<1>1. HdlIdle \in HdlType
  BY ChipNumbers
<1>2. CASE chips = {}
  BY <1>1, <1>2 DEF Visit
<1>3. CASE chips # {}
  <2>1. PICK c \in chips :
          hdl' = [HdlIdle EXCEPT !.pc = "look", !.c = c, !.todo = chips \ {c}]
    BY <1>3, ChipNumbers DEF Visit
  <2>2. QED
    BY <1>1, <2>1
<1>4. QED
  BY <1>2, <1>3

-----------------------------------------------------------------------------
\* The codec before its probe.
LEMMA TypeInit == Init => TypeOK
<1> SUFFICES ASSUME Init PROVE TypeOK
  OBVIOUS
<1> USE DEF Init
<1>1. Scodecs \subseteq {0, 1} /\ 0 \in Scodecs
  BY DEF Scodecs
<1>2. chip \in [Scodecs -> ChipType]
  BY FreshType
<1>3. Senses \in [Scodecs -> [hp : BOOLEAN, mic : BOOLEAN]]
  BY DEF Senses, PinSense
<1>4. HdlIdle \in HdlType
  BY <1>1 DEF HdlIdle, HdlStates, HdlType
<1>5. /\ pm \in [pc : PmStates, c : Scodecs]
      /\ put \in [pc : {"idle", "write"}, word : SUBSET (Scodecs \union {Pdn})]
  BY <1>1 DEF PmStates
<1>6. /\ gpio \subseteq Scodecs \union {Pdn} /\ gpioData \subseteq Scodecs \union {Pdn}
      /\ responses \subseteq (SUBSET Scodecs) \ {{}}
      /\ {registered, powerOn, built, speaker, setting} \subseteq BOOLEAN
  OBVIOUS
<1>7. /\ suspended \in [Scodecs -> BOOLEAN] /\ believed \in [Scodecs -> Belief]
      /\ events \in 0..MaxEvents[board] /\ spoiled = {}
  BY JackAssumption DEF Belief
<1>8. board \in Boards /\ jack \in [Scodecs -> Plugs[board] \union {Nothing}]
      /\ ur \in BOOLEAN /\ rpm \in {"active", "suspended"}
      /\ hdl = HdlIdle /\ reported = Senses
  OBVIOUS
<1> HIDE DEF Init
<1>9. QED
  BY <1>2, <1>3, <1>4, <1>5, <1>6, <1>7, <1>8 DEF TypeOK, ChipType, HdlType

\* What the core is left with by the steps of the world and of the handler.
LEMMA Frame ==
  ASSUME Insert \/ Pull \/ (\E c \in Scodecs : Debounced(c) \/ AutoDone(c)) \/ HandlerStep
  PROVE  UNCHANGED <<board, ur, wires, core, suspended, built, pm, user>>
<1>1. CASE Insert \/ Pull
  BY <1>1 DEF Insert, Pull, Move, drv
<1>2. CASE \E c \in Scodecs : Debounced(c) \/ AutoDone(c)
  BY <1>2 DEF Debounced, AutoDone, drv
<1>3. CASE HandlerStep
  BY <1>3 DEF HandlerStep, TakeResponse, ReadDone, ReadTip, HandlerDetects, StopDetect,
              ManualHsDet, Judge, UnmaskTip, Report, KeepCore
<1>4. QED
  BY <1>1, <1>2, <1>3

\* What the handler reads of a jack is of the declared types.
LEMMA HsTypeType == \A p, q : HsType(p, q) \in PlugTypes \union {"INVALID"}
BY DEF HsType, PlugTypes

\* What is believed of a tip is of the declared types.
LEMMA TipType ==
  ASSUME TypeOK, NEW c \in Scodecs, NEW tip
  PROVE  TipBelief(c, tip) \in Belief
BY DEF TipBelief, TypeOK, Belief, PlugTypes

\* So are the answers to the pin sense verbs.
LEMMA SensesType ==
  /\ \A belief : PinSense(belief) \in [hp : BOOLEAN, mic : BOOLEAN]
  /\ Senses \in [Scodecs -> [hp : BOOLEAN, mic : BOOLEAN]]
BY DEF Senses, PinSense

\* The handler keeps the types of what it changes.
LEMMA HandlerType ==
  ASSUME TypeOK, HandlerStep
  PROVE  /\ chip' \in [Scodecs -> ChipType]
         /\ responses' \subseteq (SUBSET Scodecs) \ {{}}
         /\ believed' \in [Scodecs -> Belief]
         /\ reported' \in [Scodecs -> [hp : BOOLEAN, mic : BOOLEAN]]
         /\ speaker' \in BOOLEAN
         /\ hdl' \in HdlType
<1> USE DEF HdlType
<1> DEFINE ChipsOK == /\ chip' \in [Scodecs -> ChipType]
                      /\ responses' \subseteq (SUBSET Scodecs) \ {{}}
           ToldOK  == /\ reported' \in [Scodecs -> [hp : BOOLEAN, mic : BOOLEAN]]
                      /\ speaker' \in BOOLEAN
<1>1. UNCHANGED board
  BY Frame
<1>2. /\ hdl \in HdlType /\ hdl.c \in Scodecs /\ hdl.todo \in SUBSET Scodecs
      /\ chip[hdl.c] \in ChipType /\ believed \in [Scodecs -> Belief]
  BY DEF TypeOK, ChipType
<1>3. KeepTold => ToldOK
  BY DEF KeepTold, TypeOK
<1>4. \A l \in HdlStates : Goto(l) => hdl' \in HdlType
  BY <1>2 DEF Goto
<1>5. Visit(hdl.todo) => hdl' \in HdlType
  BY <1>2, VisitType
<1>6. KeepChips => ChipsOK
  BY KeepType
<1>7. \A x \in ChipType : Change(hdl.c, x) => ChipsOK
  BY <1>1, <1>2, ChangeType
<1>8. DoneRead(chip[hdl.c]) \in ChipType /\ TipRead(chip[hdl.c]) \in ChipType
      /\ DetectMasked(chip[hdl.c]) \in ChipType /\ DetectStarted(chip[hdl.c]) \in ChipType
      /\ [chip[hdl.c] EXCEPT !.hsMask = TRUE, !.hsRun = FALSE] \in ChipType
      /\ [chip[hdl.c] EXCEPT !.tsMask = FALSE] \in ChipType
      /\ [chip[hdl.c] EXCEPT !.hsRun = FALSE] \in ChipType
  BY <1>2, AccessTypes
<1> HIDE DEF HdlType, ChipsOK, ToldOK
<1>9. CASE TakeResponse
  <2>1. PICK lows \in responses :
          /\ responses' = responses \ {lows}
          /\ Visit(IF registered /\ powerOn THEN lows ELSE {})
    BY <1>9 DEF TakeResponse
  <2>2. lows \in SUBSET Scodecs
    BY DEF TypeOK
  <2>3. hdl' \in HdlType
    BY <2>1, <2>2, VisitType DEF HdlType
  <2>4. ChipsOK
    BY <1>9, <2>1 DEF TakeResponse, ChipsOK, TypeOK, ChipType
  <2>5. QED
    BY <1>2, <1>3, <1>9, <2>3, <2>4 DEF TakeResponse, HdlType, ChipsOK, ToldOK
<1>10. CASE ReadDone
  <2>1. ToldOK
    BY <1>3, <1>10 DEF ReadDone
  <2>2. ChipsOK
    <3>1. [chip EXCEPT ![hdl.c] = DoneRead(chip[hdl.c])] \in [Scodecs -> ChipType]
      BY <1>8 DEF TypeOK, ChipType
    <3>2. KeepChips \/ Become([chip EXCEPT ![hdl.c] = DoneRead(chip[hdl.c])])
      BY <1>10 DEF ReadDone
    <3>3. QED
      BY <1>1, <1>6, <3>1, <3>2, BecomeType DEF ChipsOK
  <2>3. hdl' \in HdlType
    <3>1. chip[hdl.c].hsType \in PlugTypes \union {"INVALID"}
      BY <1>2 DEF ChipType
    <3>2. \/ hdl' = [hdl EXCEPT !.pc = "tip", !.done = "error"]
          \/ Visit(hdl.todo)
          \/ \E d \in {"yes", "no"}, t \in PlugTypes \union {"INVALID"} :
               hdl' = [hdl EXCEPT !.pc = "tip", !.done = d, !.type = t]
      <4>1. hdl.type \in PlugTypes \union {"INVALID"}
        BY <1>2 DEF HdlType
      <4>2. QED
        BY <1>10, <3>1, <4>1 DEF ReadDone
    <3>3. QED
      BY <1>2, <1>5, <3>2 DEF HdlType, HdlStates
  <2>4. QED
    BY <1>2, <1>10, <2>1, <2>2, <2>3 DEF ReadDone, HdlType, ChipsOK, ToldOK
<1>18. CASE ReadTip
  <2>1. ToldOK /\ ChipsOK
    BY <1>3, <1>7, <1>8, <1>18 DEF ReadTip
  <2>2. believed' \in [Scodecs -> Belief]
    BY <1>2, <1>18, TipType DEF ReadTip
  <2>3. chip[hdl.c].ts \in {"unplug", "trans", "plug"}
    BY <1>2 DEF ChipType
  <2>4. \/ hdl' = [hdl EXCEPT !.pc = "report", !.done = "no", !.type = "INVALID"]
        \/ hdl' = [hdl EXCEPT !.pc = "stop", !.done = "no", !.tip = chip[hdl.c].ts]
        \/ hdl' = [hdl EXCEPT !.pc = "stop", !.done = "no", !.tip = hdl.tip]
        \/ Goto("report") \/ Goto("detect") \/ Visit(hdl.todo)
    BY <1>18 DEF ReadTip
  <2>5. hdl' \in HdlType
    <3>1. CASE Goto("report") \/ Goto("detect") \/ Visit(hdl.todo)
      BY <1>4, <1>5, <3>1 DEF HdlStates
    <3>2. CASE ~(Goto("report") \/ Goto("detect") \/ Visit(hdl.todo))
      BY <1>2, <2>3, <2>4, <3>2 DEF HdlType, HdlStates
    <3>3. QED
      BY <3>1, <3>2
  <2>6. QED
    BY <2>1, <2>2, <2>5 DEF HdlType, ChipsOK, ToldOK
<1>11. CASE HandlerDetects
  <2>1. ChipsOK
    BY <1>7, <1>8, <1>11 DEF HandlerDetects
  <2>2. hdl' \in HdlType
    BY <1>4, <1>5, <1>11 DEF HandlerDetects, HdlStates
  <2>3. QED
    BY <1>2, <1>3, <1>11, <2>1, <2>2 DEF HandlerDetects, HdlType, ChipsOK, ToldOK
<1>12. CASE StopDetect
  <2>1. ChipsOK
    BY <1>7, <1>8, <1>12 DEF StopDetect
  <2>2. hdl' \in HdlType
    BY <1>4, <1>12 DEF StopDetect, HdlStates
  <2>3. QED
    BY <1>2, <1>3, <1>12, <2>1, <2>2 DEF StopDetect, HdlType, ChipsOK, ToldOK
<1>13. CASE ManualHsDet
  <2>1. ChipsOK
    BY <1>6, <1>7, <1>8, <1>13 DEF ManualHsDet
  <2>2. \/ Goto("first")
        \/ \E one \in SUBSET {1, 2} : hdl' = [hdl EXCEPT !.pc = "second", !.first = one]
        \/ \E t \in PlugTypes \union {"INVALID"} :
             hdl' = [hdl EXCEPT !.pc = "judge", !.first = {}, !.type = t]
    <3>1. \A weak \in BOOLEAN : Comparators(hdl.c, 1, weak) \subseteq SUBSET {1, 2}
      BY DEF Comparators, Seated
    <3>2. QED
      BY <1>13, <3>1, HsTypeType DEF ManualHsDet
  <2>3. hdl' \in HdlType
    <3>1. CASE Goto("first")
      BY <1>4, <3>1 DEF HdlStates
    <3>2. CASE ~Goto("first")
      BY <1>2, <2>2, <3>2 DEF HdlType, HdlStates
    <3>3. QED
      BY <3>1, <3>2
  <2>4. QED
    BY <1>2, <1>3, <1>13, <2>1, <2>3 DEF ManualHsDet, HdlType, ChipsOK, ToldOK
<1>14. CASE Judge
  <2>1. believed' \in [Scodecs -> Belief]
    BY <1>2, <1>14, TipType DEF Judge, Belief, HdlType
  <2>2. hdl' \in HdlType
    BY <1>2, <1>14 DEF Judge, HdlType, HdlStates
  <2>3. QED
    BY <1>3, <1>6, <1>14, <2>1, <2>2 DEF Judge, HdlType, ChipsOK, ToldOK
<1>15. CASE UnmaskTip
  <2>1. ChipsOK
    BY <1>7, <1>8, <1>15 DEF UnmaskTip
  <2>2. hdl' \in HdlType
    BY <1>4, <1>5, <1>15 DEF UnmaskTip, HdlStates
  <2>3. QED
    BY <1>2, <1>3, <1>15, <2>1, <2>2 DEF UnmaskTip, HdlType, ChipsOK, ToldOK
<1>16. CASE Report
  <2>1. ToldOK
    BY <1>2, <1>16, SensesType DEF Report, TellOf, ToldOK, TypeOK
  <2>2. QED
    BY <1>2, <1>5, <1>6, <1>16, <2>1 DEF Report, HdlType, ChipsOK, ToldOK
<1>17. QED
  BY <1>9, <1>10, <1>11, <1>12, <1>13, <1>14, <1>15, <1>16, <1>18 DEF HandlerStep

\* What moves and settles in a jack, a chip that is done: types and the rest kept.
LEMMA WorldType ==
  ASSUME TypeOK, Insert \/ Pull \/ (\E c \in Scodecs : Debounced(c) \/ AutoDone(c))
  PROVE  /\ chip' \in [Scodecs -> ChipType]
         /\ responses' \subseteq (SUBSET Scodecs) \ {{}}
         /\ jack' \in [Scodecs -> Plugs[board] \union {Nothing}]
         /\ events' \in 0..MaxEvents[board]
         /\ UNCHANGED <<hdl, believed, reported, speaker>>
<1>1. UNCHANGED board
  BY Frame
<1>2. CASE Insert \/ Pull
  <2>1. PICK c \in Scodecs, plug \in Plugs[board] \union {Nothing} : Move(c, plug)
    BY <1>2 DEF Insert, Pull
  <2>2. chip' \in [Scodecs -> ChipType] /\ responses' \subseteq (SUBSET Scodecs) \ {{}}
    BY <1>1, <2>1, SenseType DEF Move
  <2>3. jack' \in [Scodecs -> Plugs[board] \union {Nothing}]
    BY <2>1 DEF Move, TypeOK
  <2>4. events' \in 0..MaxEvents[board]
    BY <2>1, JackAssumption DEF Move, Event, TypeOK
  <2>5. QED
    BY <2>1, <2>2, <2>3, <2>4 DEF Move, drv
<1>3. ASSUME NEW c \in Scodecs, Debounced(c)
      PROVE  /\ chip' \in [Scodecs -> ChipType]
             /\ responses' \subseteq (SUBSET Scodecs) \ {{}}
  BY <1>1, <1>3, SenseType DEF Debounced
<1>4. ASSUME NEW c \in Scodecs, AutoDone(c)
      PROVE  /\ chip' \in [Scodecs -> ChipType]
             /\ responses' \subseteq (SUBSET Scodecs) \ {{}}
  <2>1. AutoTypes(c) \subseteq PlugTypes \union {"INVALID"}
    BY JackAssumption DEF AutoTypes, TypeOK
  <2>2. PICK type \in AutoTypes(c) :
          Become([chip EXCEPT ![c] =
                   [@ EXCEPT !.hsRun = FALSE, !.hsLatch = TRUE, !.hsType = type]])
    BY <1>4 DEF AutoDone
  <2>3. [chip EXCEPT ![c] = [@ EXCEPT !.hsRun = FALSE, !.hsLatch = TRUE, !.hsType = type]]
          \in [Scodecs -> ChipType]
    <3>1. chip \in [Scodecs -> ChipType] /\ type \in PlugTypes \union {"INVALID"}
      BY <2>1 DEF TypeOK, ChipType
    <3>2. [chip[c] EXCEPT !.hsRun = FALSE, !.hsLatch = TRUE, !.hsType = type] \in ChipType
      BY <3>1 DEF ChipType
    <3>3. QED
      BY <3>1, <3>2
  <2>4. QED
    BY <1>1, <2>2, <2>3, BecomeType
<1>5. CASE \E c \in Scodecs : Debounced(c) \/ AutoDone(c)
  BY <1>3, <1>4, <1>5 DEF Debounced, AutoDone, drv, TypeOK
<1>6. QED
  BY <1>2, <1>5

\* The bound on events is kept.
LEMMA EventType == TypeOK /\ Event => events' \in 0..MaxEvents[board]
BY JackAssumption DEF TypeOK, Event

\* The PM callbacks and the boot.
LEMMA PmType ==
  ASSUME TypeOK, RuntimeSuspend \/ SystemSleep \/ Resume \/ PmStep \/ Register
  PROVE  /\ UNCHANGED <<board, jack, hdl, user>>
         /\ chip' \in [Scodecs -> ChipType]
         /\ responses' \subseteq (SUBSET Scodecs) \ {{}}
         /\ gpio' \subseteq Scodecs \union {Pdn} /\ gpioData' \subseteq Scodecs \union {Pdn}
         /\ {ur', registered', powerOn', built', speaker'} \subseteq BOOLEAN
         /\ rpm' \in {"active", "suspended"}
         /\ suspended' \in [Scodecs -> BOOLEAN] /\ believed' \in [Scodecs -> Belief]
         /\ reported' \in [Scodecs -> [hp : BOOLEAN, mic : BOOLEAN]]
         /\ pm' \in [pc : PmStates, c : Scodecs]
         /\ events' \in 0..MaxEvents[board]
<1> USE DEF core, drv, wires, user, KeepPm, SuspendBegins, Done, Step
<1> DEFINE ChipsOK == /\ chip' \in [Scodecs -> ChipType]
                      /\ responses' \subseteq (SUBSET Scodecs) \ {{}}
           PmOK == pm' \in [pc : PmStates, c : Scodecs]
<1>1. \A l \in PmStates, c \in Scodecs : pm' = [pc |-> l, c |-> c] => PmOK
  OBVIOUS
<1>2. KeepChips => ChipsOK
  BY KeepType
<1>3. \A word : UNCHANGED board /\ Drive(word) => ChipsOK /\ gpio' = word
  BY DriveType
<1>4. pm.c \in Scodecs /\ 0 \in Scodecs /\ (pm.c # Last => pm.c + 1 \in Scodecs)
  BY ChipNumbers DEF TypeOK
<1>5. \A f \in [Scodecs -> ChipType] : UNCHANGED board /\ Become(f) => ChipsOK
  BY BecomeType
<1>6. chip \in [Scodecs -> ChipType]
  BY DEF TypeOK, ChipType
<1>7. /\ DetectMasked(chip[pm.c]) \in ChipType /\ DetectStarted(chip[pm.c]) \in ChipType
      /\ [StatusRead(chip[pm.c]) EXCEPT !.tsMask = FALSE] \in ChipType
  BY <1>4, <1>6, AccessTypes
<1>8. /\ [chip EXCEPT ![pm.c] = DetectMasked(@)] \in [Scodecs -> ChipType]
      /\ [chip EXCEPT ![pm.c] = DetectStarted(@)] \in [Scodecs -> ChipType]
      /\ [chip EXCEPT ![pm.c] = [StatusRead(@) EXCEPT !.tsMask = FALSE]]
           \in [Scodecs -> ChipType]
  BY <1>6, <1>7
<1> DEFINE Goal ==
      /\ UNCHANGED <<board, jack, hdl, put, setting>> /\ ChipsOK /\ PmOK
      /\ gpio' \subseteq Scodecs \union {Pdn} /\ gpioData' \subseteq Scodecs \union {Pdn}
      /\ {ur', registered', powerOn', built', speaker'} \subseteq BOOLEAN
      /\ rpm' \in {"active", "suspended"}
      /\ suspended' \in [Scodecs -> BOOLEAN] /\ believed' \in [Scodecs -> Belief]
      /\ reported' \in [Scodecs -> [hp : BOOLEAN, mic : BOOLEAN]]
      /\ events' \in 0..MaxEvents[board]
<1> SUFFICES Goal
  OBVIOUS
<1> HIDE DEF ChipsOK, PmOK
<1>9. TypeOK => /\ gpio \subseteq Scodecs \union {Pdn} /\ gpioData \subseteq Scodecs \union {Pdn}
                /\ {ur, registered, powerOn, built, speaker} \subseteq BOOLEAN
                /\ rpm \in {"active", "suspended"}
                /\ suspended \in [Scodecs -> BOOLEAN] /\ believed \in [Scodecs -> Belief]
                /\ reported \in [Scodecs -> [hp : BOOLEAN, mic : BOOLEAN]]
                /\ events \in 0..MaxEvents[board] /\ events \in Nat
                /\ MaxEvents[board] \in Nat /\ PmOK \in BOOLEAN
                /\ pm \in [pc : PmStates, c : Scodecs]
  BY JackAssumption DEF TypeOK, PmOK
<1>10. CASE RuntimeSuspend
  BY <1>1, <1>2, <1>4, <1>9, <1>10, EventType DEF RuntimeSuspend, PmStates
<1>11. CASE SystemSleep
  <2>1. PmOK
    BY <1>1, <1>4, <1>9, <1>11 DEF SystemSleep, PmStates, PmOK
  <2>2. ur' \in BOOLEAN
    BY <1>9, <1>11 DEF SystemSleep
  <2>3. QED
    BY <1>2, <1>9, <1>11, <2>1, <2>2, EventType DEF SystemSleep
<1>12. CASE Resume
  BY <1>1, <1>3, <1>4, <1>9, <1>12 DEF Resume, PmStates
<1>13. CASE DownCodec
  BY <1>1, <1>2, <1>4, <1>9, <1>13 DEF DownCodec, PmStates, Belief
<1>14. CASE ResetCodec
  BY <1>1, <1>3, <1>4, <1>9, <1>14 DEF ResetCodec, PmStates
<1>15. CASE SetGpio
  BY <1>1, <1>3, <1>4, <1>9, <1>15 DEF SetGpio, PmStates
<1>16. CASE BringCodec
  BY <1>1, <1>2, <1>4, <1>9, <1>16 DEF BringCodec, PmStates
<1>17. CASE OutOfReset
  BY <1>1, <1>3, <1>4, <1>9, <1>17 DEF OutOfReset, PmStates
<1>18. CASE EnableDetect
  BY <1>1, <1>4, <1>5, <1>8, <1>9, <1>18 DEF EnableDetect, PmStates
<1>19. CASE EnableUr
  BY <1>1, <1>2, <1>4, <1>9, <1>19 DEF EnableUr, PmStates
<1>20. CASE BuildControls
  BY <1>1, <1>2, <1>4, <1>9, <1>20 DEF BuildControls, PmStates
<1>21. NextCodec => PmOK
  BY <1>1, <1>4 DEF NextCodec, PmStates
<1>22. CASE RunDetect
  BY <1>1, <1>2, <1>4, <1>5, <1>8, <1>9, <1>21, <1>22 DEF RunDetect, PmStates
<1>23. CASE StartDetect
  BY <1>4, <1>5, <1>8, <1>9, <1>21, <1>23 DEF StartDetect
<1>24. CASE SyncJacks
  BY <1>1, <1>2, <1>4, <1>9, <1>24, SensesType DEF SyncJacks, PmStates
<1>25. CASE Register
  BY <1>2, <1>9, <1>25 DEF Register, PmOK
<1>26. QED
  BY <1>10, <1>11, <1>12, <1>13, <1>14, <1>15, <1>16, <1>17, <1>18, <1>19, <1>20,
     <1>22, <1>23, <1>24, <1>25 DEF PmStep

\* The speaker switch.
LEMMA PutType ==
  ASSUME TypeOK, PutStart \/ PutWrite
  PROVE  /\ UNCHANGED <<board, jack, ur, core, drv, hdl, pm>>
         /\ chip' \in [Scodecs -> ChipType]
         /\ responses' \subseteq (SUBSET Scodecs) \ {{}}
         /\ gpio' \subseteq Scodecs \union {Pdn} /\ gpioData' \subseteq Scodecs \union {Pdn}
         /\ setting' \in BOOLEAN
         /\ put' \in [pc : {"idle", "write"}, word : SUBSET (Scodecs \union {Pdn})]
         /\ events' \in 0..MaxEvents[board]
<1> USE DEF KeepUser
<1>1. CASE PutStart
  BY <1>1, KeepType, JackAssumption DEF PutStart, TypeOK, Event
<1>2. CASE PutWrite
  <2>1. /\ gpio' = put.word /\ chip' \in [Scodecs -> ChipType]
        /\ responses' \subseteq (SUBSET Scodecs) \ {{}}
    BY <1>2, DriveType DEF PutWrite
  <2>2. QED
    BY <1>2, <2>1 DEF PutWrite, TypeOK
<1>3. QED
  BY <1>1, <1>2

\* Every step keeps the types.
LEMMA TypeNext == TypeOK /\ [Next]_vars => TypeOK'
<1> SUFFICES ASSUME TypeOK, [Next]_vars PROVE TypeOK'
  OBVIOUS
<1>1. CASE UNCHANGED vars
  BY <1>1 DEF vars, core, drv, wires, user, TypeOK, Scodecs
<1>2. CASE Next
  <2>1. spoiled' \subseteq {"moved", "mixed", "lost"}
    BY <1>2, NotedType DEF Next
  <2>2. CASE Insert \/ Pull \/ (\E c \in Scodecs : Debounced(c) \/ AutoDone(c))
    <3>1. UNCHANGED <<board, ur, wires, core, suspended, built, pm, user>>
      BY <2>2, Frame
    <3>2. QED
      BY <2>1, <2>2, <3>1, WorldType DEF core, wires, user, TypeOK, ChipType, Scodecs
  <2>3. CASE HandlerStep
    <3>1. UNCHANGED <<board, ur, wires, core, suspended, built, pm, user>>
      BY <2>3, Frame
    <3>2. UNCHANGED <<jack, events>>
      BY <2>3 DEF HandlerStep, TakeResponse, ReadDone, ReadTip, HandlerDetects, StopDetect,
                  ManualHsDet, Judge, UnmaskTip, Report, KeepCore
    <3>3. QED
      BY <2>1, <2>3, <3>1, <3>2, HandlerType
         DEF core, wires, user, TypeOK, ChipType, HdlType, Scodecs
  <2>4. CASE RuntimeSuspend \/ SystemSleep \/ Resume \/ PmStep \/ Register
    BY <2>1, <2>4, PmType DEF user, TypeOK, ChipType, Scodecs
  <2>5. CASE PutStart \/ PutWrite
    BY <2>1, <2>5, PutType DEF core, drv, TypeOK, ChipType, Scodecs
  <2>6. QED
    BY <1>2, <2>2, <2>3, <2>4, <2>5 DEF Next
<1>3. QED
  BY <1>1, <1>2

\* Types hold in every reachable state.
THEOREM BoardsTypeCorrect == Spec => []TypeOK
<1>1. Init => TypeOK
  BY TypeInit
<1>2. TypeOK /\ [Next]_vars => TypeOK'
  BY TypeNext
<1>3. QED
  BY <1>1, <1>2, PTL DEF Spec

-----------------------------------------------------------------------------
(* Suspends and resumes.                                                    *)

\* The chips come one after the other.
LEMMA Order ==
  \A c, d \in {0, 1} : (c <= d => c < d \/ c = d) /\ (c < d + 1 => c <= d)
OBVIOUS

\* A step of the PM thread is to the next chip, or the next thing to do.
LEMMA PmNext ==
  ASSUME TypeOK, PmInv, RuntimeSuspend \/ SystemSleep \/ Resume \/ PmStep \/ Register
  PROVE  PmInv'
<1> USE DEF core, drv, wires, user, KeepPm, SuspendBegins, Done, Step, PmInv
<1>1. UNCHANGED board /\ UNCHANGED Scodecs /\ UNCHANGED Last
  BY PmType DEF Scodecs, Last
<1>2. /\ pm.c \in Scodecs /\ Scodecs \subseteq {0, 1} /\ \A c \in Scodecs : c <= Last
      /\ suspended \in [Scodecs -> BOOLEAN]
  BY ChipNumbers DEF TypeOK
<1>3. CASE RuntimeSuspend
  BY <1>1, <1>2, <1>3 DEF RuntimeSuspend
<1>4. CASE SystemSleep
  BY <1>1, <1>2, <1>4 DEF SystemSleep
<1>5. CASE Resume
  BY <1>1, <1>2, <1>5 DEF Resume
<1>6. CASE DownCodec
  <2>1. /\ pm.pc = "down" /\ pm' = [pc |-> "reset", c |-> pm.c] /\ rpm' = rpm
        /\ suspended' = [suspended EXCEPT ![pm.c] = TRUE]
    BY <1>6 DEF DownCodec
  <2>2. \A c \in Scodecs : c <= pm.c => suspended'[c]
    <3>1. \A c \in Scodecs : c <= pm.c => c < pm.c \/ c = pm.c
      BY <1>2, Order
    <3>2. QED
      BY <1>2, <2>1, <3>1
  <2>3. QED
    BY <1>1, <2>1, <2>2
<1>7. CASE ResetCodec
  <2>1. pm.pc = "reset" /\ UNCHANGED suspended
    BY <1>7 DEF ResetCodec
  <2>2. CASE pm.c = Last
    <3>1. \A c \in Scodecs : suspended[c]
      BY <1>2, <2>1, <2>2
    <3>2. QED
      BY <1>1, <1>7, <2>1, <2>2, <3>1 DEF ResetCodec
  <2>3. CASE pm.c # Last
    <3>1. pm' = [pc |-> "down", c |-> pm.c + 1] /\ rpm' = rpm
      BY <1>7, <2>3 DEF ResetCodec
    <3>2. \A c \in Scodecs : c < pm.c + 1 => c <= pm.c
      BY <1>2, Order
    <3>3. QED
      BY <1>1, <2>1, <3>1, <3>2
  <2>4. QED
    BY <2>2, <2>3
<1>8. CASE SetGpio \/ BringCodec \/ OutOfReset \/ EnableDetect
  BY <1>1, <1>8 DEF SetGpio, BringCodec, OutOfReset, EnableDetect
<1>9. CASE EnableUr \/ BuildControls \/ RunDetect \/ StartDetect
  BY <1>1, <1>9 DEF EnableUr, BuildControls, RunDetect, StartDetect, NextCodec
<1>10. CASE SyncJacks \/ Register
  BY <1>1, <1>10 DEF SyncJacks, Register
<1>11. QED
  BY <1>3, <1>4, <1>5, <1>6, <1>7, <1>8, <1>9, <1>10 DEF PmStep

\* Every step keeps the order of a suspend and a resume.
LEMMA PmInvNext == TypeOK /\ PmInv /\ [Next]_vars => PmInv'
<1> SUFFICES ASSUME TypeOK, PmInv, [Next]_vars PROVE PmInv'
  OBVIOUS
<1>1. UNCHANGED <<board, pm, rpm, suspended>> => PmInv'
  BY DEF PmInv, Scodecs
<1>2. CASE UNCHANGED vars
  BY <1>1, <1>2 DEF vars, core, drv
<1>3. CASE Insert \/ Pull \/ (\E c \in Scodecs : Debounced(c) \/ AutoDone(c)) \/ HandlerStep
  BY <1>1, <1>3, Frame DEF core
<1>4. CASE PutStart \/ PutWrite
  BY <1>1, <1>4, PutType DEF core, drv
<1>5. QED
  BY <1>2, <1>3, <1>4, PmNext DEF Next

-----------------------------------------------------------------------------
(* The GPIO word.                                                           *)

\* A PM step on the word: with the switch written in use only, no word of it is on
\* its way.
LEMMA WirePm ==
  ASSUME AwakePuts, TypeOK, PmInv, WireInv,
         RuntimeSuspend \/ SystemSleep \/ Resume \/ PmStep \/ Register
  PROVE  WireInv'
<1> USE DEF core, drv, wires, user, KeepPm, SuspendBegins, Done, Step,
            WireInv, PutInv, SwitchInv, ResetInv, Driven, PmInv
<1>1. UNCHANGED board /\ UNCHANGED Scodecs /\ UNCHANGED Last
  BY PmType DEF Scodecs, Last
<1>2. /\ pm.c \in Scodecs /\ \A c \in Scodecs : c # Pdn
      /\ suspended \in [Scodecs -> BOOLEAN]
  BY ChipNumbers DEF TypeOK
<1>3. \A word : Drive(word) => gpio' = word
  BY DEF Drive
<1>4. CASE RuntimeSuspend
  BY <1>1, <1>4 DEF RuntimeSuspend
<1>5. CASE SystemSleep
  BY <1>1, <1>5 DEF SystemSleep
<1>6. CASE Resume
  BY <1>1, <1>3, <1>6 DEF Resume
<1>7. CASE DownCodec
  <2>1. /\ pm.pc = "down" /\ pm' = [pc |-> "reset", c |-> pm.c] /\ rpm' = rpm
        /\ suspended' = [suspended EXCEPT ![pm.c] = TRUE]
        /\ gpioData' = gpio \ {pm.c} /\ UNCHANGED <<gpio, put, setting>>
    BY <1>7 DEF DownCodec
  <2>2. \A c \in Scodecs : ~suspended'[c] => c \in gpio' /\ c \in gpioData'
    BY <1>2, <2>1
  <2>3. PutInv' /\ put.pc = "idle"
    BY <2>1 DEF TypeOK
  <2>4. SwitchInv'
    BY <1>2, <2>1, <2>3
  <2>5. QED
    BY <1>1, <2>1, <2>2, <2>3, <2>4
<1>8. CASE ResetCodec
  BY <1>1, <1>3, <1>8 DEF ResetCodec
<1>9. CASE SetGpio
  BY <1>1, <1>3, <1>9 DEF SetGpio
<1>10. CASE BringCodec
  <2>1. /\ pm.pc = "bring" /\ pm' = [pc |-> "out", c |-> pm.c] /\ rpm' = rpm
        /\ gpioData' = gpio \union {pm.c} /\ UNCHANGED <<gpio, put, setting, suspended>>
    BY <1>10 DEF BringCodec
  <2>2. PutInv' /\ put.pc = "idle"
    BY <2>1 DEF TypeOK
  <2>3. SwitchInv'
    BY <1>2, <2>1, <2>2
  <2>4. ResetInv'
    BY <1>1, <2>1
  <2>5. QED
    BY <2>2, <2>3, <2>4
<1>11. CASE OutOfReset
  BY <1>1, <1>2, <1>3, <1>11 DEF OutOfReset
<1>12. CASE EnableDetect \/ EnableUr \/ BuildControls
  BY <1>1, <1>12 DEF EnableDetect, EnableUr, BuildControls
<1>13. CASE RunDetect \/ StartDetect
  BY <1>1, <1>13 DEF RunDetect, StartDetect, NextCodec
<1>14. CASE SyncJacks \/ Register
  BY <1>1, <1>14 DEF SyncJacks, Register
<1>15. QED
  BY <1>4, <1>5, <1>6, <1>7, <1>8, <1>9, <1>10, <1>11, <1>12, <1>13, <1>14 DEF PmStep

\* The switch changes its own bit, and what is driven is what was stored.
LEMMA WirePut ==
  ASSUME AwakePuts, TypeOK, PmInv, WireInv, PutStart \/ PutWrite
  PROVE  WireInv'
<1> USE DEF core, drv, WireInv, PutInv, SwitchInv, ResetInv, Driven
<1>1. UNCHANGED <<board, core, drv, pm>> /\ UNCHANGED Scodecs
  BY PutType DEF Scodecs
<1>2. \A c \in Scodecs : c # Pdn
  BY ChipNumbers
<1>3. CASE PutStart
  BY <1>1, <1>2, <1>3 DEF PutStart
<1>4. CASE PutWrite
  <2>1. gpio' = put.word
    BY <1>4 DEF PutWrite, Drive
  <2>2. QED
    BY <1>1, <1>4, <2>1 DEF PutWrite
<1>5. QED
  BY <1>3, <1>4

\* Every step keeps the word coherent.
LEMMA WireInvNext ==
  ASSUME AwakePuts
  PROVE  TypeOK /\ PmInv /\ WireInv /\ [Next]_vars => WireInv'
<1> SUFFICES ASSUME TypeOK, PmInv, WireInv, [Next]_vars PROVE WireInv'
  OBVIOUS
<1>1. UNCHANGED <<board, wires, pm, rpm, suspended, user>> => WireInv'
  BY DEF WireInv, PutInv, SwitchInv, ResetInv, Driven, Scodecs, wires, user
<1>2. CASE UNCHANGED vars
  BY <1>1, <1>2 DEF vars, core, drv
<1>3. CASE Insert \/ Pull \/ (\E c \in Scodecs : Debounced(c) \/ AutoDone(c)) \/ HandlerStep
  BY <1>1, <1>3, Frame DEF core
<1>4. QED
  BY <1>2, <1>3, WirePm, WirePut DEF Next

\* A codec about to be probed.
LEMMA WireInit == Init => PmInv /\ WireInv
<1> SUFFICES ASSUME Init PROVE PmInv /\ WireInv
  OBVIOUS
<1>1. /\ pm = [pc |-> "gpio", c |-> 0] /\ rpm = "suspended" /\ put.pc = "idle"
      /\ \A c \in Scodecs : suspended[c]
      /\ setting <=> Pdn \in gpioData
  BY DEF Init
<1>2. QED
  BY <1>1 DEF PmInv, WireInv, PutInv, SwitchInv, ResetInv, Driven

\* With the switch written in use only, a chip not marked suspended is out of reset, and
\* the switch is as it was set, for any number of writes, suspends and losses of power.
LEMMA WireAlways == ASSUME AwakePuts PROVE Spec => [](TypeOK /\ PmInv /\ WireInv)
<1>1. Init => TypeOK /\ PmInv /\ WireInv
  BY TypeInit, WireInit
<1>2. TypeOK /\ PmInv /\ WireInv /\ [Next]_vars => (TypeOK /\ PmInv /\ WireInv)'
  BY TypeNext, PmInvNext, WireInvNext
<1>3. QED
  BY <1>1, <1>2, PTL DEF Spec

\* `Bring CS42L42 out of Reset' (cs8409.c:912), if the speaker switch is not written
\* in standby: a chip not marked suspended stays out of reset.
THEOREM ChipsStayOut == ASSUME AwakePuts PROVE Spec => []ChipsOut
<1>1. WireInv => ChipsOut
  BY DEF WireInv, ResetInv, ChipsOut, InReset
<1>2. QED
  BY <1>1, WireAlways, PTL

\* The speaker switch outlasts suspends, resets of chips and losses of power
\* (cs8409.c:449, 913, 1098).
THEOREM SwitchStays == ASSUME AwakePuts PROVE Spec => []SwitchKept
<1>1. WireInv => SwitchKept
  BY DEF WireInv, SwitchInv, Driven, SwitchKept, Up
<1>2. QED
  BY <1>1, WireAlways, PTL

-----------------------------------------------------------------------------
(* What ALSA is told.                                                       *)

\* No overlap is noted: there is none now, and none was noted before but for what a
\* resume in its beginning forgets.
LEMMA NoOverlap ==
  ASSUME Noted, "mixed" \notin spoiled'
  PROVE  /\ pm'.pc # "idle" => hdl'.pc = "idle"
         /\ \/ "mixed" \notin spoiled
            \/ pm.pc = "gpio" /\ \A c \in Scodecs : believed[c] = Nothing
<1>1. pm'.pc # "idle" => hdl'.pc = "idle"
  BY DEF Noted
<1>2. "mixed" \notin (IF pm.pc = "gpio" /\ believed = [c \in Scodecs |-> Nothing]
                        THEN {} ELSE spoiled)
  BY DEF Noted
<1>3. QED
  BY <1>1, <1>2

\* What is told follows from what is believed.
LEMMA SyncedKept ==
  ASSUME UNCHANGED <<board, believed, reported, speaker>>
  PROVE  \A c : Synced(c)' <=> Synced(c)
BY DEF Synced, PinSense

\* A step that leaves handler, PM and what is told alone.
LEMMA ToldKept ==
  ASSUME TypeOK, PmInv, ToldInv, Noted,
         UNCHANGED <<board, pm, rpm, hdl, believed, reported, speaker>>
  PROVE  ToldInv'
<1>1. Scodecs' = Scodecs /\ 0 \in Scodecs
  BY ChipNumbers DEF Scodecs
<1>2. \A c : (Synced(c)' <=> Synced(c)) /\ (WillTell(c)' <=> WillTell(c))
  BY SyncedKept DEF WillTell, NoTypeDect, TipChanged
<1>3. CASE "mixed" \in spoiled'
  BY <1>3 DEF ToldInv
<1>4. CASE "mixed" \notin spoiled'
  <2>1. CASE "mixed" \notin spoiled
    BY <1>1, <1>2, <2>1 DEF ToldInv
  <2>2. CASE pm.pc = "gpio" /\ \A c \in Scodecs : believed[c] = Nothing
    <3>1. rpm = "suspended" /\ hdl.pc = "idle"
      BY <1>4, <2>2, NoOverlap DEF PmInv
    <3>2. board = "dell" => speaker
      BY <1>1, <2>2, <3>1 DEF ToldInv
    <3>3. QED
      BY <1>1, <2>2, <3>1, <3>2 DEF ToldInv
  <2>3. QED
    BY <1>4, <2>1, <2>2, NoOverlap
<1>5. QED
  BY <1>3, <1>4

\* The PM callbacks believe nothing, from one chip's suspend to the last one's init.
LEMMA ToldPm ==
  ASSUME TypeOK, PmInv, ToldInv, Noted,
         RuntimeSuspend \/ SystemSleep \/ Resume \/ PmStep \/ Register
  PROVE  ToldInv'
<1> USE DEF core, drv, wires, user, KeepPm, SuspendBegins, Done, Step
<1>1. /\ UNCHANGED <<board, hdl>> /\ Scodecs' = Scodecs /\ Last' = Last
  BY PmType DEF Scodecs, Last
<1>2. /\ pm.c \in Scodecs /\ Scodecs \subseteq {0, 1} /\ 0 \in Scodecs
      /\ \A c \in Scodecs : c <= Last
      /\ believed \in [Scodecs -> Belief]
  BY ChipNumbers DEF TypeOK
<1>3. UNCHANGED <<pm, rpm, believed, reported, speaker>> => ToldInv'
  BY <1>1, ToldKept
\* Outside of the first step of a resume nothing is forgotten.
<1>4. ASSUME pm.pc # "gpio", "mixed" \notin spoiled'
      PROVE  "mixed" \notin spoiled /\ (pm'.pc # "idle" => hdl.pc = "idle")
  BY <1>1, <1>4, NoOverlap
<1>5. ASSUME rpm = "active", UNCHANGED <<rpm, believed, reported, speaker>>,
             pm' = [pc |-> "down", c |-> 0], pm.pc = "idle"
      PROVE  ToldInv'
  <2>1. \A c \in Scodecs : ~(c < 0)
    BY <1>2
  <2>2. QED
    BY <1>1, <1>4, <1>5, <2>1 DEF ToldInv
<1>6. CASE RuntimeSuspend
  BY <1>5, <1>6 DEF RuntimeSuspend
<1>7. CASE SystemSleep
  BY <1>3, <1>5, <1>7 DEF SystemSleep, TypeOK
<1>8. CASE Resume
  BY <1>1, <1>4, <1>8 DEF Resume, ToldInv
<1>9. CASE DownCodec
  <2>1. /\ pm.pc = "down" /\ pm' = [pc |-> "reset", c |-> pm.c]
        /\ rpm = "active" /\ rpm' = rpm
        /\ believed' = [believed EXCEPT ![pm.c] = Nothing]
    BY <1>9 DEF DownCodec, PmInv
  <2>2. ASSUME "mixed" \notin spoiled'
        PROVE  \A c \in Scodecs : c <= pm.c => believed'[c] = Nothing
    <3>1. \A c \in Scodecs : c < pm.c => believed[c] = Nothing
      BY <1>4, <2>1, <2>2 DEF ToldInv
    <3>2. \A c \in Scodecs : c <= pm.c => c < pm.c \/ c = pm.c
      BY <1>2, Order
    <3>3. QED
      BY <1>2, <2>1, <3>1, <3>2
  <2>3. QED
    BY <1>1, <1>4, <2>1, <2>2 DEF ToldInv
<1>10. CASE ResetCodec
  <2>1. pm.pc = "reset" /\ rpm = "active" /\ UNCHANGED believed
    BY <1>10 DEF ResetCodec, PmInv
  <2>2. "mixed" \notin spoiled' =>
          /\ hdl.pc = "idle" /\ \A c \in Scodecs : c <= pm.c => believed[c] = Nothing
    BY <1>4, <2>1 DEF ToldInv
  <2>3. CASE pm.c = Last
    <3>1. pm' = [pc |-> "idle", c |-> 0] /\ rpm' = "suspended"
      BY <1>10, <2>3 DEF ResetCodec
    <3>2. QED
      BY <1>1, <1>2, <2>1, <2>2, <2>3, <3>1 DEF ToldInv
  <2>4. CASE pm.c # Last
    <3>1. pm' = [pc |-> "down", c |-> pm.c + 1] /\ rpm' = rpm
      BY <1>10, <2>4 DEF ResetCodec
    <3>2. \A c \in Scodecs : c < pm.c + 1 => c <= pm.c
      BY <1>2, Order
    <3>3. QED
      BY <1>1, <2>1, <2>2, <3>1, <3>2 DEF ToldInv
  <2>5. QED
    BY <2>3, <2>4
<1>11. CASE SetGpio
  <2>1. /\ pm.pc = "gpio" /\ pm' = [pc |-> "bring", c |-> 0] /\ rpm = "suspended"
        /\ UNCHANGED <<rpm, believed, reported, speaker>>
    BY <1>11 DEF SetGpio, PmInv
  <2>2. ASSUME "mixed" \notin spoiled'
        PROVE  /\ \A c \in Scodecs : believed[c] = Nothing
               /\ hdl.pc = "idle" /\ (board = "dell" => speaker)
    <3>1. hdl.pc = "idle"
      BY <1>1, <2>1, <2>2, NoOverlap
    <3>2. \A c \in Scodecs : believed[c] = Nothing
      BY <2>1, <2>2, NoOverlap DEF ToldInv
    <3>3. QED
      BY <1>2, <2>1, <3>1, <3>2 DEF ToldInv
  <2>3. QED
    BY <1>1, <2>1, <2>2 DEF ToldInv
\* The steps of the init that follow.
<1>12. ASSUME pm.pc \notin {"idle", "down", "reset", "gpio"},
              pm'.pc \notin {"idle", "down", "reset", "gpio"},
              UNCHANGED <<rpm, believed, reported, speaker>>
       PROVE  ToldInv'
  BY <1>1, <1>4, <1>12 DEF ToldInv, PmInv
<1>13. CASE BringCodec \/ OutOfReset \/ EnableDetect \/ EnableUr \/ BuildControls
  BY <1>12, <1>13 DEF BringCodec, OutOfReset, EnableDetect, EnableUr, BuildControls
<1>14. CASE RunDetect \/ StartDetect
  BY <1>12, <1>14 DEF RunDetect, StartDetect, NextCodec
<1>15. CASE SyncJacks
  <2>1. /\ pm.pc = "sync" /\ pm' = [pc |-> "idle", c |-> 0] /\ rpm' = "active"
        /\ rpm = "suspended" /\ reported' = Senses /\ UNCHANGED <<believed, speaker>>
    BY <1>15 DEF SyncJacks, PmInv
  <2>2. \A c \in Scodecs : reported'[c] = PinSense(believed[c])
    BY <2>1 DEF Senses
  <2>3. "mixed" \notin spoiled' => \A c \in Scodecs : Synced(c)'
    BY <1>1, <1>2, <1>4, <2>1, <2>2 DEF ToldInv, Synced, PinSense
  <2>4. QED
    BY <1>1, <2>1, <2>3 DEF ToldInv
<1>16. CASE Register
  BY <1>3, <1>16 DEF Register
<1>17. QED
  BY <1>6, <1>7, <1>8, <1>9, <1>10, <1>11, <1>13, <1>14, <1>15, <1>16 DEF PmStep

\* The handler leaves alone what is told until it reports, and reports what it changed.
LEMMA HandlerTells ==
  ASSUME TypeOK, HandlerStep, NEW d \in Scodecs, Synced(d) \/ WillTell(d)
  PROVE  Synced(d)' \/ WillTell(d)'
<1>1. /\ UNCHANGED board /\ hdl.c \in Scodecs /\ believed \in [Scodecs -> Belief]
      /\ hdl \in HdlType /\ d \in Scodecs /\ DOMAIN reported = Scodecs
      /\ board = "dell" => Scodecs = {0}
  BY Frame DEF TypeOK, HdlType, Scodecs
<1>2. ASSUME KeepTold, UNCHANGED believed, ~WillTell(d) PROVE Synced(d)'
  BY <1>1, <1>2, SyncedKept DEF KeepTold
<1>3. CASE TakeResponse
  BY <1>2, <1>3 DEF TakeResponse, WillTell
<1>4. CASE ReadDone
  BY <1>2, <1>4 DEF ReadDone, WillTell
<1>5. CASE ReadTip
  <2>1. hdl.pc = "tip" /\ KeepTold /\ ~WillTell(d) /\ Synced(d)
    BY <1>5 DEF ReadTip, WillTell
  <2>2. CASE UNCHANGED believed
    BY <1>2, <2>1, <2>2
  <2>3. CASE ~UNCHANGED believed
    <3>1. PICK tip : /\ believed' = [believed EXCEPT ![hdl.c] = TipBelief(hdl.c, tip)]
                     /\ TipChanged(hdl.c, tip) => Goto("report")
      BY <1>5, <2>3 DEF ReadTip
    <3>2. TipChanged(hdl.c, tip)
      BY <1>1, <2>3, <3>1 DEF TipBelief, TipChanged
    <3>3. hdl'.pc = "report" /\ hdl'.c = hdl.c
      BY <1>1, <3>1, <3>2 DEF Goto, HdlType
    <3>4. CASE d = hdl.c
      BY <3>3, <3>4 DEF WillTell
    <3>5. CASE d # hdl.c
      <4>1. believed'[d] = believed[d] /\ board # "dell"
        BY <1>1, <3>1, <3>5
      <4>2. QED
        BY <1>1, <2>1, <4>1 DEF Synced, KeepTold, PinSense
    <3>6. QED
      BY <3>4, <3>5
  <2>4. QED
    BY <2>2, <2>3
<1>6. CASE HandlerDetects \/ StopDetect \/ ManualHsDet
  BY <1>2, <1>6 DEF HandlerDetects, StopDetect, ManualHsDet, WillTell
<1>7. CASE Judge
  <2>1. /\ hdl.pc = "judge" /\ KeepTold /\ ~WillTell(d) /\ Synced(d)
        /\ hdl' = [hdl EXCEPT !.pc = "unmask", !.type = "INVALID"]
        /\ \A c \in Scodecs : c # hdl.c => believed'[c] = believed[c]
        /\ NoTypeDect(hdl.c) =>
             believed' = [believed EXCEPT ![hdl.c] = TipBelief(hdl.c, hdl.tip)]
    BY <1>1, <1>7 DEF Judge, WillTell
  <2>2. hdl'.pc = "unmask" /\ hdl'.c = hdl.c /\ hdl'.tip = hdl.tip
    BY <1>1, <2>1 DEF HdlType
  <2>3. CASE d = hdl.c /\ (NoTypeDect(d) => TipChanged(d, hdl.tip))
    BY <2>2, <2>3 DEF WillTell, NoTypeDect, TipChanged
  <2>4. CASE d = hdl.c /\ NoTypeDect(d) /\ ~TipChanged(d, hdl.tip)
    <3>1. UNCHANGED believed
      BY <1>1, <2>1, <2>4 DEF TipBelief, TipChanged
    <3>2. QED
      BY <1>2, <2>1, <3>1
  <2>5. CASE d # hdl.c
    <3>1. believed'[d] = believed[d] /\ board # "dell"
      BY <1>1, <2>1, <2>5
    <3>2. QED
      BY <1>1, <2>1, <3>1 DEF Synced, KeepTold, PinSense
  <2>6. QED
    BY <2>3, <2>4, <2>5
<1>8. CASE UnmaskTip
  <2>1. CASE WillTell(d)
    <3>1. Goto("report") /\ hdl.c = d
      BY <1>8, <2>1 DEF UnmaskTip, WillTell
    <3>2. QED
      BY <1>1, <3>1 DEF Goto, WillTell, HdlType
  <2>2. CASE ~WillTell(d)
    BY <1>2, <1>8, <2>2 DEF UnmaskTip
  <2>3. QED
    BY <2>1, <2>2
<1>9. CASE Report
  <2>1. /\ UNCHANGED believed /\ reported' = [reported EXCEPT ![hdl.c] = PinSense(believed[hdl.c])]
        /\ speaker' = IF board = "dell" THEN believed[0] = Nothing ELSE speaker
    BY <1>9 DEF Report, TellOf
  <2>2. CASE d = hdl.c
    BY <1>1, <2>1, <2>2 DEF Synced, PinSense
  <2>3. CASE d # hdl.c
    <3>1. Synced(d)
      BY <2>3 DEF WillTell
    <3>2. reported'[d] = reported[d] /\ board # "dell"
      BY <1>1, <2>1, <2>3
    <3>3. QED
      BY <1>1, <2>1, <3>1, <3>2 DEF Synced, PinSense
  <2>4. QED
    BY <2>2, <2>3
<1>10. QED
  BY <1>3, <1>4, <1>5, <1>6, <1>7, <1>8, <1>9 DEF HandlerStep

\* On chips that are all marked suspended a handler just begun finds out nothing.
LEMMA HandlerSuspended ==
  ASSUME TypeOK, HandlerStep, hdl.pc \in {"idle", "look", "tip", "report"},
         \A c \in Scodecs : suspended[c]
  PROVE  /\ UNCHANGED believed
         /\ hdl'.pc \in {"idle", "look", "tip", "report"}
         /\ hdl'.pc = "report" \/ hdl.pc = "report" \/ UNCHANGED speaker
<1>1. hdl.c \in Scodecs /\ hdl.todo \in SUBSET Scodecs
      /\ hdl \in HdlType
  BY DEF TypeOK, HdlType
<1>2. Visit(hdl.todo) => hdl'.pc \in {"idle", "look"}
  BY <1>1, VisitType
<1>3. CASE TakeResponse
  <2>1. PICK lows \in responses : Visit(IF registered /\ powerOn THEN lows ELSE {})
    BY <1>3 DEF TakeResponse
  <2>2. hdl'.pc \in {"idle", "look"}
    BY <2>1, VisitType DEF TypeOK
  <2>3. QED
    BY <1>3, <2>2 DEF TakeResponse, KeepTold
<1>4. CASE ReadDone \/ ReadTip
  BY <1>1, <1>2, <1>4 DEF ReadDone, ReadTip, KeepTold, HdlType
<1>5. CASE Report
  BY <1>2, <1>5 DEF Report
<1>6. QED
  BY <1>3, <1>4, <1>5 DEF HandlerStep, HandlerDetects, StopDetect, ManualHsDet, Judge,
                          UnmaskTip

\* In the first step of a resume, all chips suspended, the speaker pin is on unless a
\* jack is believed in or a report is due.
LEMMA HandlerSpeaker ==
  ASSUME TypeOK, HandlerStep, board = "dell", \A c \in Scodecs : suspended[c],
         speaker \/ believed[0] # Nothing \/ hdl.pc \in {"unmask", "report"}
  PROVE  speaker' \/ believed'[0] # Nothing \/ hdl'.pc \in {"unmask", "report"}
<1>1. hdl.c \in Scodecs /\ Scodecs = {0} /\ ~NoTypeDect(hdl.c)
      /\ hdl \in HdlType
  BY DEF TypeOK, HdlType, Scodecs, NoTypeDect
<1>2. CASE TakeResponse \/ ReadDone \/ ReadTip
  BY <1>1, <1>2 DEF TakeResponse, ReadDone, ReadTip, KeepTold, HdlType
<1>3. CASE HandlerDetects \/ StopDetect \/ ManualHsDet
  BY <1>3 DEF HandlerDetects, StopDetect, ManualHsDet, KeepTold
<1>4. CASE Judge
  BY <1>1, <1>4 DEF Judge, HdlType
<1>5. CASE UnmaskTip
  BY <1>1, <1>5 DEF UnmaskTip, Goto, HdlType
<1>6. CASE Report
  BY <1>6 DEF Report
<1>7. QED
  BY <1>2, <1>3, <1>4, <1>5, <1>6 DEF HandlerStep

\* The handler keeps it all.
LEMMA ToldHandler ==
  ASSUME TypeOK, PmInv, ToldInv, Noted, HandlerStep
  PROVE  ToldInv'
<1>1. UNCHANGED <<board, pm, rpm, suspended>> /\ Scodecs' = Scodecs /\ 0 \in Scodecs
  BY Frame, ChipNumbers DEF core, Scodecs
<1>2. pm.pc = "gpio" => rpm = "suspended" /\ \A c \in Scodecs : suspended[c]
  BY DEF PmInv
<1>3. pm.pc = "gpio" /\ board = "dell" =>
        speaker' \/ believed'[0] # Nothing \/ hdl'.pc \in {"unmask", "report"}
  BY <1>2, HandlerSpeaker DEF ToldInv
<1>4. hdl.pc = "idle" => UNCHANGED <<believed, reported, speaker>>
  BY DEF HandlerStep, TakeResponse, ReadDone, ReadTip, HandlerDetects, StopDetect, ManualHsDet,
         Judge, UnmaskTip, Report, KeepTold
<1>5. CASE "mixed" \in spoiled'
  BY <1>1, <1>3, <1>5 DEF ToldInv
<1>6. CASE "mixed" \notin spoiled' /\ pm.pc = "idle"
  <2>1. "mixed" \notin spoiled
    BY <1>6, NoOverlap
  <2>2. CASE rpm = "active"
    <3>1. \A c \in Scodecs : Synced(c)' \/ WillTell(c)'
      BY <1>6, <2>1, <2>2, HandlerTells DEF ToldInv
    <3>2. QED
      BY <1>1, <1>6, <2>1, <2>2, <3>1 DEF ToldInv
  <2>3. CASE rpm = "suspended"
    BY <1>1, <1>6, <2>1, <2>3, HandlerSuspended DEF ToldInv, PmInv
  <2>4. QED
    BY <2>2, <2>3 DEF TypeOK
<1>7. CASE "mixed" \notin spoiled' /\ pm.pc # "idle"
  <2>1. hdl'.pc = "idle"
    BY <1>1, <1>7, NoOverlap
  <2>2. CASE "mixed" \notin spoiled
    <3>1. hdl.pc = "idle"
      BY <1>7, <2>2 DEF ToldInv
    <3>2. QED
      BY <1>1, <1>3, <1>4, <1>7, <2>1, <2>2, <3>1 DEF ToldInv
  <2>3. CASE pm.pc = "gpio" /\ \A c \in Scodecs : believed[c] = Nothing
    <3>1. UNCHANGED believed
      <4>1. hdl.c \in Scodecs /\ suspended[hdl.c]
            /\ hdl \in HdlType
        BY <1>2, <2>3 DEF TypeOK, HdlType
      <4>2. ~Judge
        BY <2>1, <4>1 DEF Judge, HdlType
      <4>3. QED
        BY <4>1, <4>2 DEF HandlerStep, TakeResponse, ReadDone, ReadTip, HandlerDetects,
                          StopDetect, ManualHsDet, UnmaskTip, Report
    <3>2. QED
      BY <1>1, <1>2, <1>3, <2>1, <2>3, <3>1 DEF ToldInv
  <2>4. QED
    BY <1>7, <2>2, <2>3, NoOverlap
<1>8. QED
  BY <1>5, <1>6, <1>7

\* So does every step.
LEMMA ToldInvNext == TypeOK /\ PmInv /\ ToldInv /\ [Next]_vars => ToldInv'
<1> SUFFICES ASSUME TypeOK, PmInv, ToldInv, [Next]_vars PROVE ToldInv'
  OBVIOUS
<1>1. CASE UNCHANGED vars
  <2>1. UNCHANGED <<board, pm, rpm, hdl, believed, reported, speaker, spoiled>>
    BY <1>1 DEF vars, core, drv
  <2>2. /\ \A c : (Synced(c)' <=> Synced(c)) /\ (WillTell(c)' <=> WillTell(c))
        /\ Scodecs' = Scodecs
    BY <2>1, SyncedKept DEF WillTell, NoTypeDect, TipChanged, Scodecs
  <2>3. QED
    BY <2>1, <2>2 DEF ToldInv
<1>2. CASE Next
  <2>1. Noted
    BY <1>2 DEF Next
  <2>2. CASE Insert \/ Pull \/ (\E c \in Scodecs : Debounced(c) \/ AutoDone(c))
    BY <2>1, <2>2, Frame, WorldType, ToldKept DEF core
  <2>3. CASE HandlerStep
    BY <2>1, <2>3, ToldHandler
  <2>4. CASE RuntimeSuspend \/ SystemSleep \/ Resume \/ PmStep \/ Register
    BY <2>1, <2>4, ToldPm
  <2>5. CASE PutStart \/ PutWrite
    BY <2>1, <2>5, PutType, ToldKept DEF core, drv
  <2>6. QED
    BY <1>2, <2>2, <2>3, <2>4, <2>5 DEF Next
<1>3. QED
  BY <1>1, <1>2

\* Nothing is believed, and nothing has happened, before the probe.
LEMMA ToldInit == Init => ToldInv
<1> SUFFICES ASSUME Init PROVE ToldInv
  OBVIOUS
<1>1. /\ pm.pc = "gpio" /\ rpm = "suspended" /\ speaker /\ hdl.pc = "idle"
      /\ \A c \in Scodecs : believed[c] = Nothing
  BY DEF Init, HdlIdle
<1>2. QED
  BY <1>1 DEF ToldInv

\* Between two handlings ALSA knows what the driver believes, and the speaker pin of a
\* Dell board follows the jack (cs8409.c:1017-1034, 1459-1486), for any number of
\* jacks, suspends and sleeps, unless a handler overlapped a PM callback.
THEOREM ToldAlways == Spec => []Told
<1>1. Init => TypeOK /\ PmInv /\ ToldInv
  BY TypeInit, WireInit, ToldInit
<1>2. TypeOK /\ PmInv /\ ToldInv /\ [Next]_vars => (TypeOK /\ PmInv /\ ToldInv)'
  BY TypeNext, PmInvNext, ToldInvNext
<1>3. TypeOK /\ ToldInv => Told
  <2> SUFFICES ASSUME TypeOK, ToldInv, Quiet, "mixed" \notin spoiled
               PROVE  reported = Senses /\ (board = "dell" => (speaker <=> believed[0] = Nothing))
    BY DEF Told
  <2>1. \A c \in Scodecs : Synced(c)
    BY DEF ToldInv, Quiet, Up, WillTell
  <2>2. reported \in [Scodecs -> [hp : BOOLEAN, mic : BOOLEAN]] /\ 0 \in Scodecs
    BY ChipNumbers DEF TypeOK
  <2>3. reported = Senses
    BY <2>1, <2>2 DEF Synced, Senses
  <2>4. QED
    BY <2>1, <2>2, <2>3 DEF Synced
<1>4. QED
  BY <1>1, <1>2, <1>3, PTL DEF Spec

-----------------------------------------------------------------------------
(* What is believed of a jack when nothing is left to do.                   *)

\* The tip sense tells of a plug.
SeatInv == \A c \in Scodecs : chip[c].ts = "unplug" <=> jack[c] = Nothing

\* Which chips the init has unmarked, and when responses come and are taken.
Started == pm.pc \in {"build", "detect", "start", "sync"}
AwakeInv ==
  /\ pm.pc = "ur" \/ Started \/ Up => powerOn /\ \A c \in Scodecs : ~suspended[c]
  /\ Started \/ Up => ur
  /\ pm.pc \in {"bring", "out"} => \A c \in Scodecs : c < pm.c => ~suspended[c]
  /\ pm.pc = "enable" => \A c \in Scodecs : c <= pm.c => ~suspended[c]

\* What is known of the jack is right, or the chip will say that it is not.
Unread(c) == chip[c].tsLatch \/ chip[c].ts = "trans"
Right(c)  == Unread(c) \/ believed[c] = Due(c)
Result(c) == \/ Unread(c)
             \/ IF NoTypeDect(c) THEN TipBelief(c, hdl.tip) = Due(c)
                ELSE (IF hdl.type = "INVALID" THEN Nothing ELSE hdl.type) = Due(c)

\* Between detections a chip watches the tip; in one it is deaf to it, and what it
\* finds is the jack or nothing.
Off(c) == chip[c].tsMask /\ ~chip[c].hsRun /\ ~chip[c].hsLatch
Watching(c)  == /\ ~chip[c].tsMask /\ chip[c].hsMask /\ ~chip[c].hsRun /\ ~chip[c].hsLatch
                /\ Right(c)
Detecting(c) == /\ chip[c].tsMask /\ ~chip[c].hsMask /\ (chip[c].hsRun <=> ~chip[c].hsLatch)
                /\ chip[c].hsLatch => chip[c].hsType \in {"INVALID", jack[c]}

\* The chip the handler is at, and every other.
AtChip(c, l) == hdl.c = c /\ hdl.pc = l
Handled(c) ==
  /\ hdl.c # c \/ hdl.pc \in {"idle", "look", "report"} => Watching(c) \/ Detecting(c)
  /\ AtChip(c, "tip") =>
       \/ hdl.done = "no" /\ (Watching(c) \/ Detecting(c))
       \/ /\ hdl.done = "yes" /\ Off(c) /\ ~chip[c].hsMask
          /\ ~NoTypeDect(c) => hdl.type \in {"INVALID", jack[c]}
  /\ AtChip(c, "start")  => Off(c) /\ ~chip[c].hsMask
  /\ AtChip(c, "stop")   => Off(c) /\ (\/ Result(c)
                                       \/ ~NoTypeDect(c) /\ hdl.type \in {"INVALID", "HEADPHONE"})
  /\ hdl.c = c /\ hdl.pc \in {"manual", "first", "second"} =>
       Off(c) /\ chip[c].hsMask /\ ~NoTypeDect(c)
  /\ AtChip(c, "second") => \/ Unread(c)
                            \/ \E weak \in BOOLEAN : hdl.first = Seated(jack[c], 1, weak)
  /\ AtChip(c, "judge")  => Off(c) /\ chip[c].hsMask /\ Result(c)
  /\ AtChip(c, "unmask") => Off(c) /\ chip[c].hsMask /\ Right(c)

\* A low line has a response that says so, or the handler is about to read what holds
\* it low.
Waiting(c)  == \E lows \in responses : c \in lows
Promised(c) == /\ hdl.pc # "idle"
               /\ \/ c \in hdl.todo \/ AtChip(c, "look")
                  \/ AtChip(c, "tip") /\ ~chip[c].tsMask
Heard(c)    == Low(chip[c]) => Waiting(c) \/ Promised(c)

\* In use, and as far as an init has come.
KnownInv ==
  spoiled = {} =>
    /\ Up => \A c \in Scodecs : Handled(c) /\ Heard(c)
    /\ pm.pc \in {"detect", "start"} =>
         \A c \in Scodecs : c < pm.c => Detecting(c) /\ Heard(c)
    /\ pm.pc = "start" => Off(pm.c) /\ ~chip[pm.c].hsMask
    /\ pm.pc = "sync" => \A c \in Scodecs : Detecting(c) /\ Heard(c)

\* What it rests on.
BaseInv == TypeOK /\ PmInv /\ WireInv /\ ToldInv /\ SeatInv /\ AwakeInv

\* What an access leaves of a chip.
LEMMA AccessFields ==
  ASSUME NEW x \in ChipType
  PROVE  /\ LET y == DoneRead(x) IN
              /\ y.ts = x.ts /\ y.tsMask = x.tsMask /\ y.hsMask = x.hsMask /\ y.hsRun = x.hsRun
              /\ y.tsLatch = x.tsLatch /\ ~y.hsLatch
         /\ LET y == TipRead(x) IN
              /\ y.ts = x.ts /\ y.tsMask = x.tsMask /\ y.hsMask = x.hsMask /\ y.hsRun = x.hsRun
              /\ ~y.tsLatch /\ y.hsLatch = x.hsLatch /\ y.hsType = x.hsType
         /\ LET y == StatusRead(x) IN
              /\ y.ts = x.ts /\ y.tsMask = x.tsMask /\ y.hsMask = x.hsMask /\ y.hsRun = x.hsRun
              /\ ~y.tsLatch /\ ~y.hsLatch
         /\ LET y == DetectMasked(x) IN
              /\ y.ts = x.ts /\ y.tsMask /\ ~y.hsMask /\ ~y.hsRun /\ ~y.tsLatch /\ ~y.hsLatch
         /\ LET y == DetectStarted(x) IN
              /\ y.ts = x.ts /\ y.tsMask = x.tsMask /\ y.hsMask = x.hsMask /\ y.hsRun
              /\ y.tsLatch = x.tsLatch /\ y.hsLatch = x.hsLatch
BY DEF ChipType, DoneRead, TipRead, StatusRead, DetectMasked, DetectStarted

\* One chip changed.
LEMMA OneChip ==
  ASSUME TypeOK, NEW c \in Scodecs, NEW x, Become([chip EXCEPT ![c] = x])
  PROVE  chip'[c] = x /\ \A d \in Scodecs : d # c => chip'[d] = chip[d]
BY DEF Become, TypeOK

\* With responses on, a line that falls is heard of, and one that was stays so.
LEMMA BecomeHeard ==
  ASSUME ur, UNCHANGED board, NEW chips, Become(chips), NEW c \in Scodecs,
         Low(chip[c]) => Waiting(c) \/ Promised(c)' \/ ~Low(chip'[c])
  PROVE  Heard(c)'
<1>1. chip' = chips /\ responses \subseteq responses'
  BY DEF Become
<1>2. CASE Low(chip[c])
  BY <1>1, <1>2 DEF Heard, Waiting
<1>3. CASE ~Low(chip[c]) /\ Low(chips[c])
  <2>1. c \in LinesLow(chips) /\ c \notin LinesLow(chip)
    BY <1>3 DEF LinesLow
  <2>2. LinesLow(chips) \in responses'
    BY <2>1 DEF Become
  <2>3. QED
    BY <2>1, <2>2 DEF Heard, Waiting
<1>4. QED
  BY <1>1, <1>2, <1>3 DEF Heard

\* A chip not touched, with the handler where it was.
LEMMA ChipSame ==
  ASSUME NEW d, chip'[d] = chip[d], jack'[d] = jack[d], believed'[d] = believed[d]
  PROVE  /\ Watching(d)' <=> Watching(d)
         /\ Detecting(d)' <=> Detecting(d)
         /\ Off(d)' <=> Off(d)
         /\ hdl' = hdl => (Handled(d)' <=> Handled(d))
<1>1. (Unread(d)' <=> Unread(d)) /\ (Right(d)' <=> Right(d)) /\ (Off(d)' <=> Off(d))
  BY DEF Unread, Right, Due, NoTypeDect, Off
<1>2. (Watching(d)' <=> Watching(d)) /\ (Detecting(d)' <=> Detecting(d))
  BY <1>1 DEF Watching, Detecting
<1>3. hdl' = hdl => (Result(d)' <=> Result(d))
  BY <1>1 DEF Result, TipBelief, Due, NoTypeDect
<1>4. hdl' = hdl => (Handled(d)' <=> Handled(d))
  BY <1>1, <1>2, <1>3 DEF Handled, AtChip, NoTypeDect
<1>5. QED
  BY <1>1, <1>2, <1>4

\* Nothing is noted that was not before, unless a resume starts afresh.
LEMMA NoSpoil ==
  ASSUME Noted, spoiled' = {}
  PROVE  /\ spoiled = {} \/ pm.pc = "gpio"
         /\ \A c \in Scodecs : Deaf(c) => jack'[c] = jack[c]
         /\ pm'.pc # "idle" => hdl'.pc = "idle"
         /\ registered \/ responses \subseteq responses'
<1>1. /\ (IF pm.pc = "gpio" /\ believed = [c \in Scodecs |-> Nothing] THEN {} ELSE spoiled) = {}
      /\ (IF \E c \in Scodecs : Deaf(c) /\ jack'[c] # jack[c] THEN {"moved"} ELSE {}) = {}
      /\ (IF pm'.pc # "idle" /\ hdl'.pc # "idle" THEN {"mixed"} ELSE {}) = {}
      /\ (IF ~registered /\ ~(responses \subseteq responses') THEN {"lost"} ELSE {}) = {}
  BY DEF Noted
<1>2. QED
  BY <1>1

-----------------------------------------------------------------------------
(* The tip sense, and how far the chips are.                                *)

\* An access leaves the tip sense alone.
LEMMA SeatAccess ==
  ASSUME TypeOK, SeatInv, UNCHANGED <<board, jack>>, NEW c \in Scodecs, NEW x,
         x.ts = chip[c].ts, Become([chip EXCEPT ![c] = x])
  PROVE  SeatInv'
<1>1. \A d \in Scodecs : chip'[d].ts = chip[d].ts
  BY OneChip
<1>2. QED
  BY <1>1 DEF SeatInv, Scodecs

\* A chip out of reset finds what is plugged in.
LEMMA SeatDrive ==
  ASSUME TypeOK, SeatInv, UNCHANGED <<board, jack>>, NEW word, Drive(word)
  PROVE  SeatInv'
<1>1. \A c \in Scodecs : chip'[c] = chip[c] \/ chip'[c] = Fresh(jack[c])
  BY DEF Drive, Become
<1>2. \A c \in Scodecs : Fresh(jack[c]).ts = "unplug" <=> jack[c] = Nothing
  BY DEF Fresh
<1>3. \A c \in Scodecs : chip'[c].ts = "unplug" <=> jack[c] = Nothing
  BY <1>1, <1>2 DEF SeatInv
<1>4. QED
  BY <1>3 DEF SeatInv, Scodecs

\* What the chip senses is what is plugged in.
LEMMA SeatSense ==
  ASSUME TypeOK, SeatInv, UNCHANGED board, NEW c \in Scodecs, NEW s, Sense(c, s),
         s = "unplug" <=> jack'[c] = Nothing,
         \A d \in Scodecs : d # c => jack'[d] = jack[d]
  PROVE  SeatInv'
<1>1. chip' = [chip EXCEPT ![c] = [@ EXCEPT !.ts = s, !.tsLatch = @ \/ ~InReset(c)]]
  BY DEF Sense, Become
<1>2. chip \in [Scodecs -> ChipType]
  BY DEF TypeOK, ChipType
<1>3. \A d \in Scodecs : IF d = c THEN chip'[d].ts = s ELSE chip'[d].ts = chip[d].ts
  BY <1>1, <1>2 DEF ChipType
<1>4. QED
  BY <1>3 DEF SeatInv, Scodecs

\* Every step keeps it.
LEMMA SeatNext == TypeOK /\ SeatInv /\ [Next]_vars => SeatInv'
<1> SUFFICES ASSUME TypeOK, SeatInv, [Next]_vars PROVE SeatInv'
  OBVIOUS
<1>1. UNCHANGED <<board, jack, chip>> => SeatInv'
  BY DEF SeatInv, Scodecs
<1>2. /\ hdl.c \in Scodecs /\ pm.c \in Scodecs
      /\ \A c \in Scodecs : chip[c] \in ChipType
  BY DEF TypeOK, ChipType
<1>3. CASE Insert \/ Pull
  <2>1. PICK c \in Scodecs, plug \in Plugs[board] \union {Nothing} : Move(c, plug)
    BY <1>3 DEF Insert, Pull
  <2>2. /\ Sense(c, IF plug = Nothing THEN "unplug" ELSE "trans") /\ UNCHANGED board
        /\ jack' = [jack EXCEPT ![c] = plug]
    BY <2>1 DEF Move
  <2>3. jack'[c] = plug /\ \A d \in Scodecs : d # c => jack'[d] = jack[d]
    BY <2>2 DEF TypeOK
  <2>4. QED
    BY <2>2, <2>3, SeatSense
<1>4. ASSUME NEW c \in Scodecs, Debounced(c) PROVE SeatInv'
  BY <1>4, SeatSense DEF Debounced, SeatInv
<1>5. ASSUME NEW c \in Scodecs, AutoDone(c) PROVE SeatInv'
  <2>1. PICK type :
          Become([chip EXCEPT ![c] =
                   [@ EXCEPT !.hsRun = FALSE, !.hsLatch = TRUE, !.hsType = type]])
    BY <1>5 DEF AutoDone
  <2>2. Become([chip EXCEPT ![c] =
          [chip[c] EXCEPT !.hsRun = FALSE, !.hsLatch = TRUE, !.hsType = type]])
    BY <2>1 DEF TypeOK
  <2>3. [chip[c] EXCEPT !.hsRun = FALSE, !.hsLatch = TRUE, !.hsType = type].ts = chip[c].ts
    BY <1>2 DEF ChipType
  <2>4. QED
    BY <1>5, <2>2, <2>3, SeatAccess DEF AutoDone
\* The accesses of the handler and of the init.
<1>6. ASSUME NEW c \in Scodecs, NEW x, x.ts = chip[c].ts, UNCHANGED <<board, jack>>,
             KeepChips \/ Become([chip EXCEPT ![c] = x])
      PROVE  SeatInv'
  BY <1>1, <1>6, SeatAccess DEF KeepChips
<1>7. CASE HandlerStep
  <2>1. UNCHANGED <<board, jack>>
    BY <1>7 DEF HandlerStep, TakeResponse, ReadDone, ReadTip, HandlerDetects, StopDetect,
                ManualHsDet, Judge, UnmaskTip, Report, KeepCore
  <2>2. KeepChips \/ UNCHANGED chip \/
        \E x \in {DoneRead(chip[hdl.c]), TipRead(chip[hdl.c]), DetectMasked(chip[hdl.c]),
                  DetectStarted(chip[hdl.c]), [chip[hdl.c] EXCEPT !.hsRun = FALSE],
                  [chip[hdl.c] EXCEPT !.hsMask = TRUE, !.hsRun = FALSE],
                  [chip[hdl.c] EXCEPT !.tsMask = FALSE]} :
          Become([chip EXCEPT ![hdl.c] = x])
    <3>1. CASE TakeResponse \/ ReadDone \/ ReadTip
      BY <3>1 DEF TakeResponse, ReadDone, ReadTip, Change, KeepChips
    <3>2. CASE HandlerDetects \/ StopDetect \/ ManualHsDet
      BY <3>2 DEF HandlerDetects, StopDetect, ManualHsDet, Change, KeepChips
    <3>3. CASE Judge \/ UnmaskTip \/ Report
      BY <3>3 DEF Judge, UnmaskTip, Report, Change, KeepChips
    <3>4. QED
      BY <1>7, <3>1, <3>2, <3>3 DEF HandlerStep
  <2>3. /\ [chip[hdl.c] EXCEPT !.hsMask = TRUE, !.hsRun = FALSE].ts = chip[hdl.c].ts
        /\ [chip[hdl.c] EXCEPT !.hsRun = FALSE].ts = chip[hdl.c].ts
        /\ [chip[hdl.c] EXCEPT !.tsMask = FALSE].ts = chip[hdl.c].ts
    BY <1>2 DEF ChipType
  <2>4. /\ DoneRead(chip[hdl.c]).ts = chip[hdl.c].ts
        /\ TipRead(chip[hdl.c]).ts = chip[hdl.c].ts
        /\ DetectMasked(chip[hdl.c]).ts = chip[hdl.c].ts
        /\ DetectStarted(chip[hdl.c]).ts = chip[hdl.c].ts
    BY <1>2, AccessFields
  <2>5. CASE KeepChips \/ UNCHANGED chip
    BY <1>1, <2>1, <2>5 DEF KeepChips
  <2>6. CASE ~(KeepChips \/ UNCHANGED chip)
    BY <1>2, <1>6, <2>1, <2>2, <2>3, <2>4, <2>6
  <2>7. QED
    BY <2>5, <2>6
<1>8. CASE RuntimeSuspend \/ SystemSleep \/ Register \/ PutStart
  BY <1>1, <1>8 DEF RuntimeSuspend, SystemSleep, Register, PutStart, KeepChips, KeepUser
<1>9. CASE Resume \/ ResetCodec \/ SetGpio \/ OutOfReset \/ PutWrite
  BY <1>9, SeatDrive DEF Resume, ResetCodec, SetGpio, OutOfReset, PutWrite, KeepPm, KeepUser
<1>10. CASE DownCodec \/ BringCodec \/ EnableUr \/ BuildControls \/ SyncJacks
  BY <1>1, <1>10 DEF DownCodec, BringCodec, EnableUr, BuildControls, SyncJacks, KeepChips, KeepPm
<1>11. CASE EnableDetect \/ RunDetect \/ StartDetect
  <2>1. UNCHANGED <<board, jack>>
    BY <1>11 DEF EnableDetect, RunDetect, StartDetect, KeepPm
  <2>2. KeepChips \/
        \E x \in {[StatusRead(chip[pm.c]) EXCEPT !.tsMask = FALSE], DetectMasked(chip[pm.c]),
                  DetectStarted(chip[pm.c])} :
          Become([chip EXCEPT ![pm.c] = x])
    BY <1>2, <1>11 DEF EnableDetect, RunDetect, StartDetect, TypeOK
  <2>3. [StatusRead(chip[pm.c]) EXCEPT !.tsMask = FALSE].ts = chip[pm.c].ts
    BY <1>2 DEF ChipType, DoneRead, TipRead, StatusRead
  <2>4. /\ DetectMasked(chip[pm.c]).ts = chip[pm.c].ts
        /\ DetectStarted(chip[pm.c]).ts = chip[pm.c].ts
    BY <1>2, AccessFields
  <2>5. QED
    BY <1>2, <1>6, <2>1, <2>2, <2>3, <2>4
<1>12. CASE UNCHANGED vars
  BY <1>1, <1>12 DEF vars
<1>13. QED
  BY <1>3, <1>4, <1>5, <1>7, <1>8, <1>9, <1>10, <1>11, <1>12 DEF Next, PmStep

\* The init goes from chip to chip, and lets responses in when it is through.
LEMMA AwakeNext == TypeOK /\ PmInv /\ AwakeInv /\ [Next]_vars => AwakeInv'
<1> SUFFICES ASSUME TypeOK, PmInv, AwakeInv, [Next]_vars PROVE AwakeInv'
  OBVIOUS
<1> USE DEF AwakeInv, Started, Up, core, drv, wires, user, KeepPm, SuspendBegins, Done, Step
<1>1. UNCHANGED <<board, ur, powerOn, rpm, suspended, pm>> => AwakeInv'
  BY DEF Scodecs
<1>2. CASE Insert \/ Pull \/ (\E c \in Scodecs : Debounced(c) \/ AutoDone(c)) \/ HandlerStep
  BY <1>1, <1>2, Frame
<1>3. CASE PutStart \/ PutWrite \/ UNCHANGED vars
  BY <1>1, <1>3 DEF PutStart, PutWrite, KeepUser, Drive, Become, KeepChips, vars
<1>4. CASE RuntimeSuspend \/ SystemSleep \/ Resume \/ PmStep \/ Register
  <2>1. UNCHANGED board /\ UNCHANGED Scodecs /\ UNCHANGED Last
    BY <1>4, PmType DEF Scodecs, Last
  <2>2. /\ pm.c \in Scodecs /\ Scodecs \subseteq {0, 1} /\ \A c \in Scodecs : c <= Last
        /\ suspended \in [Scodecs -> BOOLEAN]
    BY ChipNumbers DEF TypeOK
  <2>3. CASE Register
    BY <1>1, <2>1, <2>3 DEF Register
  <2>4. CASE RuntimeSuspend \/ SystemSleep
    BY <1>1, <2>1, <2>4 DEF RuntimeSuspend, SystemSleep, PmInv, TypeOK
  <2>5. CASE Resume \/ DownCodec \/ ResetCodec
    BY <2>1, <2>5 DEF Resume, DownCodec, ResetCodec, PmInv
  <2>6. CASE SetGpio
    <3>1. pm' = [pc |-> "bring", c |-> 0] /\ \A c \in Scodecs : ~(c < 0)
      BY <2>2, <2>6 DEF SetGpio
    <3>2. QED
      BY <2>1, <3>1
  <2>7. CASE BringCodec
    BY <2>1, <2>7 DEF BringCodec, PmInv
  <2>8. CASE OutOfReset
    <3>1. /\ pm.pc = "out" /\ pm' = [pc |-> "enable", c |-> pm.c]
          /\ suspended' = [suspended EXCEPT ![pm.c] = FALSE]
      BY <2>8 DEF OutOfReset
    <3>2. \A c \in Scodecs : c <= pm.c => c < pm.c \/ c = pm.c
      BY <2>2, Order
    <3>3. \A c \in Scodecs : c <= pm.c => ~suspended'[c]
      BY <2>2, <3>1, <3>2
    <3>4. QED
      BY <2>1, <3>1, <3>3
  <2>9. CASE EnableDetect
    <3>1. /\ pm.pc = "enable" /\ rpm = "suspended" /\ UNCHANGED <<rpm, suspended>> /\ powerOn'
      BY <2>9 DEF EnableDetect, PmInv
    <3>2. CASE pm.c = Last
      BY <2>1, <2>2, <2>9, <3>1, <3>2 DEF EnableDetect
    <3>3. CASE pm.c # Last
      <4>1. pm' = [pc |-> "bring", c |-> pm.c + 1]
        BY <2>9, <3>3 DEF EnableDetect
      <4>2. \A c \in Scodecs : c < pm.c + 1 => c <= pm.c
        BY <2>2, Order
      <4>3. QED
        BY <2>1, <3>1, <4>1, <4>2
    <3>4. QED
      BY <3>2, <3>3
  <2>10. CASE EnableUr \/ BuildControls
    BY <2>1, <2>10 DEF EnableUr, BuildControls, PmInv
  <2>11. CASE RunDetect \/ StartDetect
    <3>1. /\ pm.pc \in {"detect", "start"} /\ pm'.pc \in {"detect", "start", "sync"}
          /\ UNCHANGED <<ur, powerOn, rpm, suspended>>
      BY <2>11 DEF RunDetect, StartDetect, NextCodec
    <3>2. QED
      BY <2>1, <3>1
  <2>12. CASE SyncJacks
    BY <2>1, <2>12 DEF SyncJacks
  <2>13. QED
    BY <1>4, <2>3, <2>4, <2>5, <2>6, <2>7, <2>8, <2>9, <2>10, <2>11, <2>12 DEF PmStep
<1>5. QED
  BY <1>2, <1>3, <1>4 DEF Next

-----------------------------------------------------------------------------
(* What is known stays known: the world.                                    *)

\* A jack moved or at rest is news, and one moved in a detection is noted.
LEMMA SenseKeeps ==
  ASSUME TypeOK, NEW c \in Scodecs, UNCHANGED <<hdl, believed>>,
         chip'[c].tsLatch, chip'[c].tsMask = chip[c].tsMask,
         chip'[c].hsLatch = chip[c].hsLatch, chip'[c].hsMask = chip[c].hsMask,
         chip'[c].hsRun = chip[c].hsRun, chip'[c].hsType = chip[c].hsType,
         jack'[c] = jack[c] \/ ~Deaf(c)
  PROVE  /\ Handled(c) => Handled(c)'
         /\ hdl.pc = "idle" /\ Detecting(c) => Detecting(c)'
         /\ hdl.pc = "idle" /\ Off(c) /\ ~chip[c].hsMask => Off(c)' /\ ~chip'[c].hsMask
<1>1. Unread(c)' /\ Right(c)' /\ Result(c)' /\ (Off(c)' <=> Off(c))
  BY DEF Unread, Right, Result, Off
<1>2. /\ Watching(c) => Watching(c)'
      /\ Detecting(c) /\ ~(hdl.pc = "stop" /\ hdl.c = c) => Detecting(c)'
  BY <1>1 DEF Watching, Detecting, Deaf
<1>3. ASSUME Handled(c) PROVE Handled(c)'
  <2>1. CASE AtChip(c, "tip")
    <3>1. hdl.done = "yes" /\ Off(c) /\ ~chip[c].hsMask => jack'[c] = jack[c]
      BY <2>1 DEF Deaf, Off, AtChip
    <3>2. QED
      BY <1>1, <1>2, <1>3, <2>1, <3>1 DEF Handled, AtChip, NoTypeDect
  <2>2. CASE ~AtChip(c, "tip")
    BY <1>1, <1>2, <1>3, <2>2 DEF Handled, AtChip, NoTypeDect
  <2>3. QED
    BY <2>1, <2>2
<1>4. QED
  BY <1>1, <1>2, <1>3

\* What a detection finds is the jack or nothing.
LEMMA AutoKeeps ==
  ASSUME TypeOK, NEW c \in Scodecs, UNCHANGED <<hdl, believed>>, jack'[c] = jack[c],
         chip[c].hsRun, ~chip'[c].hsRun, chip'[c].hsLatch,
         chip'[c].tsMask = chip[c].tsMask, chip'[c].hsMask = chip[c].hsMask,
         chip'[c].hsType \in {"INVALID", jack[c]}
  PROVE  /\ Handled(c) => Handled(c)'
         /\ Detecting(c) => Detecting(c)'
         /\ ~Off(c)
<1>1. ~Watching(c) /\ ~Off(c) /\ (Detecting(c) => Detecting(c)')
  BY DEF Watching, Detecting, Off
<1>2. Handled(c) => Handled(c)'
  BY <1>1 DEF Handled, AtChip
<1>3. QED
  BY <1>1, <1>2

\* A step of one chip, by itself.
LEMMA ChipAlone ==
  ASSUME BaseInv, Noted, spoiled' = {}, Up \/ pm.pc \in {"detect", "start", "sync"},
         NEW c \in Scodecs, Insert \/ Pull \/ Debounced(c) \/ AutoDone(c),
         Insert \/ Pull => jack'[c] # jack[c]
  PROVE  /\ Handled(c) => Handled(c)'
         /\ hdl.pc = "idle" /\ Detecting(c) => Detecting(c)'
         /\ hdl.pc = "idle" /\ Off(c) /\ ~chip[c].hsMask => Off(c)' /\ ~chip'[c].hsMask
         /\ chip'[c].tsMask = chip[c].tsMask
         /\ \A d \in Scodecs : d # c => chip'[d] = chip[d] /\ jack'[d] = jack[d]
         /\ \E chips : Become(chips)
<1>1. /\ TypeOK /\ chip \in [Scodecs -> ChipType] /\ UNCHANGED <<board, hdl, believed>>
      /\ jack \in [Scodecs -> Plugs[board] \union {Nothing}]
  BY Frame, WorldType DEF BaseInv, TypeOK, ChipType
<1>2. ~InReset(c)
  BY DEF BaseInv, AwakeInv, Started, WireInv, ResetInv, InReset
<1>3. CASE Insert \/ Pull
  <2>1. PICK b \in Scodecs, plug \in Plugs[board] \union {Nothing} : Move(b, plug)
    BY <1>3 DEF Insert, Pull
  <2>2. b = c /\ \A d \in Scodecs : d # c => jack'[d] = jack[d]
    BY <1>1, <1>3, <2>1 DEF Move
  <2>3. PICK s : Sense(c, s)
    BY <2>1, <2>2 DEF Move
  <2>4. chip' = [chip EXCEPT ![c] = [@ EXCEPT !.ts = s, !.tsLatch = @ \/ ~InReset(c)]]
    BY <2>3 DEF Sense, Become
  <2>5. /\ chip'[c].tsLatch /\ chip'[c].tsMask = chip[c].tsMask
        /\ chip'[c].hsLatch = chip[c].hsLatch /\ chip'[c].hsMask = chip[c].hsMask
        /\ chip'[c].hsRun = chip[c].hsRun /\ chip'[c].hsType = chip[c].hsType
        /\ \A d \in Scodecs : d # c => chip'[d] = chip[d]
    BY <1>1, <1>2, <2>4 DEF ChipType
  <2>6. ~Deaf(c)
    BY <1>3, NoSpoil
  <2>7. QED
    BY <1>1, <2>2, <2>3, <2>5, <2>6, SenseKeeps DEF Sense
<1>4. CASE Debounced(c)
  <2>1. Sense(c, "plug") /\ UNCHANGED jack
    BY <1>4 DEF Debounced
  <2>2. chip' = [chip EXCEPT ![c] = [@ EXCEPT !.ts = "plug", !.tsLatch = @ \/ ~InReset(c)]]
    BY <2>1 DEF Sense, Become
  <2>3. /\ chip'[c].tsLatch /\ chip'[c].tsMask = chip[c].tsMask
        /\ chip'[c].hsLatch = chip[c].hsLatch /\ chip'[c].hsMask = chip[c].hsMask
        /\ chip'[c].hsRun = chip[c].hsRun /\ chip'[c].hsType = chip[c].hsType
        /\ \A d \in Scodecs : d # c => chip'[d] = chip[d]
    BY <1>1, <1>2, <2>2 DEF ChipType
  <2>4. QED
    BY <1>1, <2>1, <2>3, SenseKeeps DEF Sense
<1>5. CASE AutoDone(c)
  <2>1. PICK type \in AutoTypes(c) :
          Become([chip EXCEPT ![c] =
                   [@ EXCEPT !.hsRun = FALSE, !.hsLatch = TRUE, !.hsType = type]])
    BY <1>5 DEF AutoDone
  <2>2. /\ chip' = [chip EXCEPT ![c] =
                     [@ EXCEPT !.hsRun = FALSE, !.hsLatch = TRUE, !.hsType = type]]
        /\ UNCHANGED jack /\ chip[c].hsRun
    BY <1>5, <2>1 DEF AutoDone, Become
  <2>3. type \in {"INVALID", jack[c]}
    BY DEF AutoTypes
  <2>4. /\ ~chip'[c].hsRun /\ chip'[c].hsLatch /\ chip'[c].hsType = type
        /\ chip'[c].tsMask = chip[c].tsMask /\ chip'[c].hsMask = chip[c].hsMask
        /\ \A d \in Scodecs : d # c => chip'[d] = chip[d]
    BY <1>1, <2>2 DEF ChipType
  <2>5. QED
    BY <1>1, <2>1, <2>2, <2>3, <2>4, AutoKeeps
<1>6. QED
  BY <1>3, <1>4, <1>5

\* A jack moved, the tip at rest, a detection done.
LEMMA KnownWorld ==
  ASSUME BaseInv, KnownInv, Noted,
         Insert \/ Pull \/ (\E c \in Scodecs : Debounced(c) \/ AutoDone(c))
  PROVE  KnownInv'
<1> SUFFICES ASSUME spoiled' = {} PROVE KnownInv'
  BY DEF KnownInv
<1>1. /\ UNCHANGED <<board, ur, rpm, pm, hdl, believed>> /\ Scodecs' = Scodecs
      /\ (Up' <=> Up)
  BY Frame, WorldType DEF core, Scodecs, Up, BaseInv
<1>2. CASE ~(Up \/ pm.pc \in {"detect", "start", "sync"})
  BY <1>1, <1>2 DEF KnownInv
<1>3. CASE Up \/ pm.pc \in {"detect", "start", "sync"}
  <2>1. spoiled = {} /\ ur
    BY <1>3, NoSpoil DEF BaseInv, PmInv, AwakeInv, Started, Up
  <2>2. PICK c \in Scodecs : /\ Insert \/ Pull \/ Debounced(c) \/ AutoDone(c)
                             /\ Insert \/ Pull => jack'[c] # jack[c]
    <3>1. CASE Insert \/ Pull
      <4>1. \E b \in Scodecs : jack'[b] # jack[b]
        <5>1. jack \in [Scodecs -> Plugs[board] \union {Nothing}] /\ Nothing \notin Plugs[board]
          BY JackAssumption DEF BaseInv, TypeOK, PlugTypes, Nothing
        <5>2. PICK b \in Scodecs, plug \in Plugs[board] \union {Nothing} :
                Move(b, plug) /\ jack[b] # plug
          BY <3>1, <5>1 DEF Insert, Pull
        <5>3. jack'[b] = plug
          BY <5>1, <5>2 DEF Move
        <5>4. QED
          BY <5>2, <5>3
      <4>2. QED
        BY <3>1, <4>1
    <3>2. QED
      BY <3>1
  <2>3. /\ Handled(c) => Handled(c)'
        /\ hdl.pc = "idle" /\ Detecting(c) => Detecting(c)'
        /\ hdl.pc = "idle" /\ Off(c) /\ ~chip[c].hsMask => Off(c)' /\ ~chip'[c].hsMask
        /\ chip'[c].tsMask = chip[c].tsMask
        /\ \A d \in Scodecs : d # c => chip'[d] = chip[d] /\ jack'[d] = jack[d]
        /\ \E chips : Become(chips)
    BY <1>3, <2>2, ChipAlone
  <2>4. \A d \in Scodecs : d # c =>
          /\ (Handled(d)' <=> Handled(d)) /\ (Detecting(d)' <=> Detecting(d))
          /\ (Off(d)' <=> Off(d)) /\ chip'[d] = chip[d]
    BY <1>1, <2>3, ChipSame
  <2>5. \A d \in Scodecs : Heard(d) => Heard(d)'
    <3>1. \A d \in Scodecs : Promised(d)' <=> Promised(d)
      BY <1>1, <2>3 DEF Promised, AtChip
    <3>2. QED
      BY <1>1, <2>1, <2>3, <3>1, BecomeHeard DEF Heard
  <2>6. pm.pc # "idle" => hdl.pc = "idle"
    BY <2>1 DEF BaseInv, ToldInv
  <2>7. pm.c \in Scodecs
    BY DEF BaseInv, TypeOK
  <2>8. \A d \in Scodecs :
          /\ Handled(d) => Handled(d)'
          /\ pm.pc # "idle" /\ Detecting(d) => Detecting(d)'
          /\ pm.pc # "idle" /\ Off(d) /\ ~chip[d].hsMask => Off(d)' /\ ~chip'[d].hsMask
    BY <2>3, <2>4, <2>6
  <2>9. QED
    BY <1>1, <2>1, <2>5, <2>7, <2>8 DEF KnownInv
<1>4. QED
  BY <1>2, <1>3

-----------------------------------------------------------------------------
(* What is known stays known: the handler.                                  *)

\* The chips a handler is sent on to are promised a look.
LEMMA VisitPromised ==
  ASSUME TypeOK, NEW chips \in SUBSET Scodecs, Visit(chips)
  PROVE  /\ hdl'.pc \in {"idle", "look"} /\ (chips # {} => hdl'.pc = "look")
         /\ \A c \in chips : Promised(c)'
<1>1. CASE chips = {}
  BY <1>1 DEF Visit, HdlIdle
<1>2. CASE chips # {}
  <2>1. PICK c \in chips :
          hdl' = [HdlIdle EXCEPT !.pc = "look", !.c = c, !.todo = chips \ {c}]
    BY <1>2, ChipNumbers DEF Visit
  <2>2. hdl'.pc = "look" /\ hdl'.c = c /\ hdl'.todo = chips \ {c}
    BY <2>1 DEF HdlIdle
  <2>3. QED
    BY <2>2 DEF Promised, AtChip
<1>3. QED
  BY <1>1, <1>2

\* At rest between chips.
LEMMA RestHandled ==
  ASSUME NEW c, hdl'.c # c \/ hdl'.pc \in {"idle", "look", "report"},
         Watching(c)' \/ Detecting(c)'
  PROVE  Handled(c)'
BY DEF Handled, AtChip

\* A response taken in use.
LEMMA KnownTake ==
  ASSUME BaseInv, KnownInv, Noted, spoiled' = {}, spoiled = {}, Up, TakeResponse
  PROVE  \A c \in Scodecs : Handled(c)' /\ Heard(c)'
<1>1. PICK lows \in responses :
        /\ responses' = responses \ {lows}
        /\ Visit(IF registered /\ powerOn THEN lows ELSE {})
  BY DEF TakeResponse
<1>2. /\ hdl.pc = "idle" /\ UNCHANGED <<board, jack, chip, believed>>
      /\ lows \in SUBSET Scodecs
  BY DEF TakeResponse, KeepCore, BaseInv, TypeOK
<1>3. registered /\ powerOn
  BY <1>1, NoSpoil DEF BaseInv, AwakeInv
<1>4. /\ hdl'.pc \in {"idle", "look"}
      /\ \A c \in lows : Promised(c)'
  BY <1>1, <1>2, <1>3, VisitPromised DEF BaseInv
<1>5. ASSUME NEW c \in Scodecs
      PROVE  Handled(c)' /\ Heard(c)'
  <2>1. Handled(c) /\ Heard(c)
    BY DEF KnownInv
  <2>2. Watching(c)' \/ Detecting(c)'
    BY <1>2, <2>1, ChipSame DEF Handled
  <2>3. Heard(c)'
    <3>1. Low(chip'[c]) => Waiting(c)
      BY <1>2, <2>1 DEF Heard, Promised
    <3>2. QED
      BY <1>1, <1>4, <3>1 DEF Heard, Waiting
  <2>4. QED
    BY <1>4, <2>2, <2>3, RestHandled
<1>6. QED
  BY <1>5

\* A handler at work changes its chip only, and keeps its promises to the others.
LEMMA HandlerShape ==
  ASSUME TypeOK, HandlerStep, hdl.pc # "idle", ~suspended[hdl.c]
  PROVE  /\ hdl.c \in Scodecs
         /\ KeepChips \/ \E x : Become([chip EXCEPT ![hdl.c] = x])
         /\ \/ hdl'.c = hdl.c /\ hdl'.todo = hdl.todo /\ hdl'.pc # "idle"
            \/ Visit(hdl.todo)
         /\ \A d \in Scodecs : d # hdl.c => chip'[d] = chip[d] /\ believed'[d] = believed[d]
         /\ UNCHANGED <<board, jack>>
<1>1. hdl.c \in Scodecs /\ hdl \in HdlType /\ believed \in [Scodecs -> Belief]
  BY DEF TypeOK, HdlType
<1>2. UNCHANGED <<board, jack>>
  BY DEF HandlerStep, TakeResponse, ReadDone, ReadTip, HandlerDetects, StopDetect, ManualHsDet,
         Judge, UnmaskTip, Report, KeepCore
<1>3. KeepChips \/ \E x : Become([chip EXCEPT ![hdl.c] = x])
  <2>1. CASE ReadDone \/ ReadTip
    BY <1>1, <2>1 DEF ReadDone, ReadTip, Change
  <2>2. CASE HandlerDetects \/ StopDetect \/ ManualHsDet \/ UnmaskTip
    BY <1>1, <2>2 DEF HandlerDetects, StopDetect, ManualHsDet, UnmaskTip, Change
  <2>3. CASE Judge \/ Report
    BY <2>3 DEF Judge, Report
  <2>4. QED
    BY <2>1, <2>2, <2>3 DEF HandlerStep, TakeResponse
<1>4. \/ hdl'.c = hdl.c /\ hdl'.todo = hdl.todo /\ hdl'.pc # "idle"
      \/ Visit(hdl.todo)
  <2>1. \A l \in HdlStates \ {"idle"} : Goto(l) =>
          hdl'.c = hdl.c /\ hdl'.todo = hdl.todo /\ hdl'.pc # "idle"
    BY <1>1 DEF Goto, HdlType
  <2>2. CASE ReadDone
    BY <1>1, <2>2 DEF ReadDone, HdlType
  <2>3. CASE ReadTip
    BY <1>1, <2>1, <2>3 DEF ReadTip, HdlType, HdlStates
  <2>4. CASE HandlerDetects \/ StopDetect \/ UnmaskTip \/ Report
    BY <2>1, <2>4 DEF HandlerDetects, StopDetect, UnmaskTip, Report, HdlStates
  <2>6. CASE ManualHsDet \/ Judge
    BY <1>1, <2>1, <2>6 DEF ManualHsDet, Judge, HdlType, HdlStates
  <2>5. QED
    BY <2>2, <2>3, <2>4, <2>6 DEF HandlerStep, TakeResponse
<1>5. ASSUME NEW d \in Scodecs, d # hdl.c
      PROVE  chip'[d] = chip[d] /\ believed'[d] = believed[d]
  <2>1. chip'[d] = chip[d]
    <3>1. CASE KeepChips
      BY <3>1 DEF KeepChips
    <3>2. CASE ~KeepChips
      <4>1. PICK x : Become([chip EXCEPT ![hdl.c] = x])
        BY <1>3, <3>2
      <4>2. QED
        BY <1>1, <1>5, <4>1, OneChip
    <3>3. QED
      BY <3>1, <3>2
  <2>2. believed'[d] = believed[d]
    BY <1>1, <1>5 DEF HandlerStep, TakeResponse, ReadDone, ReadTip, HandlerDetects, StopDetect,
                      ManualHsDet, Judge, UnmaskTip, Report
  <2>3. QED
    BY <2>1, <2>2
<1>6. QED
  BY <1>1, <1>2, <1>3, <1>4, <1>5

\* What the tip alone tells.
LEMMA TipRight ==
  ASSUME TypeOK, SeatInv, NEW c \in Scodecs, chip[c].ts # "trans",
         chip[c].ts = "unplug" \/ NoTypeDect(c)
  PROVE  TipBelief(c, chip[c].ts) = Due(c)
BY DEF TypeOK, SeatInv, TipBelief, Due, NoTypeDect

\* What is read by hand from a plug that sits: the two thresholds tell the types apart,
\* whether or not the first comparator is fooled.
LEMMA ManualRight ==
  ASSUME TypeOK, NEW c \in Scodecs, ~suspended[c], chip[c].ts # "trans", ~NoTypeDect(c),
         hdl.c = c, hdl.pc = "second", ManualHsDet,
         NEW w \in BOOLEAN, hdl.first = Seated(jack[c], 1, w)
  PROVE  (IF hdl'.type = "INVALID" THEN Nothing ELSE hdl'.type) = Due(c)
<1>1. PICK weak \in BOOLEAN :
        /\ 1 \in hdl.first <=> weak \/ 2 \in hdl.first
        /\ \E two \in Comparators(c, 2, weak) :
             LET Comp(k) == (IF k \in hdl.first THEN 1 ELSE 0) + (IF k \in two THEN 2 ELSE 0)
             IN hdl' = [hdl EXCEPT !.pc = "judge", !.first = {},
                                   !.type = HsType(Comp(1), Comp(2))]
  BY DEF ManualHsDet
<1> DEFINE one == Seated(jack[c], 1, w)
           two == Seated(jack[c], 2, weak)
           p == (IF 1 \in one THEN 1 ELSE 0) + (IF 1 \in two THEN 2 ELSE 0)
           q == (IF 2 \in one THEN 1 ELSE 0) + (IF 2 \in two THEN 2 ELSE 0)
<1>2. hdl' = [hdl EXCEPT !.pc = "judge", !.first = {}, !.type = HsType(p, q)]
  BY <1>1 DEF Comparators
<1>3. hdl'.type = HsType(p, q)
  BY <1>2 DEF TypeOK
<1>10. 1 \in one <=> weak \/ 2 \in one
  BY <1>1
<1> USE DEF Seated
<1>4. jack[c] \in PlugTypes \union {Nothing} /\ Due(c) = jack[c]
  BY JackAssumption DEF TypeOK, Due
<1>5. CASE jack[c] = Nothing
  <2>1. p = 3 /\ q = 3
    BY <1>5 DEF Level
  <2>2. QED
    BY <1>3, <1>4, <1>5, <2>1 DEF HsType
<1>6. CASE jack[c] = "CTIA"
  <2>1. p \in {1, 3} /\ q = 1
    BY <1>6 DEF Level, Nothing
  <2>2. QED
    BY <1>3, <1>4, <1>6, <2>1 DEF HsType
<1>7. CASE jack[c] = "OMTP"
  <2>1. p \in {2, 3} /\ q = 2
    BY <1>7 DEF Level, Nothing
  <2>2. QED
    BY <1>3, <1>4, <1>7, <2>1 DEF HsType
<1>8. CASE jack[c] = "HEADPHONE"
  <2>1. 2 \notin one /\ 2 \notin two /\ (1 \in one <=> w) /\ (1 \in two <=> weak)
    BY <1>8 DEF Level, Nothing
  <2>3. p \in {0, 3} /\ q = 0
    BY <1>10, <2>1
  <2>2. QED
    BY <1>3, <1>4, <1>8, <2>3 DEF HsType
<1>9. QED
  BY <1>4, <1>5, <1>6, <1>7, <1>8 DEF PlugTypes

\* The read of CODEC_STATUS: a detection done has found the jack or nothing.
LEMMA KnownDone ==
  ASSUME TypeOK, NEW c \in Scodecs, hdl.c = c, ~suspended[c], Handled(c), ReadDone
  PROVE  Handled(c)' /\ (Low(chip'[c]) => Promised(c)')
<1>1. /\ hdl.pc = "look" /\ UNCHANGED <<board, jack, believed>> /\ chip[c] \in ChipType
      /\ hdl \in HdlType
  BY DEF ReadDone, KeepCore, TypeOK, ChipType, HdlType
<1>2. /\ Become([chip EXCEPT ![c] = DoneRead(chip[c])])
      /\ hdl' = [hdl EXCEPT !.pc = "tip", !.done = IF chip[c].hsLatch THEN "yes" ELSE "no",
                            !.type = IF NoTypeDect(c) THEN @ ELSE chip[c].hsType]
  BY DEF ReadDone
<1>3. chip'[c] = DoneRead(chip[c])
  BY <1>2, OneChip
<1>4. /\ chip'[c].ts = chip[c].ts /\ chip'[c].tsMask = chip[c].tsMask
      /\ chip'[c].hsMask = chip[c].hsMask /\ chip'[c].hsRun = chip[c].hsRun
      /\ chip'[c].tsLatch = chip[c].tsLatch /\ ~chip'[c].hsLatch
  BY <1>1, <1>3, AccessFields
<1>5. /\ hdl'.pc = "tip" /\ hdl'.c = c
      /\ hdl'.done = (IF chip[c].hsLatch THEN "yes" ELSE "no")
      /\ ~NoTypeDect(c) => hdl'.type = chip[c].hsType
  BY <1>1, <1>2 DEF HdlType
<1>6. Watching(c) \/ Detecting(c)
  BY <1>1 DEF Handled
<1>7. Low(chip'[c]) => Promised(c)'
  BY <1>4, <1>5 DEF Low, Promised, AtChip
<1>8. CASE chip[c].hsLatch
  <2>1. Detecting(c)
    BY <1>6, <1>8 DEF Watching
  <2>2. Off(c)' /\ ~chip'[c].hsMask
    BY <1>4, <1>8, <2>1 DEF Off, Detecting
  <2>3. ~NoTypeDect(c) => hdl'.type \in {"INVALID", jack[c]}
    BY <1>5, <1>8, <2>1 DEF Detecting
  <2>4. QED
    BY <1>1, <1>5, <1>7, <1>8, <2>2, <2>3 DEF Handled, AtChip, NoTypeDect
<1>9. CASE ~chip[c].hsLatch
  <2>1. Watching(c) => Watching(c)'
    BY <1>1, <1>4, <1>9 DEF Watching, Right, Unread, Due, NoTypeDect
  <2>2. Detecting(c) => Detecting(c)'
    BY <1>4, <1>9 DEF Detecting
  <2>3. QED
    BY <1>5, <1>6, <1>7, <1>9, <2>1, <2>2 DEF Handled, AtChip
<1>10. QED
  BY <1>8, <1>9

\* The read of the tip sense: what it tells, and what it leaves of a low line.
LEMMA KnownTip ==
  ASSUME TypeOK, SeatInv, NEW c \in Scodecs, hdl.c = c, ~suspended[c], Handled(c), ReadTip
  PROVE  Handled(c)' /\ (Low(chip'[c]) => Low(chip[c]) /\ chip[c].tsMask)
<1>1. /\ hdl.pc = "tip" /\ UNCHANGED <<board, jack>> /\ chip[c] \in ChipType
      /\ hdl \in HdlType /\ hdl.todo \in SUBSET Scodecs /\ believed \in [Scodecs -> Belief]
  BY DEF ReadTip, KeepCore, TypeOK, ChipType, HdlType
<1>2. chip'[c] = TipRead(chip[c])
  BY OneChip DEF ReadTip, Change
<1>3. /\ chip'[c].ts = chip[c].ts /\ chip'[c].tsMask = chip[c].tsMask
      /\ chip'[c].hsMask = chip[c].hsMask /\ chip'[c].hsRun = chip[c].hsRun
      /\ ~chip'[c].tsLatch /\ chip'[c].hsLatch = chip[c].hsLatch
      /\ chip'[c].hsType = chip[c].hsType
  BY <1>1, <1>2, AccessFields
<1>4. \/ hdl.done = "no" /\ (Watching(c) \/ Detecting(c))
      \/ /\ hdl.done = "yes" /\ Off(c) /\ ~chip[c].hsMask
         /\ ~NoTypeDect(c) => hdl.type \in {"INVALID", jack[c]}
  BY <1>1 DEF Handled, AtChip
<1>5. Low(chip'[c]) => Low(chip[c]) /\ chip[c].tsMask
  BY <1>3, <1>4 DEF Low, Watching, Detecting, Off
<1>6. Due(c)' = Due(c) /\ (NoTypeDect(c)' <=> NoTypeDect(c))
  BY <1>1 DEF Due, NoTypeDect
<1>7. CASE hdl.done = "yes"
  <2>1. Off(c)'
    BY <1>3, <1>4, <1>7 DEF Off
  <2>2. /\ hdl'.c = c /\ hdl'.pc = "stop" /\ UNCHANGED believed
        /\ hdl'.type = hdl.type /\ (NoTypeDect(c) => hdl'.tip = chip[c].ts)
    BY <1>1, <1>7 DEF ReadTip, HdlType
  <2>3. CASE NoTypeDect(c)
    <3>1. Result(c)'
      <4>1. CASE chip[c].ts = "trans"
        BY <1>3, <4>1 DEF Unread, Result
      <4>2. CASE chip[c].ts # "trans"
        <5>1. TipBelief(c, hdl'.tip) = Due(c)
          BY <2>2, <2>3, <4>2, TipRight
        <5>2. TipBelief(c, hdl.tip)' = TipBelief(c, hdl'.tip)
          BY <1>6, <2>2 DEF TipBelief
        <5>3. QED
          BY <1>6, <2>3, <5>1, <5>2 DEF Result
      <4>3. QED
        BY <4>1, <4>2
    <3>2. QED
      BY <1>5, <2>1, <2>2, <3>1 DEF Handled, AtChip
  <2>4. CASE ~NoTypeDect(c)
    <3>1. hdl'.type \in {"INVALID", jack[c]}
      BY <1>4, <1>7, <2>2, <2>4
    <3>2. hdl'.type = jack[c] /\ hdl'.type # "INVALID" => Result(c)'
      BY <1>1, <1>6, <2>4 DEF Result, Due, NoTypeDect
    <3>3. QED
      BY <1>5, <1>6, <2>1, <2>2, <2>4, <3>1, <3>2 DEF Handled, AtChip
  <2>5. QED
    BY <2>3, <2>4
<1>8. CASE hdl.done = "no"
  <2>1. /\ believed'[c] = TipBelief(c, chip[c].ts)
        /\ IF TipChanged(c, chip[c].ts) THEN Goto("report")
           ELSE IF chip[c].ts = "plug" THEN Goto("detect") ELSE Visit(hdl.todo)
    BY <1>1, <1>8 DEF ReadTip
  <2>2. Detecting(c) => Detecting(c)'
    BY <1>1, <1>3 DEF Detecting
  <2>3. CASE ~TipChanged(c, chip[c].ts) /\ chip[c].ts = "plug"
    <3>1. hdl'.pc = "detect" /\ hdl'.c = c
      BY <1>1, <2>1, <2>3 DEF Goto, HdlType
    <3>2. QED
      BY <1>5, <3>1 DEF Handled, AtChip
  <2>4. CASE TipChanged(c, chip[c].ts) \/ chip[c].ts # "plug"
    <3>1. hdl'.pc \in {"idle", "look", "report"}
      BY <1>1, <2>1, <2>4, VisitPromised DEF Goto, HdlType
    <3>2. Right(c)'
      <4>1. CASE chip[c].ts = "trans"
        BY <1>3, <4>1 DEF Right, Unread
      <4>2. CASE chip[c].ts # "trans"
        <5>1. chip[c].ts = "unplug" \/ NoTypeDect(c)
          BY <1>1, <2>4, <4>2 DEF TipChanged, ChipType
        <5>2. believed'[c] = Due(c)
          BY <2>1, <4>2, <5>1, TipRight
        <5>3. QED
          BY <1>6, <5>2 DEF Right
      <4>3. QED
        BY <4>1, <4>2
    <3>3. Watching(c) => Watching(c)'
      BY <1>3, <3>2 DEF Watching
    <3>4. QED
      BY <1>4, <1>5, <1>8, <2>2, <3>1, <3>3, RestHandled
  <2>5. QED
    BY <1>5, <2>3, <2>4
<1>9. QED
  BY <1>4, <1>7, <1>8

-----------------------------------------------------------------------------

\* A detection from its start to the tip unmasked, on the chip the handler is at.
LEMMA KnownSelf ==
  ASSUME TypeOK, SeatInv, NEW c \in Scodecs, hdl.c = c, ~suspended[c], Handled(c),
         HandlerDetects \/ StopDetect \/ ManualHsDet \/ Judge \/ UnmaskTip \/ Report
  PROVE  Handled(c)'
<1>1. /\ UNCHANGED <<board, jack>> /\ chip[c] \in ChipType /\ hdl \in HdlType
      /\ hdl.todo \in SUBSET Scodecs /\ believed \in [Scodecs -> Belief]
  BY DEF HandlerDetects, StopDetect, ManualHsDet, Judge, UnmaskTip, Report, KeepCore,
         TypeOK, ChipType, HdlType
<1>2. Due(c)' = Due(c) /\ (NoTypeDect(c)' <=> NoTypeDect(c))
  BY <1>1 DEF Due, NoTypeDect
<1>3. Visit(hdl.todo) => hdl'.pc \in {"idle", "look"}
  BY <1>1, VisitPromised
<1>4. \A l : Goto(l) => /\ hdl'.pc = l /\ hdl'.c = c
                        /\ hdl'.tip = hdl.tip /\ hdl'.type = hdl.type
  BY <1>1 DEF Goto, HdlType
<1>5. CASE HandlerDetects /\ hdl.pc = "detect"
  <2>1. Become([chip EXCEPT ![c] = DetectMasked(chip[c])]) /\ Goto("start")
    BY <1>5 DEF HandlerDetects, Change
  <2>2. chip'[c] = DetectMasked(chip[c])
    BY <2>1, OneChip
  <2>3. Off(c)' /\ ~chip'[c].hsMask
    BY <1>1, <2>2, AccessFields DEF Off
  <2>4. QED
    BY <1>4, <2>1, <2>3 DEF Handled, AtChip
<1>6. CASE HandlerDetects /\ hdl.pc = "start"
  <2>1. Become([chip EXCEPT ![c] = DetectStarted(chip[c])]) /\ Visit(hdl.todo)
    BY <1>6 DEF HandlerDetects, Change
  <2>2. chip'[c] = DetectStarted(chip[c])
    BY <2>1, OneChip
  <2>3. Off(c) /\ ~chip[c].hsMask
    BY <1>6 DEF Handled, AtChip
  <2>4. Detecting(c)'
    BY <1>1, <2>2, <2>3, AccessFields DEF Off, Detecting
  <2>5. QED
    BY <1>3, <2>1, <2>4, RestHandled
<1>7. CASE StopDetect
  <2>1. hdl.pc = "stop" /\ Become([chip EXCEPT ![c] = [chip[c] EXCEPT !.hsMask = TRUE,
                                                                       !.hsRun = FALSE]])
    BY <1>7 DEF StopDetect, Change
  <2>2. chip'[c] = [chip[c] EXCEPT !.hsMask = TRUE, !.hsRun = FALSE]
    BY <2>1, OneChip
  <2>3. /\ chip'[c].ts = chip[c].ts /\ chip'[c].tsLatch = chip[c].tsLatch
        /\ chip'[c].tsMask = chip[c].tsMask /\ chip'[c].hsLatch = chip[c].hsLatch
        /\ chip'[c].hsMask /\ ~chip'[c].hsRun
    BY <1>1, <2>2 DEF ChipType
  <2>4. /\ Off(c)
        /\ Result(c) \/ (~NoTypeDect(c) /\ hdl.type \in {"INVALID", "HEADPHONE"})
    BY <2>1 DEF Handled, AtChip
  <2>5. Off(c)' /\ chip'[c].hsMask
    BY <2>3, <2>4 DEF Off
  <2>6. CASE ~NoTypeDect(c) /\ hdl.type \in {"INVALID", "HEADPHONE"}
    <3>1. hdl'.pc = "manual" /\ hdl'.c = c
      BY <1>4, <1>7, <2>6 DEF StopDetect
    <3>2. QED
      BY <1>2, <2>5, <2>6, <3>1 DEF Handled, AtChip
  <2>7. CASE ~(~NoTypeDect(c) /\ hdl.type \in {"INVALID", "HEADPHONE"})
    <3>1. /\ hdl'.pc = "judge" /\ hdl'.c = c
          /\ hdl'.tip = hdl.tip /\ hdl'.type = hdl.type /\ UNCHANGED believed
      BY <1>4, <1>7, <2>7 DEF StopDetect
    <3>2. Result(c)'
      BY <1>2, <2>3, <2>4, <2>7, <3>1 DEF Result, Unread, TipBelief
    <3>3. QED
      BY <2>5, <3>1, <3>2 DEF Handled, AtChip
  <2>8. QED
    BY <2>6, <2>7
<1>8. CASE ManualHsDet
  <2>1. hdl.pc \in {"manual", "first", "second"} /\ UNCHANGED believed
    BY <1>8 DEF ManualHsDet
  <2>2. Off(c) /\ chip[c].hsMask /\ ~NoTypeDect(c)
    BY <2>1 DEF Handled
  <2>3. chip'[c] = chip[c] \/ chip'[c] = [chip[c] EXCEPT !.hsRun = FALSE]
    <3>1. KeepChips \/ Become([chip EXCEPT ![c] = [chip[c] EXCEPT !.hsRun = FALSE]])
      BY <1>8 DEF ManualHsDet, Change
    <3>2. QED
      BY <3>1, OneChip DEF KeepChips
  <2>4. /\ chip'[c].ts = chip[c].ts /\ chip'[c].tsLatch = chip[c].tsLatch
        /\ Off(c)' /\ chip'[c].hsMask /\ ~NoTypeDect(c)'
    BY <1>1, <1>2, <2>2, <2>3 DEF ChipType, Off
  <2>5. Unread(c)' <=> Unread(c)
    BY <2>4 DEF Unread
  <2>6. CASE hdl.pc = "manual"
    <3>1. hdl'.pc = "first" /\ hdl'.c = c
      BY <1>4, <1>8, <2>6 DEF ManualHsDet
    <3>2. QED
      BY <2>4, <3>1 DEF Handled, AtChip
  <2>7. CASE hdl.pc = "first"
    <3>6. PICK weak \in BOOLEAN :
            \E one \in Comparators(c, 1, weak) :
              hdl' = [hdl EXCEPT !.pc = "second", !.first = one]
      BY <1>8, <2>7 DEF ManualHsDet
    <3>1. PICK one \in Comparators(c, 1, weak) :
            hdl' = [hdl EXCEPT !.pc = "second", !.first = one]
      BY <3>6
    <3>2. hdl'.pc = "second" /\ hdl'.c = c /\ hdl'.first = one
      BY <1>1, <3>1 DEF HdlType
    <3>3. Unread(c) \/ one = Seated(jack[c], 1, weak)
      BY <3>1 DEF Comparators, Unread
    <3>4. Unread(c)' \/ \E w \in BOOLEAN : hdl'.first = Seated(jack'[c], 1, w)
      BY <1>1, <2>5, <3>2, <3>3
    <3>5. QED
      BY <2>4, <3>2, <3>4 DEF Handled, AtChip
  <2>8. CASE hdl.pc = "second"
    <3>1. hdl'.pc = "judge" /\ hdl'.c = c
      BY <1>1, <1>8, <2>8 DEF ManualHsDet, HdlType
    <3>2. Result(c)'
      <4>1. CASE Unread(c)
        BY <2>5, <4>1 DEF Result
      <4>2. CASE ~Unread(c)
        <5>1. PICK w \in BOOLEAN : hdl.first = Seated(jack[c], 1, w)
          BY <2>8, <4>2 DEF Handled, AtChip
        <5>2. chip[c].ts # "trans"
          BY <4>2 DEF Unread
        <5>3. (IF hdl'.type = "INVALID" THEN Nothing ELSE hdl'.type) = Due(c)
          BY <1>8, <2>2, <2>8, <5>1, <5>2, ManualRight
        <5>4. QED
          BY <1>2, <2>2, <5>3 DEF Result
      <4>3. QED
        BY <4>1, <4>2
    <3>3. QED
      BY <2>4, <3>1, <3>2 DEF Handled, AtChip
  <2>9. QED
    BY <2>1, <2>6, <2>7, <2>8
<1>9. CASE Judge
  <2>1. /\ hdl.pc = "judge" /\ UNCHANGED chip
        /\ believed'[c] = IF NoTypeDect(c) THEN TipBelief(c, hdl.tip)
                          ELSE IF hdl.type = "INVALID" THEN Nothing ELSE hdl.type
        /\ hdl'.pc = "unmask" /\ hdl'.c = c
    BY <1>1, <1>9 DEF Judge, KeepChips, HdlType
  <2>2. Off(c) /\ chip[c].hsMask /\ Result(c)
    BY <2>1 DEF Handled, AtChip
  <2>3. Right(c)'
    BY <1>2, <2>1, <2>2 DEF Result, Right, Unread
  <2>4. Off(c)' /\ chip'[c].hsMask
    BY <2>1, <2>2 DEF Off
  <2>5. QED
    BY <2>1, <2>3, <2>4 DEF Handled, AtChip
<1>10. CASE UnmaskTip
  <2>1. /\ hdl.pc = "unmask" /\ UNCHANGED believed
        /\ Become([chip EXCEPT ![c] = [chip[c] EXCEPT !.tsMask = FALSE]])
        /\ Goto("report") \/ Visit(hdl.todo)
    BY <1>10 DEF UnmaskTip, Change
  <2>2. chip'[c] = [chip[c] EXCEPT !.tsMask = FALSE]
    BY <2>1, OneChip
  <2>3. Off(c) /\ chip[c].hsMask /\ Right(c)
    BY <2>1 DEF Handled, AtChip
  <2>4. /\ chip'[c].ts = chip[c].ts /\ chip'[c].tsLatch = chip[c].tsLatch
        /\ ~chip'[c].tsMask /\ chip'[c].hsMask = chip[c].hsMask
        /\ chip'[c].hsRun = chip[c].hsRun /\ chip'[c].hsLatch = chip[c].hsLatch
    BY <1>1, <2>2 DEF ChipType
  <2>5. Watching(c)'
    BY <1>2, <2>1, <2>3, <2>4 DEF Off, Watching, Right, Unread
  <2>6. hdl'.pc \in {"idle", "look", "report"}
    BY <1>3, <1>4, <2>1
  <2>7. QED
    BY <2>5, <2>6, RestHandled
<1>11. CASE Report
  <2>1. hdl.pc = "report" /\ UNCHANGED <<chip, believed>> /\ Visit(hdl.todo)
    BY <1>11 DEF Report, KeepChips
  <2>2. Watching(c) \/ Detecting(c)
    BY <2>1 DEF Handled
  <2>3. Watching(c)' \/ Detecting(c)'
    BY <1>1, <2>1, <2>2, ChipSame
  <2>4. QED
    BY <1>3, <2>1, <2>3, RestHandled
<1>12. QED
  BY <1>5, <1>6, <1>7, <1>8, <1>9, <1>10, <1>11 DEF HandlerDetects

\* A step of the handler in use.
LEMMA KnownHandling ==
  ASSUME BaseInv, KnownInv, Noted, spoiled' = {}, spoiled = {}, Up, HandlerStep,
         NEW c \in Scodecs
  PROVE  Handled(c)' /\ Heard(c)'
<1>1. CASE TakeResponse
  BY <1>1, KnownTake
<1>2. CASE ~TakeResponse
  <2>1. /\ TypeOK /\ SeatInv /\ ur /\ hdl.pc # "idle" /\ hdl.c \in Scodecs
        /\ ~suspended[hdl.c] /\ hdl.todo \in SUBSET Scodecs
    BY <1>2 DEF BaseInv, AwakeInv, TypeOK, HandlerStep, ReadDone, ReadTip, HandlerDetects,
                StopDetect, ManualHsDet, Judge, UnmaskTip, Report
  <2>2. /\ KeepChips \/ \E x : Become([chip EXCEPT ![hdl.c] = x])
        /\ \/ hdl'.c = hdl.c /\ hdl'.todo = hdl.todo /\ hdl'.pc # "idle"
           \/ Visit(hdl.todo)
        /\ \A d \in Scodecs : d # hdl.c => chip'[d] = chip[d] /\ believed'[d] = believed[d]
        /\ UNCHANGED <<board, jack>>
    BY <2>1, HandlerShape
  <2>3. Handled(c) /\ Heard(c)
    BY DEF KnownInv
  <2>4. Visit(hdl.todo) => /\ hdl'.pc \in {"idle", "look"}
                           /\ \A d \in hdl.todo : Promised(d)'
    BY <2>1, VisitPromised
  <2>5. /\ ReadDone /\ hdl.c = c => Handled(c)' /\ (Low(chip'[c]) => Promised(c)')
        /\ ReadTip /\ hdl.c = c =>
             Handled(c)' /\ (Low(chip'[c]) => Low(chip[c]) /\ chip[c].tsMask)
    BY <2>1, <2>3, KnownDone, KnownTip
  <2>6. Handled(c)'
    <3>1. CASE hdl.c = c
      <4>1. CASE ReadDone \/ ReadTip
        BY <2>5, <3>1, <4>1
      <4>2. CASE ~(ReadDone \/ ReadTip)
        BY <1>2, <2>1, <2>3, <3>1, <4>2, KnownSelf DEF HandlerStep
      <4>3. QED
        BY <4>1, <4>2
    <3>2. CASE hdl.c # c
      <4>1. Watching(c) \/ Detecting(c)
        BY <2>3, <3>2 DEF Handled
      <4>2. Watching(c)' \/ Detecting(c)'
        BY <2>2, <3>2, <4>1, ChipSame
      <4>3. QED
        BY <2>2, <2>4, <3>2, <4>2, RestHandled
    <3>3. QED
      BY <3>1, <3>2
  <2>7. Promised(c) => Promised(c)' \/ ~Low(chip'[c])
    <3>1. CASE AtChip(c, "look")
      <4>1. ReadDone /\ hdl.c = c
        BY <1>2, <3>1 DEF AtChip, HandlerStep, ReadDone, ReadTip, HandlerDetects, StopDetect,
                          ManualHsDet, Judge, UnmaskTip, Report
      <4>2. QED
        BY <2>5, <4>1
    <3>2. CASE c \in hdl.todo
      BY <2>2, <2>4, <3>2 DEF Promised
    <3>3. CASE AtChip(c, "tip") /\ ~chip[c].tsMask
      <4>1. ReadTip /\ hdl.c = c
        BY <1>2, <3>3 DEF AtChip, HandlerStep, ReadDone, ReadTip, HandlerDetects, StopDetect,
                          ManualHsDet, Judge, UnmaskTip, Report
      <4>2. QED
        BY <2>5, <3>3, <4>1
    <3>4. QED
      BY <3>1, <3>2, <3>3 DEF Promised
  <2>8. Heard(c)'
    <3>1. CASE KeepChips
      <4>1. Low(chip[c]) => Waiting(c) \/ Promised(c)' \/ ~Low(chip'[c])
        BY <2>3, <2>7 DEF Heard
      <4>2. QED
        BY <3>1, <4>1 DEF Heard, Waiting, KeepChips
    <3>2. CASE \E x : Become([chip EXCEPT ![hdl.c] = x])
      BY <2>1, <2>2, <2>3, <2>7, <3>2, BecomeHeard DEF Heard
    <3>3. QED
      BY <2>2, <3>1, <3>2
  <2>9. QED
    BY <2>6, <2>8
<1>3. QED
  BY <1>1, <1>2

\* During an init without an overlap the handler takes no step.
LEMMA KnownHandler ==
  ASSUME BaseInv, KnownInv, Noted, HandlerStep
  PROVE  KnownInv'
<1> SUFFICES ASSUME spoiled' = {} PROVE KnownInv'
  BY DEF KnownInv
<1>1. UNCHANGED <<board, rpm, pm>> /\ Scodecs' = Scodecs /\ (Up' <=> Up)
  BY Frame DEF core, Scodecs, Up
<1>2. CASE Up
  <2>1. spoiled = {}
    BY <1>2, NoSpoil DEF Up
  <2>2. \A c \in Scodecs : Handled(c)' /\ Heard(c)'
    BY <1>2, <2>1, KnownHandling
  <2>3. pm'.pc = "idle"
    BY <1>1, <1>2 DEF Up
  <2>4. QED
    BY <1>1, <2>2, <2>3 DEF KnownInv
<1>3. CASE pm.pc \in {"detect", "start", "sync"}
  <2>1. spoiled = {} /\ hdl'.pc = "idle" /\ (registered \/ responses \subseteq responses')
    BY <1>1, <1>3, NoSpoil
  <2>2. hdl.pc = "idle" /\ powerOn
    BY <1>3, <2>1 DEF BaseInv, ToldInv, AwakeInv, Started
  <2>3. TakeResponse
    BY <2>2 DEF HandlerStep, ReadDone, ReadTip, HandlerDetects, StopDetect, ManualHsDet, Judge,
                UnmaskTip, Report
  <2>4. PICK lows \in responses :
          /\ responses' = responses \ {lows}
          /\ Visit(IF registered /\ powerOn THEN lows ELSE {})
    BY <2>3 DEF TakeResponse
  <2>5. lows \in SUBSET Scodecs /\ lows # {} /\ Visit(lows)
    BY <2>1, <2>2, <2>4 DEF BaseInv, TypeOK
  <2>6. hdl'.pc = "look"
    BY <2>5, VisitPromised DEF BaseInv
  <2>7. QED
    BY <2>1, <2>6
<1>4. CASE ~Up /\ pm.pc \notin {"detect", "start", "sync"}
  BY <1>1, <1>4 DEF KnownInv
<1>5. QED
  BY <1>2, <1>3, <1>4

-----------------------------------------------------------------------------
(* What is known stays known: suspends, resumes and the speaker switch.     *)

\* Nothing of it touched.
LEMMA KnownSame ==
  ASSUME KnownInv, spoiled' = {} => spoiled = {} \/ pm.pc = "gpio",
         UNCHANGED <<board, jack, chip, responses, believed, hdl, pm, rpm>>
  PROVE  KnownInv'
<1>1. Scodecs' = Scodecs /\ (Up' <=> Up)
  BY DEF Scodecs, Up
<1>2. \A c : /\ (Handled(c)' <=> Handled(c)) /\ (Detecting(c)' <=> Detecting(c))
             /\ (Off(c)' <=> Off(c))
  BY ChipSame
<1>3. \A c : Heard(c)' <=> Heard(c)
  BY DEF Heard, Waiting, Promised, AtChip
<1>4. pm.pc = "gpio" => ~Up
  BY DEF Up
<1>5. QED
  BY <1>1, <1>2, <1>3, <1>4 DEF KnownInv

\* One chip changed by the init: the others keep what they have.
LEMMA KnownOthers ==
  ASSUME TypeOK, ur, NEW c \in Scodecs, NEW x, Become([chip EXCEPT ![c] = x]),
         UNCHANGED <<board, jack, believed, hdl>>, hdl.pc = "idle"
  PROVE  /\ chip'[c] = x
         /\ \A d \in Scodecs : d # c => (Detecting(d) => Detecting(d)')
         /\ \A d \in Scodecs : Heard(d) => Heard(d)'
<1>1. chip'[c] = x /\ \A d \in Scodecs : d # c => chip'[d] = chip[d]
  BY OneChip
<1>2. \A d \in Scodecs : Promised(d)' <=> Promised(d)
  BY DEF Promised, AtChip
<1>3. \A d \in Scodecs : Heard(d) => Heard(d)'
  BY <1>2, BecomeHeard DEF Heard
<1>4. QED
  BY <1>1, <1>3, ChipSame

\* The detections of an init, one chip after the other, and its end.
LEMMA KnownInit ==
  ASSUME BaseInv, KnownInv, Noted, spoiled' = {}, RunDetect \/ StartDetect \/ SyncJacks
  PROVE  KnownInv'
<1>1. /\ UNCHANGED <<board, jack, believed, hdl>> /\ Scodecs' = Scodecs
      /\ pm.c \in Scodecs /\ Scodecs \subseteq {0, 1} /\ chip[pm.c] \in ChipType
      /\ \A c \in Scodecs : c <= Last
  BY ChipNumbers DEF RunDetect, StartDetect, SyncJacks, KeepPm, drv, BaseInv, TypeOK, ChipType,
                     Scodecs
<1>2. /\ spoiled = {} /\ pm.pc \in {"detect", "start", "sync"} /\ TypeOK /\ ur
      /\ rpm = "suspended"
  BY NoSpoil DEF RunDetect, StartDetect, SyncJacks, BaseInv, AwakeInv, Started, PmInv
<1>3. hdl.pc = "idle" /\ believed[pm.c] = Nothing
  BY <1>1, <1>2 DEF BaseInv, ToldInv
<1>4. CASE RunDetect
  <2>1. /\ pm.pc = "detect" /\ pm' = [pc |-> "start", c |-> pm.c] /\ UNCHANGED rpm
        /\ Become([chip EXCEPT ![pm.c] = DetectMasked(chip[pm.c])])
    BY <1>2, <1>3, <1>4 DEF RunDetect, Step, TypeOK
  <2>2. /\ chip'[pm.c] = DetectMasked(chip[pm.c])
        /\ \A d \in Scodecs : d # pm.c => (Detecting(d) => Detecting(d)')
        /\ \A d \in Scodecs : Heard(d) => Heard(d)'
    BY <1>1, <1>2, <1>3, <2>1, KnownOthers
  <2>3. Off(pm.c)' /\ ~chip'[pm.c].hsMask
    BY <1>1, <2>1, <2>2, AccessFields DEF Off
  <2>4. \A c \in Scodecs : c < pm.c => c # pm.c /\ Detecting(c) /\ Heard(c)
    BY <1>1, <1>2, <2>1 DEF KnownInv
  <2>5. QED
    BY <1>1, <2>1, <2>2, <2>3, <2>4 DEF KnownInv, Up
<1>5. CASE StartDetect
  <2>1. /\ pm.pc = "start" /\ NextCodec /\ UNCHANGED rpm
        /\ Become([chip EXCEPT ![pm.c] = DetectStarted(chip[pm.c])])
    BY <1>5 DEF StartDetect, TypeOK
  <2>2. /\ chip'[pm.c] = DetectStarted(chip[pm.c])
        /\ \A d \in Scodecs : d # pm.c => (Detecting(d) => Detecting(d)')
        /\ \A d \in Scodecs : Heard(d) => Heard(d)'
    BY <1>1, <1>2, <1>3, <2>1, KnownOthers
  <2>3. Off(pm.c) /\ ~chip[pm.c].hsMask
    BY <1>2, <2>1 DEF KnownInv
  <2>4. \A c \in Scodecs : c = pm.c => Detecting(c)' /\ Heard(c)
    BY <1>1, <2>2, <2>3, AccessFields DEF Off, Detecting, Heard, Low
  <2>5. \A c \in Scodecs : c < pm.c => Detecting(c) /\ Heard(c)
    BY <1>2, <2>1 DEF KnownInv
  <2>6. \A c \in Scodecs : c <= pm.c => Detecting(c)' /\ Heard(c)'
    <3>1. \A c \in Scodecs : c <= pm.c => c < pm.c \/ c = pm.c
      BY <1>1, Order
    <3>2. QED
      BY <1>1, <2>2, <2>4, <2>5, <3>1
  <2>7. CASE pm.c = Last
    BY <1>1, <2>1, <2>6, <2>7 DEF NextCodec, Step, KnownInv, Up
  <2>8. CASE pm.c # Last
    <3>1. pm' = [pc |-> "detect", c |-> pm.c + 1]
      BY <2>1, <2>8 DEF NextCodec, Step
    <3>2. \A c \in Scodecs : c < pm.c + 1 => c <= pm.c
      BY <1>1, Order
    <3>3. QED
      BY <1>1, <2>6, <3>1, <3>2 DEF KnownInv, Up
  <2>9. QED
    BY <2>7, <2>8
<1>6. CASE SyncJacks
  <2>1. /\ pm.pc = "sync" /\ pm' = [pc |-> "idle", c |-> 0]
        /\ UNCHANGED <<chip, responses>>
    BY <1>6 DEF SyncJacks, Done, Step, KeepChips
  <2>2. \A c \in Scodecs : Detecting(c) /\ Heard(c)
    BY <1>2, <2>1 DEF KnownInv
  <2>3. \A c \in Scodecs : Detecting(c)' /\ Heard(c)'
    BY <1>1, <2>1, <2>2, ChipSame DEF Heard, Waiting, Promised, AtChip
  <2>4. \A c \in Scodecs : Handled(c)'
    BY <1>1, <1>3, <2>3, RestHandled
  <2>5. QED
    BY <1>1, <2>1, <2>3, <2>4 DEF KnownInv
<1>7. QED
  BY <1>4, <1>5, <1>6

\* A suspend, a resume, the boot.
LEMMA KnownPm ==
  ASSUME BaseInv, KnownInv, Noted,
         RuntimeSuspend \/ SystemSleep \/ Resume \/ PmStep \/ Register
  PROVE  KnownInv'
<1> SUFFICES ASSUME spoiled' = {} PROVE KnownInv'
  BY DEF KnownInv
<1> USE DEF Step, Done, SuspendBegins
<1>1. TypeOK /\ PmInv /\ UNCHANGED board /\ Scodecs' = Scodecs /\ Scodecs \subseteq {0, 1}
  BY PmType, ChipNumbers DEF BaseInv, Scodecs
<1>2. pm'.pc \notin {"idle", "detect", "start", "sync"} \/ (pm'.pc = "idle" /\ rpm' # "active")
        => KnownInv'
  BY DEF KnownInv, Up
<1>3. CASE RuntimeSuspend \/ Resume \/ DownCodec \/ ResetCodec \/ SetGpio \/ BringCodec
           \/ OutOfReset \/ EnableDetect
  BY <1>2, <1>3 DEF RuntimeSuspend, Resume, DownCodec, ResetCodec, SetGpio, BringCodec,
                    OutOfReset, EnableDetect
<1>4. CASE SystemSleep
  BY <1>1, <1>2, <1>4 DEF SystemSleep, core, TypeOK
<1>5. CASE EnableUr \/ BuildControls
  <2>1. pm' \in {[pc |-> "build", c |-> 0], [pc |-> "detect", c |-> 0]}
    BY <1>5 DEF EnableUr, BuildControls
  <2>2. \A c \in Scodecs : ~(c < 0)
    BY <1>1
  <2>3. QED
    BY <1>1, <2>1, <2>2 DEF KnownInv, Up
<1>6. CASE RunDetect \/ StartDetect \/ SyncJacks
  BY <1>6, KnownInit
<1>7. CASE Register
  BY <1>7, NoSpoil, KnownSame DEF Register, KeepChips, drv
<1>8. QED
  BY <1>3, <1>4, <1>5, <1>6, <1>7 DEF PmStep

\* A write of the speaker switch finds every chip out of reset, and leaves it there.
LEMMA KnownPut ==
  ASSUME BaseInv, KnownInv, Noted, PutStart \/ PutWrite
  PROVE  KnownInv'
<1>1. UNCHANGED <<board, jack, ur, rpm, suspended, believed, hdl, pm>>
  BY DEF PutStart, PutWrite, KeepUser, core, drv
<1>2. spoiled' = {} => spoiled = {} \/ pm.pc = "gpio"
  BY NoSpoil
<1>3. CASE PutStart
  BY <1>1, <1>2, <1>3, KnownSame DEF PutStart, KeepChips
<1>4. CASE PutWrite
  <2>1. Drive(put.word) /\ put.word = gpioData /\ Up
    BY <1>4 DEF PutWrite, BaseInv, WireInv, PutInv, Up
  <2>2. \A c \in Scodecs : c \in gpio /\ c \in gpioData
    BY <2>1 DEF BaseInv, AwakeInv, WireInv, ResetInv
  <2>3. chip = [c \in Scodecs |-> chip[c]]
    BY DEF BaseInv, TypeOK
  <2>4. Become(chip)
    BY <2>1, <2>2, <2>3 DEF Drive
  <2>5. UNCHANGED <<chip, responses>>
    BY <2>4 DEF Become
  <2>6. QED
    BY <1>1, <1>2, <2>5, KnownSame
<1>5. QED
  BY <1>3, <1>4

\* Every step keeps what is known.
LEMMA KnownNext == BaseInv /\ KnownInv /\ [Next]_vars => KnownInv'
<1> SUFFICES ASSUME BaseInv, KnownInv, [Next]_vars PROVE KnownInv'
  OBVIOUS
<1>1. CASE UNCHANGED vars
  BY <1>1, KnownSame DEF vars, core, drv
<1>2. CASE Next
  <2>1. Noted
    BY <1>2 DEF Next
  <2>2. CASE Insert \/ Pull \/ (\E c \in Scodecs : Debounced(c) \/ AutoDone(c))
    BY <2>1, <2>2, KnownWorld
  <2>3. CASE HandlerStep
    BY <2>1, <2>3, KnownHandler
  <2>4. CASE RuntimeSuspend \/ SystemSleep \/ Resume \/ PmStep \/ Register
    BY <2>1, <2>4, KnownPm
  <2>5. CASE PutStart \/ PutWrite
    BY <2>1, <2>5, KnownPut
  <2>6. QED
    BY <1>2, <2>2, <2>3, <2>4, <2>5 DEF Next
<1>3. QED
  BY <1>1, <1>2

\* Before the probe every chip is in reset.
LEMMA KnownStart == Init => SeatInv /\ AwakeInv /\ KnownInv
<1> SUFFICES ASSUME Init PROVE SeatInv /\ AwakeInv /\ KnownInv
  OBVIOUS
<1>1. /\ pm.pc = "gpio" /\ rpm = "suspended"
      /\ \A c \in Scodecs : chip[c] = Fresh(jack[c])
  BY DEF Init
<1>2. SeatInv
  <2>1. \A c \in Scodecs : Fresh(jack[c]).ts = "unplug" <=> jack[c] = Nothing
    BY DEF Fresh
  <2>2. QED
    BY <1>1, <2>1 DEF SeatInv
<1>3. AwakeInv /\ KnownInv
  BY <1>1 DEF AwakeInv, KnownInv, Started, Up
<1>4. QED
  BY <1>2, <1>3

\* When nothing is left to do every jack is believed to be what it is, and its tip is
\* watched (cs8409.c:851-1034): for any number of plugs, suspends, sleeps and writes of
\* the speaker switch, unless a jack moved in a detection, a handler overlapped a PM
\* callback or a response was dropped before the registration.
THEOREM TypeKnownAlways == ASSUME AwakePuts PROVE Spec => []TypeKnown
<1>1. Init => SeatInv /\ AwakeInv /\ KnownInv /\ ToldInv
  BY KnownStart, ToldInit
<1>2. BaseInv /\ KnownInv /\ [Next]_vars => SeatInv' /\ AwakeInv' /\ KnownInv' /\ ToldInv'
  <2> SUFFICES ASSUME BaseInv, KnownInv, [Next]_vars
               PROVE  SeatInv' /\ AwakeInv' /\ KnownInv' /\ ToldInv'
    OBVIOUS
  <2>1. KnownInv'
    BY KnownNext
  <2>2. SeatInv' /\ AwakeInv' /\ ToldInv'
    BY SeatNext, AwakeNext, ToldInvNext DEF BaseInv
  <2>3. QED
    BY <2>1, <2>2
<1>3. KnownInv => TypeKnown
  <2> SUFFICES ASSUME KnownInv, Quiet, responses = {}, spoiled = {}, NEW c \in Scodecs,
                      ~chip[c].hsRun, chip[c].ts # "trans"
               PROVE  believed[c] = Due(c) /\ ~chip[c].tsMask
    BY DEF TypeKnown
  <2>1. Handled(c) /\ Heard(c) /\ hdl.pc = "idle"
    BY DEF KnownInv, Quiet
  <2>2. ~Low(chip[c])
    BY <2>1 DEF Heard, Waiting, Promised
  <2>3. Watching(c)
    BY <2>1, <2>2 DEF Handled, Detecting, Low
  <2>4. QED
    BY <2>2, <2>3 DEF Watching, Right, Unread, Low
<1>4. BaseInv <=> (TypeOK /\ PmInv /\ WireInv) /\ ToldInv /\ SeatInv /\ AwakeInv
  BY DEF BaseInv
<1>5. QED
  BY <1>1, <1>2, <1>3, <1>4, WireAlways, PTL DEF Spec

-----------------------------------------------------------------------------
(* The mask of the tip sense, whatever overlaps.                            *)

\* Somebody is on the way to unmask it: the resume, or a handler that has read the end
\* of a detection.
Unmasking(c) == \/ pm.pc = "enable" /\ pm.c = c
                \/ AtChip(c, "tip") /\ hdl.done = "yes"
                \/ hdl.c = c /\ hdl.pc \in {"stop", "manual", "first", "second", "judge", "unmask"}

\* Or a detection is, or is about to be, what it is masked for.
Finding(c) == /\ ~chip[c].hsMask
              /\ \/ chip[c].hsRun \/ chip[c].hsLatch
                 \/ AtChip(c, "start")
                 \/ pm.pc = "start" /\ pm.c = c

MaskInv == \A c \in Scodecs :
  ~suspended[c] /\ chip[c].tsMask => Unmasking(c) \/ Finding(c)

\* What the world does to a chip.
LEMMA MaskWorld ==
  ASSUME TypeOK, MaskInv, Insert \/ Pull \/ (\E c \in Scodecs : Debounced(c) \/ AutoDone(c))
  PROVE  MaskInv'
<1>1. /\ UNCHANGED <<board, suspended, pm, hdl>> /\ Scodecs' = Scodecs
      /\ chip \in [Scodecs -> ChipType]
  BY Frame, WorldType DEF Scodecs, TypeOK, ChipType
<1>2. ASSUME NEW c \in Scodecs, \A d \in Scodecs : d # c => chip'[d] = chip[d],
             chip'[c].tsMask = chip[c].tsMask, chip'[c].hsMask = chip[c].hsMask,
             chip[c].hsRun \/ chip[c].hsLatch => chip'[c].hsRun \/ chip'[c].hsLatch
      PROVE  MaskInv'
  BY <1>1, <1>2 DEF MaskInv, Unmasking, Finding, AtChip
<1>3. ASSUME NEW c \in Scodecs, NEW t \in {"unplug", "trans", "plug"}, Sense(c, t)
      PROVE  MaskInv'
  <2>1. chip' = [chip EXCEPT ![c] = [@ EXCEPT !.ts = t, !.tsLatch = @ \/ ~InReset(c)]]
    BY <1>3 DEF Sense, Become
  <2>2. /\ chip'[c].tsMask = chip[c].tsMask /\ chip'[c].hsMask = chip[c].hsMask
        /\ chip'[c].hsRun = chip[c].hsRun /\ chip'[c].hsLatch = chip[c].hsLatch
        /\ \A d \in Scodecs : d # c => chip'[d] = chip[d]
    BY <1>1, <2>1 DEF ChipType
  <2>3. QED
    BY <1>2, <2>2
<1>4. ASSUME NEW c \in Scodecs, AutoDone(c)
      PROVE  MaskInv'
  <2>1. PICK type : chip' = [chip EXCEPT ![c] =
                     [@ EXCEPT !.hsRun = FALSE, !.hsLatch = TRUE, !.hsType = type]]
    BY <1>4 DEF AutoDone, Become
  <2>2. /\ chip'[c].tsMask = chip[c].tsMask /\ chip'[c].hsMask = chip[c].hsMask
        /\ chip'[c].hsLatch /\ \A d \in Scodecs : d # c => chip'[d] = chip[d]
    BY <1>1, <2>1 DEF ChipType
  <2>3. QED
    BY <1>2, <2>2
<1>5. QED
  BY <1>3, <1>4 DEF Insert, Pull, Move, Debounced

\* The handler: it takes a mask over from the detection, and lifts it, or starts another.
LEMMA MaskHandler ==
  ASSUME TypeOK, MaskInv, HandlerStep
  PROVE  MaskInv'
<1>1. /\ UNCHANGED <<board, suspended, pm>> /\ Scodecs' = Scodecs
      /\ chip \in [Scodecs -> ChipType] /\ hdl \in HdlType /\ hdl.c \in Scodecs
  BY Frame DEF Scodecs, TypeOK, ChipType, HdlType
<1>2. ASSUME NEW c \in Scodecs, c = hdl.c, NEW x \in ChipType,
             KeepChips \/ Become([chip EXCEPT ![c] = x]), hdl.pc # "idle",
             ~suspended[c] /\ chip'[c].tsMask => Unmasking(c)' \/ Finding(c)'
      PROVE  MaskInv'
  <2>1. \A d \in Scodecs : d # c => chip'[d] = chip[d]
    BY <1>1, <1>2, OneChip DEF KeepChips
  <2>2. ASSUME NEW d \in Scodecs, d # c, ~suspended[d] /\ chip'[d].tsMask
        PROVE  Unmasking(d)' \/ Finding(d)'
    <3>1. chip'[d] = chip[d] /\ UNCHANGED pm /\ hdl.c # d
      BY <1>1, <1>2, <2>1, <2>2
    <3>2. Unmasking(d) \/ Finding(d)
      BY <2>2, <3>1 DEF MaskInv
    <3>3. CASE pm.pc = "enable" /\ pm.c = d
      BY <3>1, <3>3 DEF Unmasking
    <3>4. CASE ~chip[d].hsMask /\ (chip[d].hsRun \/ chip[d].hsLatch \/ (pm.pc = "start" /\ pm.c = d))
      BY <3>1, <3>4 DEF Finding
    <3>5. QED
      BY <3>1, <3>2, <3>3, <3>4 DEF Unmasking, Finding, AtChip
  <2>3. QED
    BY <1>1, <1>2, <2>2 DEF MaskInv
<1>3. CASE TakeResponse
  BY <1>1, <1>3 DEF TakeResponse, MaskInv, Unmasking, Finding, AtChip
<1>4. CASE hdl.pc # "idle" /\ ~TakeResponse
  <2>0. PICK c \in Scodecs : c = hdl.c
    BY <1>1
  <2> USE <2>0
  <2>1. \A x \in ChipType : Change(c, x) =>
          /\ KeepChips \/ Become([chip EXCEPT ![c] = x])
          /\ ~suspended[c] => chip'[c] = x
    BY <1>1, OneChip DEF Change, KeepChips
  <2>2. KeepChips => chip' = chip
    BY DEF KeepChips
  <2>3. /\ DoneRead(chip[c]) \in ChipType /\ TipRead(chip[c]) \in ChipType
        /\ DetectMasked(chip[c]) \in ChipType /\ DetectStarted(chip[c]) \in ChipType
        /\ [chip[c] EXCEPT !.hsMask = TRUE, !.hsRun = FALSE] \in ChipType
        /\ [chip[c] EXCEPT !.tsMask = FALSE] \in ChipType
        /\ [chip[c] EXCEPT !.hsRun = FALSE] \in ChipType /\ chip[c] \in ChipType
    BY <1>1, AccessTypes
  <2>4. \A l : Goto(l) => hdl'.c = c /\ hdl'.pc = l /\ hdl'.done = hdl.done
    BY <1>1 DEF Goto, HdlType
  <2>5. ~suspended[c] /\ chip[c].tsMask => Unmasking(c) \/ Finding(c)
    BY <1>1 DEF MaskInv
  <2> DEFINE Held == \/ pm.pc = "enable" /\ pm.c = c
                     \/ /\ ~chip[c].hsMask
                        /\ chip[c].hsRun \/ chip[c].hsLatch \/ (pm.pc = "start" /\ pm.c = c)
  <2>13. /\ chip'[c].hsMask = chip[c].hsMask /\ chip'[c].hsLatch = chip[c].hsLatch
         /\ chip[c].hsRun => chip'[c].hsRun
         /\ Held
         => Unmasking(c)' \/ Finding(c)'
    BY <1>1 DEF Unmasking, Finding
  <2>6. CASE ReadDone
    <3>1. CASE suspended[c]
      BY <1>2, <1>4, <2>3, <2>6, <3>1 DEF ReadDone
    <3>2. CASE ~suspended[c]
      <4>1. /\ Become([chip EXCEPT ![c] = DoneRead(chip[c])])
            /\ hdl'.c = c /\ hdl'.pc = "tip"
            /\ hdl'.done = IF chip[c].hsLatch THEN "yes" ELSE "no"
        BY <1>1, <2>6, <3>2 DEF ReadDone, HdlType
      <4>2. chip'[c] = DoneRead(chip[c])
        BY <1>1, <4>1, OneChip
      <4>3. chip'[c].tsMask => Unmasking(c)' \/ Finding(c)'
        BY <1>1, <2>3, <2>5, <2>6, <3>2, <4>1, <4>2, AccessFields
           DEF ReadDone, Unmasking, Finding, AtChip
      <4>4. QED
        BY <1>2, <1>4, <2>3, <4>1, <4>3
    <3>3. QED
      BY <3>1, <3>2
  <2>7. CASE ReadTip
    <3>1. Change(c, TipRead(chip[c]))
      BY <2>7 DEF ReadTip
    <3>2. CASE suspended[c]
      BY <1>2, <1>4, <2>1, <2>3, <3>1, <3>2
    <3>3. CASE ~suspended[c] /\ hdl.done = "yes"
      <4>1. hdl'.c = c /\ hdl'.pc = "stop"
        BY <1>1, <2>7, <3>3 DEF ReadTip, HdlType
      <4>2. Unmasking(c)'
        BY <4>1 DEF Unmasking
      <4>3. QED
        BY <1>2, <1>4, <2>1, <2>3, <3>1, <4>2
    <3>4. CASE ~suspended[c] /\ hdl.done # "yes"
      <4>1. chip'[c] = TipRead(chip[c])
        BY <2>1, <2>3, <3>1, <3>4
      <4>2. /\ chip'[c].tsMask = chip[c].tsMask /\ chip'[c].hsMask = chip[c].hsMask
            /\ chip'[c].hsLatch = chip[c].hsLatch /\ chip'[c].hsRun = chip[c].hsRun
        BY <1>1, <4>1, AccessFields
      <4>4. hdl.pc = "tip"
        BY <2>7 DEF ReadTip
      <4>5. ~suspended[c] /\ chip[c].tsMask => Held
        BY <2>5, <3>4, <4>4 DEF Unmasking, Finding, AtChip
      <4>6. ~suspended[c] /\ chip'[c].tsMask => Unmasking(c)' \/ Finding(c)'
        BY <2>13, <4>2, <4>5
      <4>3. QED
        BY <1>2, <1>4, <2>1, <2>3, <3>1, <4>6
    <3>5. QED
      BY <3>2, <3>3, <3>4
  <2>8. CASE HandlerDetects
    <3>1. CASE hdl.pc = "detect"
      <4>1. Change(c, DetectMasked(chip[c])) /\ Goto("start")
        BY <2>8, <3>1 DEF HandlerDetects
      <4>2. ~suspended[c] => ~chip'[c].hsMask
        <5>1. ~suspended[c] => chip'[c] = DetectMasked(chip[c])
          BY <2>1, <2>3, <4>1
        <5>2. QED
          BY <1>1, <5>1, AccessFields
      <4>3. hdl'.c = c /\ hdl'.pc = "start"
        BY <2>4, <4>1
      <4>4. ~suspended[c] => Finding(c)'
        BY <4>2, <4>3 DEF Finding, AtChip
      <4>5. QED
        BY <1>2, <1>4, <2>1, <2>3, <4>1, <4>4
    <3>2. CASE hdl.pc = "start"
      <4>1. Change(c, DetectStarted(chip[c]))
        BY <2>8, <3>2 DEF HandlerDetects
      <4>2. ~suspended[c] => /\ chip'[c].tsMask = chip[c].tsMask /\ chip'[c].hsRun
                             /\ chip'[c].hsMask = chip[c].hsMask
        <5>1. ~suspended[c] => chip'[c] = DetectStarted(chip[c])
          BY <2>1, <2>3, <4>1
        <5>2. QED
          BY <1>1, <5>1, AccessFields
      <4>3. ~suspended[c] /\ chip[c].tsMask =>
              (pm.pc = "enable" /\ pm.c = c) \/ ~chip[c].hsMask
        BY <2>5, <3>2 DEF Unmasking, Finding, AtChip
      <4>4. ~suspended[c] /\ chip'[c].tsMask => Unmasking(c)' \/ Finding(c)'
        BY <1>1, <4>2, <4>3 DEF Unmasking, Finding
      <4>5. QED
        BY <1>2, <1>4, <2>1, <2>3, <4>1, <4>4
    <3>3. QED
      BY <2>8, <3>1, <3>2 DEF HandlerDetects
  <2>9. CASE StopDetect \/ ManualHsDet \/ Judge
    <3>1. \/ KeepChips
          \/ Change(c, [chip[c] EXCEPT !.hsMask = TRUE, !.hsRun = FALSE])
          \/ Change(c, [chip[c] EXCEPT !.hsRun = FALSE])
      BY <2>9 DEF StopDetect, ManualHsDet, Judge
    <3>2. hdl'.c = c /\ hdl'.pc \in {"manual", "first", "second", "judge", "unmask"}
      BY <1>1, <2>4, <2>9 DEF StopDetect, ManualHsDet, Judge, HdlType
    <3>3. Unmasking(c)'
      BY <3>2 DEF Unmasking
    <3>4. PICK x \in ChipType : KeepChips \/ Become([chip EXCEPT ![c] = x])
      BY <2>1, <2>3, <3>1
    <3>5. QED
      BY <1>2, <1>4, <3>3, <3>4
  <2>10. CASE UnmaskTip
    <3>1. Change(c, [chip[c] EXCEPT !.tsMask = FALSE])
      BY <2>10 DEF UnmaskTip
    <3>2. ~suspended[c] => ~chip'[c].tsMask
      BY <2>1, <2>3, <3>1 DEF ChipType
    <3>3. QED
      BY <1>2, <1>4, <2>1, <2>3, <3>1, <3>2
  <2>11. CASE Report
    <3>1. KeepChips /\ hdl.pc = "report"
      BY <2>11 DEF Report
    <3>2. ~suspended[c] /\ chip[c].tsMask => Held
      BY <2>5, <3>1 DEF Unmasking, Finding, AtChip
    <3>3. ~suspended[c] /\ chip'[c].tsMask => Unmasking(c)' \/ Finding(c)'
      BY <2>2, <2>13, <3>1, <3>2
    <3>4. QED
      BY <1>2, <1>4, <2>3, <3>1, <3>3
  <2>12. QED
    BY <1>4, <2>6, <2>7, <2>8, <2>9, <2>10, <2>11 DEF HandlerStep
<1>5. QED
  BY <1>3, <1>4 DEF TakeResponse, HandlerStep, ReadDone, ReadTip, HandlerDetects, StopDetect,
                    ManualHsDet, Judge, UnmaskTip, Report

\* A chip in use keeps its state when the GPIO word is written.
LEMMA DriveKeeps ==
  ASSUME TypeOK, UNCHANGED board, NEW word, Drive(word),
         NEW c \in Scodecs, c \in gpio, c \in word
  PROVE  chip'[c] = chip[c]
BY DEF Drive, Become

\* The PM callbacks: a resume unmasks what it takes out of reset, and masks again for the
\* detections it starts.
LEMMA MaskPm ==
  ASSUME TypeOK, PmInv, WireInv, MaskInv,
         RuntimeSuspend \/ SystemSleep \/ Resume \/ PmStep \/ Register
  PROVE  MaskInv'
<1> USE DEF KeepPm, SuspendBegins, Done, Step, core, drv
<1>1. /\ UNCHANGED <<board, hdl>> /\ Scodecs' = Scodecs /\ pm.c \in Scodecs
      /\ chip \in [Scodecs -> ChipType] /\ suspended \in [Scodecs -> BOOLEAN]
  BY PmType DEF Scodecs, TypeOK, ChipType
<1> DEFINE Safe(c) == ~suspended[c] /\ chip[c].tsMask => Unmasking(c) \/ Finding(c)
<1>2. ASSUME NEW c \in Scodecs, suspended'[c] \/ (~suspended[c] /\ chip'[c] = chip[c]),
             (pm'.c = pm.c /\ pm'.pc = pm.pc) \/ pm.c # c \/ pm.pc \notin {"enable", "start"}
      PROVE  Safe(c)'
  BY <1>1, <1>2 DEF MaskInv, Unmasking, Finding, AtChip
<1>3. (\A c \in Scodecs : Safe(c)') => MaskInv'
  BY <1>1 DEF MaskInv
<1>4. ASSUME NEW word, Drive(word), \A c \in gpioData : c \in word
      PROVE  \A c \in Scodecs : ~suspended[c] => chip'[c] = chip[c]
  BY <1>1, <1>4, DriveKeeps DEF WireInv, ResetInv
<1> HIDE DEF Safe
<1>5. CASE KeepChips /\ UNCHANGED suspended /\ pm.pc \notin {"enable", "start"}
  BY <1>1, <1>2, <1>3, <1>5 DEF KeepChips
<1>6. CASE RuntimeSuspend \/ SystemSleep \/ BringCodec \/ EnableUr \/ BuildControls
           \/ SyncJacks \/ Register
  <2>1. KeepChips /\ UNCHANGED suspended
    BY <1>6 DEF RuntimeSuspend, SystemSleep, BringCodec, EnableUr, BuildControls, SyncJacks,
                Register
  <2>2. CASE Register
    BY <1>1, <1>2, <1>3, <2>1, <2>2 DEF KeepChips, Register
  <2>3. CASE ~Register
    BY <1>5, <1>6, <2>1, <2>3 DEF RuntimeSuspend, SystemSleep, BringCodec, EnableUr,
                                  BuildControls, SyncJacks
  <2>4. QED
    BY <2>2, <2>3
<1>7. CASE Resume
  <2>1. \A c \in Scodecs : suspended'[c]
    BY <1>1, <1>7 DEF Resume, PmInv
  <2>2. QED
    BY <1>2, <1>3, <1>7, <2>1 DEF Resume
<1>8. CASE SetGpio
  <2>1. \A c \in Scodecs : suspended'[c]
    BY <1>1, <1>8 DEF SetGpio, PmInv
  <2>2. QED
    BY <1>2, <1>3, <1>8, <2>1 DEF SetGpio
<1>9. CASE DownCodec
  <2>1. \A c \in Scodecs : chip'[c] = chip[c] /\ (suspended'[c] \/ ~suspended[c])
    BY <1>1, <1>9 DEF DownCodec, KeepChips
  <2>2. QED
    BY <1>2, <1>3, <1>9, <2>1 DEF DownCodec
<1>10. CASE ResetCodec
  <2>1. \A c \in Scodecs : suspended'[c] \/ (~suspended[c] /\ chip'[c] = chip[c])
    BY <1>1, <1>4, <1>10 DEF ResetCodec
  <2>2. QED
    BY <1>2, <1>3, <1>10, <2>1 DEF ResetCodec
<1>11. CASE OutOfReset
  <2>1. \A c \in Scodecs : c # pm.c =>
          suspended'[c] \/ (~suspended[c] /\ chip'[c] = chip[c])
    BY <1>1, <1>4, <1>11 DEF OutOfReset
  <2>2. \A c \in Scodecs : c # pm.c => Safe(c)'
    BY <1>2, <1>11, <2>1 DEF OutOfReset
  <2>3. PICK c \in Scodecs : c = pm.c
    BY <1>1
  <2>4. pm'.pc = "enable" /\ pm'.c = c
    BY <1>11, <2>3 DEF OutOfReset
  <2>5. Safe(c)'
    BY <2>4 DEF Safe, Unmasking
  <2>6. QED
    BY <1>3, <2>2, <2>3, <2>5
<1>12. CASE EnableDetect
  <2>1. PICK c \in Scodecs : c = pm.c
    BY <1>1
  <2>2. /\ chip' = [chip EXCEPT ![c] = [StatusRead(@) EXCEPT !.tsMask = FALSE]]
        /\ UNCHANGED suspended
    BY <1>12, <2>1 DEF EnableDetect, Become
  <2>3. StatusRead(chip[c]) \in ChipType
    BY <1>1, AccessTypes
  <2>4. ~chip'[c].tsMask /\ \A d \in Scodecs : d # c => chip'[d] = chip[d]
    BY <1>1, <2>2, <2>3 DEF ChipType
  <2>5. Safe(c)'
    BY <2>4 DEF Safe
  <2>6. \A d \in Scodecs : d # c => Safe(d)'
    BY <1>1, <1>2, <2>1, <2>2, <2>4
  <2>7. QED
    BY <1>3, <2>5, <2>6
<1>13. CASE RunDetect
  <2>1. CASE believed[pm.c] # Nothing
    BY <1>5, <1>13, <2>1 DEF RunDetect
  <2>2. CASE believed[pm.c] = Nothing
    <3>1. PICK c \in Scodecs : c = pm.c
      BY <1>1
    <3>2. /\ Become([chip EXCEPT ![c] = DetectMasked(chip[c])]) /\ UNCHANGED suspended
          /\ pm.pc = "detect" /\ pm' = [pc |-> "start", c |-> c]
      BY <1>13, <2>2, <3>1 DEF RunDetect
    <3>3. /\ chip'[c] = DetectMasked(chip[c])
          /\ \A d \in Scodecs : d # c => chip'[d] = chip[d]
      BY <3>2, OneChip
    <3>4. ~chip'[c].hsMask
      BY <1>1, <3>3, AccessFields
    <3>5. Safe(c)'
      BY <3>2, <3>4 DEF Safe, Finding
    <3>6. \A d \in Scodecs : d # c => Safe(d)'
      BY <1>1, <1>2, <3>2, <3>3
    <3>7. QED
      BY <1>3, <3>5, <3>6
  <2>3. QED
    BY <2>1, <2>2
<1>14. CASE StartDetect
  <2>1. PICK c \in Scodecs : c = pm.c
    BY <1>1
  <2>2. /\ Become([chip EXCEPT ![c] = DetectStarted(chip[c])]) /\ UNCHANGED suspended
        /\ pm.pc = "start"
    BY <1>14, <2>1 DEF StartDetect
  <2>3. /\ chip'[c] = DetectStarted(chip[c])
        /\ \A d \in Scodecs : d # c => chip'[d] = chip[d]
    BY <2>2, OneChip
  <2>4. /\ chip'[c].tsMask = chip[c].tsMask /\ chip'[c].hsRun
        /\ chip'[c].hsMask = chip[c].hsMask
    BY <1>1, <2>3, AccessFields
  <2>5. ~suspended[c] /\ chip[c].tsMask => Unmasking(c) \/ Finding(c)
    BY DEF MaskInv
  <2>6. Safe(c)'
    BY <1>1, <2>2, <2>4, <2>5 DEF Safe, Unmasking, Finding, AtChip
  <2>7. \A d \in Scodecs : d # c => Safe(d)'
    BY <1>1, <1>2, <2>1, <2>2, <2>3
  <2>8. QED
    BY <1>3, <2>6, <2>7
<1>15. QED
  BY <1>6, <1>7, <1>8, <1>9, <1>10, <1>11, <1>12, <1>13, <1>14 DEF PmStep

\* Every step.
LEMMA MaskNext ==
  ASSUME AwakePuts
  PROVE  TypeOK /\ PmInv /\ WireInv /\ MaskInv /\ [Next]_vars => MaskInv'
<1> SUFFICES ASSUME TypeOK, PmInv, WireInv, MaskInv, [Next]_vars PROVE MaskInv'
  OBVIOUS
<1>1. ASSUME UNCHANGED <<board, suspended, hdl, pm>>,
             \A c \in Scodecs : ~suspended[c] => chip'[c] = chip[c]
      PROVE  MaskInv'
  BY <1>1 DEF MaskInv, Unmasking, Finding, AtChip, Scodecs
<1>2. CASE UNCHANGED vars
  BY <1>1, <1>2 DEF vars, drv
<1>3. CASE PutStart
  BY <1>1, <1>3 DEF PutStart, KeepChips, KeepUser, drv
<1>4. CASE PutWrite
  <2>1. Drive(gpioData) /\ UNCHANGED <<board, suspended, hdl, pm>>
    BY <1>4 DEF PutWrite, KeepUser, drv, WireInv, PutInv
  <2>2. \A c \in Scodecs : ~suspended[c] => chip'[c] = chip[c]
    BY <2>1, DriveKeeps DEF WireInv, ResetInv
  <2>3. QED
    BY <1>1, <2>1, <2>2
<1>5. QED
  BY <1>2, <1>3, <1>4, MaskWorld, MaskHandler, MaskPm DEF Next

\* Between two handlings the tip sense of a chip in use is masked for a detection only
\* (cs8409.c:666-677, 834-877): for any number of plugs, suspends and sleeps, whichever
\* handler and PM callback overlapped.
THEOREM MaskedToDetectAlways == ASSUME AwakePuts PROVE Spec => []MaskedToDetect
<1>1. Init => MaskInv
  BY DEF Init, MaskInv
<1>2. TypeOK /\ PmInv /\ WireInv /\ MaskInv /\ [Next]_vars => MaskInv'
  BY MaskNext
<1>3. MaskInv => MaskedToDetect
  BY DEF MaskInv, MaskedToDetect, Quiet, Up, Unmasking, Finding, AtChip
<1>4. QED
  BY <1>1, <1>2, <1>3, WireAlways, PTL DEF Spec
=============================================================================
