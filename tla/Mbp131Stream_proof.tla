-------------------------- MODULE Mbp131Stream_proof --------------------------
(***************************************************************************)
(* Proofs about the streams of the MacBookPro13,1, for any number of amps, *)
(* any volumes and any number of failed reads: the speakers follow the     *)
(* stream and the jack, at the volume of the control, the headphone path   *)
(* is set up and taken down in order, and standby is quiet.                *)
(*                                                                         *)
(* A sequence of I2C writes is reasoned about as the set of steps it has   *)
(* still to do, in the order of their ranks.                               *)
(***************************************************************************)
EXTENDS Mbp131Stream, TLAPS

-----------------------------------------------------------------------------
(* Sequences of steps.                                                     *)

StreamOps == {"power", "clock", "enable", "start", "stop", "take", "unmute", "mute", "disable",
              "unclock", "unpower"}
AmpOps   == {"amp", "volume", "suspend", "allow", "init"}
OtherOps == {"follow", "clkstop", "standby", "down", "exit", "look", "bring"}

Steps == (StreamOps \X Dirs) \union (AmpOps \X Amps) \union (OtherOps \X {""})

\* The order in which a sequence does its steps.
Rank(op) == CASE op \in {"power", "clkstop", "exit", "bring"} -> 1
              [] op \in {"clock", "allow", "init"} -> 2
              [] op \in {"enable", "look"} -> 3
              [] op \in {"start", "stop"} -> 4
              [] op = "take" -> 5
              [] op \in {"unmute", "mute"} -> 6
              [] op = "volume" -> 7
              [] op = "follow" -> 8
              [] op = "amp" -> 9
              [] op \in {"disable", "suspend"} -> 10
              [] op = "unclock" -> 11
              [] OTHER -> 12

Todo(s) == {s[n] : n \in DOMAIN s}

\* Every step once and in its order, the three that a failed read skips together.
Ordered(s) == \A m, n \in DOMAIN s : m < n => s[m] # s[n] /\ Rank(s[m][1]) <= Rank(s[n][1])

Together(s, a, b, c) ==
  \A n \in DOMAIN s : s[n][1] = a =>
    /\ n + 2 \in DOMAIN s
    /\ s[n + 1] = <<b, s[n][2]>> /\ s[n + 2] = <<c, s[n][2]>>

Shape(s) == /\ s \in Seq(Steps) /\ Ordered(s)
            /\ Together(s, "power", "clock", "enable")
            /\ Together(s, "disable", "unclock", "unpower")

\* What is left after the first step.
LEMMA TailShape ==
  ASSUME NEW s, Shape(s), s # <<>>
  PROVE  /\ Shape(Tail(s)) /\ Todo(Tail(s)) = Todo(s) \ {s[1]}
         /\ s[1] \in Steps /\ s[1] \in Todo(s)
         /\ \A x \in Todo(s) : Rank(s[1][1]) <= Rank(x[1])
<1>1. /\ s \in Seq(Steps) /\ Len(s) \in Nat \ {0} /\ DOMAIN s = 1..Len(s)
  BY DEF Shape
<1>2. /\ Tail(s) \in Seq(Steps) /\ DOMAIN Tail(s) = 1..(Len(s) - 1)
      /\ \A n \in 1..(Len(s) - 1) : Tail(s)[n] = s[n + 1]
  BY <1>1
<1>3. Ordered(Tail(s))
  BY <1>1, <1>2 DEF Shape, Ordered
<1>4. ASSUME NEW a, NEW b, NEW c, Together(s, a, b, c)
      PROVE  Together(Tail(s), a, b, c)
  <2> SUFFICES ASSUME NEW n \in 1..(Len(s) - 1), Tail(s)[n][1] = a
               PROVE  /\ n + 2 \in 1..(Len(s) - 1)
                      /\ Tail(s)[n + 1] = <<b, Tail(s)[n][2]>>
                      /\ Tail(s)[n + 2] = <<c, Tail(s)[n][2]>>
    BY <1>2 DEF Together
  <2>1. /\ n + 1 \in 1..Len(s) /\ (n + 1) + 2 \in 1..Len(s)
        /\ s[(n + 1) + 1] = <<b, s[n + 1][2]>> /\ s[(n + 1) + 2] = <<c, s[n + 1][2]>>
    BY <1>1, <1>2, <1>4 DEF Together
  <2> QED
    BY <1>1, <1>2, <2>1
<1>5. ASSUME NEW x \in Todo(s), x # s[1]
      PROVE  x \in Todo(Tail(s))
  <2>1. PICK n \in 1..Len(s) : x = s[n]
    BY <1>1 DEF Todo
  <2>2. n - 1 \in 1..(Len(s) - 1) /\ Tail(s)[n - 1] = x
    BY <1>1, <1>2, <1>5, <2>1
  <2> QED
    BY <1>2, <2>2 DEF Todo
<1>6. ASSUME NEW x \in Todo(Tail(s))
      PROVE  x \in Todo(s) /\ x # s[1]
  <2>1. PICK n \in 1..(Len(s) - 1) : x = s[n + 1]
    BY <1>2 DEF Todo
  <2> QED
    BY <1>1, <2>1 DEF Todo, Shape, Ordered
<1>7. \A n \in 1..Len(s) : n # 1 => Rank(s[1][1]) <= Rank(s[n][1])
  BY <1>1 DEF Shape, Ordered
<1>8. Rank(s[1][1]) \in Nat
  BY DEF Rank
<1>9. \A x \in Todo(s) : Rank(s[1][1]) <= Rank(x[1])
  BY <1>1, <1>7, <1>8 DEF Todo
<1>10. s[1] \in Steps /\ s[1] \in Todo(s)
  BY <1>1 DEF Todo
<1> QED
  BY <1>2, <1>3, <1>4, <1>5, <1>6, <1>9, <1>10 DEF Shape

\* What is left when the first three are skipped.
LEMMA SkipShape ==
  ASSUME NEW s, Shape(s), s # <<>>, NEW a, NEW b, NEW c, Together(s, a, b, c), s[1][1] = a
  PROVE  /\ Shape(SubSeq(s, 4, Len(s)))
         /\ Todo(SubSeq(s, 4, Len(s))) = Todo(s) \ {s[1], <<b, s[1][2]>>, <<c, s[1][2]>>}
<1> DEFINE t == SubSeq(s, 4, Len(s))
<1>1. /\ s \in Seq(Steps) /\ Len(s) \in Nat \ {0} /\ DOMAIN s = 1..Len(s)
  BY DEF Shape
<1>2. /\ 3 \in 1..Len(s) /\ s[2] = <<b, s[1][2]>> /\ s[3] = <<c, s[1][2]>>
  BY <1>1 DEF Together
<1>3. /\ t \in Seq(Steps) /\ DOMAIN t = 1..(Len(s) - 3)
      /\ \A n \in 1..(Len(s) - 3) : t[n] = s[n + 3]
  BY <1>1, <1>2
<1> HIDE DEF t
<1>4. Ordered(t)
  BY <1>1, <1>3 DEF Shape, Ordered
<1>5. ASSUME NEW d, NEW e, NEW f, Together(s, d, e, f)
      PROVE  Together(t, d, e, f)
  <2> SUFFICES ASSUME NEW n \in 1..(Len(s) - 3), t[n][1] = d
               PROVE  /\ n + 2 \in 1..(Len(s) - 3)
                      /\ t[n + 1] = <<e, t[n][2]>> /\ t[n + 2] = <<f, t[n][2]>>
    BY <1>3 DEF Together
  <2>1. /\ n + 3 \in 1..Len(s) /\ (n + 3) + 2 \in 1..Len(s)
        /\ s[(n + 3) + 1] = <<e, s[n + 3][2]>> /\ s[(n + 3) + 2] = <<f, s[n + 3][2]>>
    BY <1>1, <1>3, <1>5 DEF Together
  <2> QED
    BY <1>1, <1>3, <2>1
<1>6. ASSUME NEW x \in Todo(s), x \notin {s[1], s[2], s[3]}
      PROVE  x \in Todo(t)
  <2>1. PICK n \in 1..Len(s) : x = s[n]
    BY <1>1 DEF Todo
  <2>2. n - 3 \in 1..(Len(s) - 3) /\ t[n - 3] = x
    BY <1>1, <1>3, <1>6, <2>1
  <2> QED
    BY <1>3, <2>2 DEF Todo
<1>7. ASSUME NEW x \in Todo(t)
      PROVE  x \in Todo(s) /\ x \notin {s[1], s[2], s[3]}
  <2>1. PICK n \in 1..(Len(s) - 3) : x = s[n + 3]
    BY <1>3 DEF Todo
  <2>2. /\ n + 3 \in DOMAIN s /\ {1, 2, 3} \subseteq DOMAIN s
        /\ \A m \in {1, 2, 3} : m < n + 3
    BY <1>1, <1>2
  <2> QED
    BY <2>1, <2>2 DEF Todo, Shape, Ordered
<1>8. Todo(t) = Todo(s) \ {s[1], s[2], s[3]}
  BY <1>6, <1>7
<1> QED
  BY <1>2, <1>3, <1>4, <1>5, <1>8 DEF Shape, t

\* All of S is to be done before any of T.
Before(S, T) == \A x \in S, y \in T : Rank(x[1]) < Rank(y[1])

\* Two sequences after each other do the steps of both.
LEMMA ConcatShape ==
  ASSUME NEW s, NEW t, Shape(s), Shape(t),
         Before(Todo(s), Todo(t))
  PROVE  Shape(s \o t) /\ Todo(s \o t) = Todo(s) \union Todo(t)
<1> DEFINE u == s \o t
<1>1. /\ s \in Seq(Steps) /\ Len(s) \in Nat /\ DOMAIN s = 1..Len(s)
      /\ t \in Seq(Steps) /\ Len(t) \in Nat /\ DOMAIN t = 1..Len(t)
  BY DEF Shape
<1>2. /\ u \in Seq(Steps) /\ DOMAIN u = 1..(Len(s) + Len(t))
      /\ \A n \in 1..Len(s) : u[n] = s[n]
      /\ \A n \in 1..Len(t) : u[Len(s) + n] = t[n]
      /\ \A n \in DOMAIN u : n > Len(s) => n - Len(s) \in 1..Len(t) /\ u[n] = t[n - Len(s)]
  BY <1>1
<1> HIDE DEF u
<1>3. Ordered(u)
  <2> SUFFICES ASSUME NEW m \in DOMAIN u, NEW n \in DOMAIN u, m < n
               PROVE  u[m] # u[n] /\ Rank(u[m][1]) <= Rank(u[n][1])
    BY DEF Ordered
  <2>1. CASE n <= Len(s)
    BY <1>1, <1>2, <2>1 DEF Shape, Ordered
  <2>2. CASE m > Len(s)
    <3>1. /\ m - Len(s) \in 1..Len(t) /\ n - Len(s) \in 1..Len(t) /\ m - Len(s) < n - Len(s)
          /\ u[m] = t[m - Len(s)] /\ u[n] = t[n - Len(s)]
      BY <1>1, <1>2, <2>2
    <3> QED
      BY <1>1, <3>1 DEF Shape, Ordered
  <2>3. CASE m <= Len(s) /\ n > Len(s)
    <3>1. /\ m \in DOMAIN s /\ u[m] = s[m]
          /\ n - Len(s) \in DOMAIN t /\ u[n] = t[n - Len(s)]
      BY <1>1, <1>2, <2>3
    <3>2. u[m] \in Todo(s) /\ u[n] \in Todo(t)
      BY <3>1, Zenon DEF Todo
    <3>3. Rank(u[m][1]) < Rank(u[n][1])
      BY <3>2 DEF Before
    <3>4. \A op : Rank(op) \in Nat
      BY DEF Rank
    <3> QED
      BY <3>3, <3>4
  <2> QED
    BY <1>1, <1>2, <2>1, <2>2, <2>3
<1>4. ASSUME NEW a, NEW b, NEW c, Together(s, a, b, c), Together(t, a, b, c)
      PROVE  Together(u, a, b, c)
  <2> SUFFICES ASSUME NEW n \in DOMAIN u, u[n][1] = a
               PROVE  /\ n + 2 \in DOMAIN u
                      /\ u[n + 1] = <<b, u[n][2]>> /\ u[n + 2] = <<c, u[n][2]>>
    BY DEF Together
  <2>1. CASE n <= Len(s)
    <3>1. /\ n \in 1..Len(s) /\ n + 1 \in 1..Len(s) /\ n + 2 \in 1..Len(s) /\ s[n][1] = a
          /\ s[n + 1] = <<b, s[n][2]>> /\ s[n + 2] = <<c, s[n][2]>>
      BY <1>1, <1>2, <1>4, <2>1 DEF Together
    <3>2. n + 2 \in DOMAIN u /\ u[n + 1] = s[n + 1] /\ u[n + 2] = s[n + 2] /\ u[n] = s[n]
      BY <1>1, <1>2, <3>1
    <3> QED
      BY <3>1, <3>2
  <2>2. CASE n > Len(s)
    <3>1. PICK k \in 1..Len(t) : n = Len(s) + k /\ u[n] = t[k]
      BY <1>1, <1>2, <2>2
    <3>2. /\ k + 2 \in 1..Len(t) /\ k + 1 \in 1..Len(t)
          /\ t[k + 1] = <<b, t[k][2]>> /\ t[k + 2] = <<c, t[k][2]>>
      BY <1>1, <1>4, <3>1 DEF Together
    <3>3. u[Len(s) + (k + 1)] = t[k + 1] /\ u[Len(s) + (k + 2)] = t[k + 2]
      BY <1>2, <3>2
    <3>4. n + 1 = Len(s) + (k + 1) /\ n + 2 = Len(s) + (k + 2) /\ n + 2 \in DOMAIN u
      BY <1>1, <1>2, <3>1, <3>2
    <3> QED
      BY <3>1, <3>2, <3>3, <3>4
  <2> QED
    BY <1>1, <1>2, <2>1, <2>2
<1>5. Shape(u)
  BY <1>2, <1>3, <1>4 DEF Shape
<1>6. Todo(u) = Todo(s) \union Todo(t)
  <2>1. ASSUME NEW x \in Todo(u) PROVE x \in Todo(s) \union Todo(t)
    BY <1>1, <1>2 DEF Todo
  <2>2. ASSUME NEW x \in Todo(s) PROVE x \in Todo(u)
    <3>1. PICK n \in 1..Len(s) : x = s[n]
      BY <1>1 DEF Todo
    <3>2. n \in DOMAIN u /\ u[n] = x
      BY <1>1, <1>2, <3>1
    <3> QED
      BY <3>2, Zenon DEF Todo
  <2>3. ASSUME NEW x \in Todo(t) PROVE x \in Todo(u)
    <3>1. PICK n \in 1..Len(t) : x = t[n]
      BY <1>1 DEF Todo
    <3>2. Len(s) + n \in DOMAIN u /\ u[Len(s) + n] = x
      BY <1>1, <1>2, <3>1
    <3> QED
      BY <3>2, Zenon DEF Todo
  <2> QED
    BY <2>1, <2>2, <2>3
<1> QED
  BY <1>5, <1>6 DEF u

\* The numbers of the steps.
LEMMA RankTable ==
  /\ Rank("power") = 1 /\ Rank("clkstop") = 1 /\ Rank("exit") = 1 /\ Rank("bring") = 1
  /\ Rank("clock") = 2 /\ Rank("allow") = 2 /\ Rank("init") = 2
  /\ Rank("enable") = 3 /\ Rank("look") = 3
  /\ Rank("start") = 4 /\ Rank("stop") = 4 /\ Rank("take") = 5
  /\ Rank("unmute") = 6 /\ Rank("mute") = 6
  /\ Rank("volume") = 7 /\ Rank("follow") = 8 /\ Rank("amp") = 9
  /\ Rank("disable") = 10 /\ Rank("suspend") = 10
  /\ Rank("unclock") = 11
  /\ Rank("unpower") = 12 /\ Rank("standby") = 12 /\ Rank("down") = 12
BY DEF Rank

\* A sequence, what it has to do, and from which number to which.
Span(s, S, lo, hi) == /\ Shape(s) /\ Todo(s) = S
                      /\ \A x \in S : lo <= Rank(x[1]) /\ Rank(x[1]) <= hi

\* Numbers that do not overlap: the two after each other.
LEMMA ConcatSpan ==
  ASSUME NEW s, NEW t, NEW S, NEW T, NEW a \in Nat, NEW b \in Nat, NEW c \in Nat, NEW d \in Nat,
         Span(s, S, a, b), Span(t, T, c, d), a <= b, b < c, c <= d
  PROVE  Span(s \o t, S \union T, a, d)
<1>1. \A op : Rank(op) \in Nat
  BY DEF Rank
<1>2. \A x \in S, y \in T : Rank(x[1]) < Rank(y[1])
  BY <1>1 DEF Span
<1>3. Before(Todo(s), Todo(t))
  BY <1>2, Zenon DEF Before, Span
<1>4. Shape(s \o t) /\ Todo(s \o t) = S \union T
  BY <1>3, ConcatShape, Zenon DEF Span
<1>5. \A x \in S \union T : a <= Rank(x[1]) /\ Rank(x[1]) <= d
  BY <1>1 DEF Span
<1> QED
  BY <1>4, <1>5 DEF Span

\* The operation of a step.
LEMMA PairOp == \A x, y : <<x, y>>[1] = x /\ <<x, y>>[2] = y
OBVIOUS

\* No step at all.
LEMMA EmptySpan == \A lo, hi : Span(<<>>, {}, lo, hi)
BY DEF Span, Shape, Ordered, Together, Todo

\* One step that no failed read skips.
LEMMA OneSpan ==
  ASSUME NEW op, NEW y, <<op, y>> \in Steps, op \notin {"power", "disable"}
  PROVE  Span(<<<<op, y>>>>, {<<op, y>>}, Rank(op), Rank(op))
<1> DEFINE s == <<<<op, y>>>>
<1>1. s \in Seq(Steps) /\ DOMAIN s = {1} /\ s[1] = <<op, y>>
  OBVIOUS
<1>2. s[1][1] = op
  BY <1>1, PairOp, Zenon
<1> HIDE DEF s
<1>3. Todo(s) = {<<op, y>>}
  BY <1>1 DEF Todo
<1>4. Shape(s)
  BY <1>1, <1>2 DEF Shape, Ordered, Together
<1>5. Rank(op) \in Nat
  BY DEF Rank
<1>6. \A x \in {<<op, y>>} : Rank(op) <= Rank(x[1]) /\ Rank(x[1]) <= Rank(op)
  <2>1. Rank(op) <= Rank(op)
    BY <1>5
  <2> QED
    BY <2>1, PairOp, Zenon
<1> QED
  BY <1>3, <1>4, <1>6 DEF Span, s

\* Three steps on one stream.
LEMMA ThreeSpan ==
  ASSUME NEW d \in Dirs, NEW a \in StreamOps, NEW b \in StreamOps, NEW c \in StreamOps,
         Rank(a) < Rank(b), Rank(b) < Rank(c),
         b \notin {"power", "disable"}, c \notin {"power", "disable"},
         a = "power" => b = "clock" /\ c = "enable",
         a = "disable" => b = "unclock" /\ c = "unpower"
  PROVE  Span(<<<<a, d>>, <<b, d>>, <<c, d>>>>, {<<a, d>>, <<b, d>>, <<c, d>>}, Rank(a), Rank(c))
<1> DEFINE s == <<<<a, d>>, <<b, d>>, <<c, d>>>>
<1>0. <<a, d>> \in Steps /\ <<b, d>> \in Steps /\ <<c, d>> \in Steps
  BY DEF Steps
<1>1. /\ s \in Seq(Steps) /\ DOMAIN s = {1, 2, 3}
      /\ s[1] = <<a, d>> /\ s[2] = <<b, d>> /\ s[3] = <<c, d>>
      /\ 1 + 1 = 2 /\ 1 + 2 = 3
  BY <1>0
<1> HIDE DEF s
<1>2. /\ Rank(a) \in Nat /\ Rank(b) \in Nat /\ Rank(c) \in Nat
      /\ Rank(a) < Rank(c) /\ a # b /\ b # c /\ a # c
  <2>1. \A op : Rank(op) \in Nat
    BY DEF Rank
  <2> QED
    BY <2>1
<1>3. Ordered(s)
  BY <1>1, <1>2 DEF Ordered
<1>4. Together(s, "power", "clock", "enable") /\ Together(s, "disable", "unclock", "unpower")
  BY <1>1 DEF Together
<1>5. Todo(s) = {<<a, d>>, <<b, d>>, <<c, d>>}
  BY <1>1 DEF Todo
<1>6. \A x \in {<<a, d>>, <<b, d>>, <<c, d>>} : Rank(a) <= Rank(x[1]) /\ Rank(x[1]) <= Rank(c)
  BY <1>2, PairOp
<1> QED
  BY <1>1, <1>3, <1>4, <1>5, <1>6 DEF Span, Shape, s

\* One step for every amp.
Loop(op) == {<<op, i>> : i \in Amps}

\* A loop over the amps, one step for each.
LEMMA LoopSpan ==
  ASSUME NEW op \in AmpOps
  PROVE  Span(AmpLoop(op), Loop(op), Rank(op), Rank(op))
<1> DEFINE s == AmpLoop(op)
<1>1. /\ s \in Seq(Steps) /\ DOMAIN s = Amps
      /\ \A i \in Amps : s[i] = <<op, i>>
  <2>1. \A i \in Amps : <<op, i>> \in Steps
    BY DEF Steps
  <2>2. s \in [1..NumAmps -> Steps] /\ NumAmps \in Nat
    BY <2>1, StreamAssumption DEF AmpLoop, Amps
  <2>3. s \in Seq(Steps)
    BY <2>2
  <2> QED
    BY <2>3 DEF AmpLoop
<1> HIDE DEF s
<1>2. Rank(op) \in Nat
  BY DEF Rank
<1>3. Ordered(s)
  <2>1. ASSUME NEW m \in Amps, NEW n \in Amps, m < n
        PROVE  s[m] # s[n] /\ Rank(s[m][1]) <= Rank(s[n][1])
    <3>1. s[m] = <<op, m>> /\ s[n] = <<op, n>> /\ m # n
      BY <1>1, <2>1 DEF Amps
    <3>2. s[m][1] = op /\ s[n][1] = op /\ s[m] # s[n]
      BY <3>1, PairOp
    <3> QED
      BY <1>2, <3>2
  <2> QED
    BY <1>1, <2>1 DEF Ordered
<1>4. Together(s, "power", "clock", "enable") /\ Together(s, "disable", "unclock", "unpower")
  BY <1>1, PairOp DEF Together, AmpOps
<1>5. Todo(s) = Loop(op)
  BY <1>1 DEF Todo, Loop
<1>6. ASSUME NEW x \in Loop(op)
      PROVE  Rank(op) <= Rank(x[1]) /\ Rank(x[1]) <= Rank(op)
  <2>1. PICK i \in Amps : x = <<op, i>>
    BY DEF Loop
  <2>2. x[1] = op
    BY <2>1, PairOp, Zenon
  <2> QED
    BY <1>2, <2>2
<1> QED
  BY <1>1, <1>3, <1>4, <1>5, <1>6 DEF Span, Shape, s

\* What each sequence of the driver has to do.
SpeakerSet  == {<<"follow", "">>} \union Loop("amp")
SetUp(d)    == {<<"power", d>>, <<"clock", d>>, <<"enable", d>>}
Playing(d)  == {<<"start", d>>, <<"take", d>>, <<"unmute", d>>}
Stopping(d) == {<<"stop", d>>} \union {<<"mute", d>>}
TakeDown(d) == {<<"disable", d>>, <<"unclock", d>>, <<"unpower", d>>}
PrepareSet(d) == (SetUp(d) \union Playing(d))
                   \union (IF d = "playback" THEN Loop("volume") \union SpeakerSet ELSE {})
CleanupSet(d) == (Stopping(d) \union (IF d = "playback" THEN SpeakerSet ELSE {}))
                   \union TakeDown(d)
SuspendEnd(k) == IF k = "runtime" THEN "standby" ELSE "down"
SuspendSet(k) == (({<<"clkstop", "">>} \union Loop("amp")) \union Loop("suspend"))
                   \union {<<SuspendEnd(k), "">>}
LightSet == ({<<"exit", "">>} \union Loop("allow")) \union {<<"look", "">>}
FullSet  == {<<"bring", "">>} \union Loop("init")

\* mbp131_update_speakers(): the jack asked once, then each amp.
LEMMA SpeakersSpan == Span(Speakers, SpeakerSet, 8, 9)
<1> DEFINE a == <<<<"follow", "">>>>
           A == {<<"follow", "">>}
<1>1. Span(a, A, 8, 8)
  <2>1. <<"follow", "">> \in Steps
    BY DEF Steps, OtherOps
  <2> QED
    BY <2>1, OneSpan, RankTable
<1>2. Span(AmpLoop("amp"), Loop("amp"), 9, 9)
  BY LoopSpan, RankTable DEF AmpOps
<1> HIDE DEF a, A
<1>3. Span(a \o AmpLoop("amp"), A \union Loop("amp"), 8, 9)
  BY <1>1, <1>2, ConcatSpan
<1> QED
  BY <1>3 DEF Speakers, SpeakerSet, a, A

\* mbp131_spk_volume_put() with a stream that plays.
LEMMA VolumeSpan == Span(AmpLoop("volume"), Loop("volume"), 7, 7)
BY LoopSpan, RankTable DEF AmpOps

\* Both branches of a hook that is about the speakers in one direction only.
LEMMA IfSpan ==
  ASSUME NEW s, NEW S, NEW a, NEW b, Span(s, S, a, b), NEW C
  PROVE  Span(IF C THEN s ELSE <<>>, IF C THEN S ELSE {}, a, b)
BY EmptySpan

\* The prepare hooks: power, clock, channels, the mark and the mixer, then the speakers.
LEMMA PrepareSpan ==
  ASSUME NEW d \in Dirs
  PROVE  Span(PrepareHook(d), PrepareSet(d), 1, 9)
<1> DEFINE m == <<<<"start", d>>, <<"take", d>>, <<"unmute", d>>>>
           e == IF d = "playback" THEN AmpLoop("volume") \o Speakers ELSE <<>>
           E == IF d = "playback" THEN Loop("volume") \union SpeakerSet ELSE {}
<1>1. Span(StreamOn(d), SetUp(d), 1, 3)
  <2>1. /\ "power" \in StreamOps /\ "clock" \in StreamOps /\ "enable" \in StreamOps
        /\ Rank("power") < Rank("clock") /\ Rank("clock") < Rank("enable")
        /\ "clock" \notin {"power", "disable"} /\ "enable" \notin {"power", "disable"}
        /\ "power" = "power" => "clock" = "clock" /\ "enable" = "enable"
        /\ "power" = "disable" => "clock" = "unclock" /\ "enable" = "unpower"
        /\ Rank("power") = 1 /\ Rank("enable") = 3
    BY RankTable DEF StreamOps
  <2> QED
    BY <2>1, ThreeSpan, Zenon DEF StreamOn, SetUp
<1>2. Span(m, Playing(d), 4, 6)
  <2>1. /\ "start" \in StreamOps /\ "take" \in StreamOps /\ "unmute" \in StreamOps
        /\ Rank("start") < Rank("take") /\ Rank("take") < Rank("unmute")
        /\ "take" \notin {"power", "disable"} /\ "unmute" \notin {"power", "disable"}
        /\ "start" = "power" => "take" = "clock" /\ "unmute" = "enable"
        /\ "start" = "disable" => "take" = "unclock" /\ "unmute" = "unpower"
        /\ Rank("start") = 4 /\ Rank("unmute") = 6
    BY RankTable DEF StreamOps
  <2> QED
    BY <2>1, ThreeSpan, Zenon DEF Playing
<1>3. Span(e, E, 7, 9)
  <2>1. Span(AmpLoop("volume") \o Speakers, Loop("volume") \union SpeakerSet, 7, 9)
    BY VolumeSpan, SpeakersSpan, ConcatSpan
  <2> QED
    BY <2>1, IfSpan, Zenon
<1> HIDE DEF m, e, E
<1>4. Span(StreamOn(d) \o m, SetUp(d) \union Playing(d), 1, 6)
  BY <1>1, <1>2, ConcatSpan
<1>5. Span((StreamOn(d) \o m) \o e, (SetUp(d) \union Playing(d)) \union E, 1, 9)
  BY <1>3, <1>4, ConcatSpan
<1> QED
  BY <1>5 DEF PrepareHook, PrepareSet, m, e, E

\* The cleanup hooks: the mark and the mixer, the speakers, then the way back.
LEMMA CleanupSpan ==
  ASSUME NEW d \in Dirs
  PROVE  Span(CleanupHook(d), CleanupSet(d), 4, 12)
<1> DEFINE m == <<<<"stop", d>>, <<"mute", d>>>>
           e == IF d = "playback" THEN Speakers ELSE <<>>
           E == IF d = "playback" THEN SpeakerSet ELSE {}
<1>1. Span(m, Stopping(d), 4, 6)
  <2>1. <<"stop", d>> \in Steps /\ <<"mute", d>> \in Steps
    BY DEF Steps, StreamOps
  <2>2. Span(<<<<"stop", d>>>>, {<<"stop", d>>}, 4, 4)
    BY <2>1, OneSpan, RankTable
  <2>3. Span(<<<<"mute", d>>>>, {<<"mute", d>>}, 6, 6)
    BY <2>1, OneSpan, RankTable
  <2>4. Span(<<<<"stop", d>>>> \o <<<<"mute", d>>>>, Stopping(d), 4, 6)
    BY <2>2, <2>3, ConcatSpan DEF Stopping
  <2>5. m = <<<<"stop", d>>>> \o <<<<"mute", d>>>>
    OBVIOUS
  <2> QED
    BY <2>4, <2>5, Zenon
<1>2. Span(e, E, 8, 9)
  BY SpeakersSpan, IfSpan, Zenon
<1>3. Span(StreamOff(d), TakeDown(d), 10, 12)
  <2>1. /\ "disable" \in StreamOps /\ "unclock" \in StreamOps /\ "unpower" \in StreamOps
        /\ Rank("disable") < Rank("unclock") /\ Rank("unclock") < Rank("unpower")
        /\ "unclock" \notin {"power", "disable"} /\ "unpower" \notin {"power", "disable"}
        /\ "disable" = "power" => "unclock" = "clock" /\ "unpower" = "enable"
        /\ "disable" = "disable" => "unclock" = "unclock" /\ "unpower" = "unpower"
        /\ Rank("disable") = 10 /\ Rank("unpower") = 12
    BY RankTable DEF StreamOps
  <2> QED
    BY <2>1, ThreeSpan, Zenon DEF StreamOff, TakeDown
<1> HIDE DEF m, e, E
<1>4. Span(m \o e, Stopping(d) \union E, 4, 9)
  BY <1>1, <1>2, ConcatSpan
<1>5. Span((m \o e) \o StreamOff(d), (Stopping(d) \union E) \union TakeDown(d), 4, 12)
  BY <1>3, <1>4, ConcatSpan
<1> QED
  BY <1>5 DEF CleanupHook, CleanupSet, m, e, E

\* mbp131_suspend(): the clock, the amps off, the amps marked, the chip.
LEMMA SuspendSpan ==
  ASSUME NEW k
  PROVE  Span(SuspendSteps(k), SuspendSet(k), 1, 12)
<1> DEFINE a == <<<<"clkstop", "">>>>
           b == AmpLoop("amp")
           c == AmpLoop("suspend")
           z == <<<<SuspendEnd(k), "">>>>
           A == {<<"clkstop", "">>}
           Z == {<<SuspendEnd(k), "">>}
<1>1. Span(a, A, 1, 1)
  <2>1. <<"clkstop", "">> \in Steps
    BY DEF Steps, OtherOps
  <2> QED
    BY <2>1, OneSpan, RankTable
<1>2. Span(z, Z, 12, 12)
  <2>1. /\ SuspendEnd(k) \in OtherOps /\ SuspendEnd(k) \notin {"power", "disable"}
        /\ Rank(SuspendEnd(k)) = 12
    BY RankTable DEF OtherOps, SuspendEnd
  <2>2. <<SuspendEnd(k), "">> \in Steps
    BY <2>1 DEF Steps
  <2> QED
    BY <2>1, <2>2, OneSpan
<1>3. Span(b, Loop("amp"), 9, 9) /\ Span(c, Loop("suspend"), 10, 10)
  BY LoopSpan, RankTable DEF AmpOps
<1>4. SuspendSteps(k) = ((a \o b) \o c) \o z
  BY DEF SuspendSteps, SuspendEnd
<1>5. SuspendSet(k) = ((A \union Loop("amp")) \union Loop("suspend")) \union Z
  BY DEF SuspendSet
<1> HIDE DEF a, b, c, z, A, Z
<1>6. Span(a \o b, A \union Loop("amp"), 1, 9)
  BY <1>1, <1>3, ConcatSpan
<1>7. Span((a \o b) \o c, (A \union Loop("amp")) \union Loop("suspend"), 1, 10)
  BY <1>3, <1>6, ConcatSpan
<1>8. Span(((a \o b) \o c) \o z, ((A \union Loop("amp")) \union Loop("suspend")) \union Z, 1, 12)
  BY <1>2, <1>7, ConcatSpan
<1> QED
  BY <1>4, <1>5, <1>8

\* The light resume: out of standby, the amps allowed, a look at the jack.
LEMMA LightSpan == Span(LightSteps, LightSet, 1, 3)
<1> DEFINE a == <<<<"exit", "">>>>
           b == AmpLoop("allow")
           c == <<<<"look", "">>>>
           A == {<<"exit", "">>}
           C == {<<"look", "">>}
<1>1. Span(a, A, 1, 1) /\ Span(c, C, 3, 3)
  <2>1. <<"exit", "">> \in Steps /\ <<"look", "">> \in Steps
    BY DEF Steps, OtherOps
  <2> QED
    BY <2>1, OneSpan, RankTable
<1>2. Span(b, Loop("allow"), 2, 2)
  BY LoopSpan, RankTable DEF AmpOps
<1>3. LightSteps = (a \o b) \o c
  BY DEF LightSteps
<1>4. LightSet = (A \union Loop("allow")) \union C
  BY DEF LightSet
<1> HIDE DEF a, b, c, A, C
<1>5. Span(a \o b, A \union Loop("allow"), 1, 2)
  BY <1>1, <1>2, ConcatSpan
<1>6. Span((a \o b) \o c, (A \union Loop("allow")) \union C, 1, 3)
  BY <1>1, <1>5, ConcatSpan
<1> QED
  BY <1>3, <1>4, <1>6

\* The full one: the chip out of reset, the amps from their table.
LEMMA FullSpan == Span(FullSteps, FullSet, 1, 2)
<1> DEFINE a == <<<<"bring", "">>>>
           A == {<<"bring", "">>}
<1>1. Span(a, A, 1, 1)
  <2>1. <<"bring", "">> \in Steps
    BY DEF Steps, OtherOps
  <2> QED
    BY <2>1, OneSpan, RankTable
<1>2. Span(AmpLoop("init"), Loop("init"), 2, 2)
  BY LoopSpan, RankTable DEF AmpOps
<1> HIDE DEF a, A
<1>3. Span(a \o AmpLoop("init"), A \union Loop("init"), 1, 2)
  BY <1>1, <1>2, ConcatSpan
<1> QED
  BY <1>3 DEF FullSteps, FullSet, a, A

-----------------------------------------------------------------------------
(* What is due: the arguments an operation has still to be done for.       *)

Ops       == StreamOps \union AmpOps \union OtherOps
Arguments == Dirs \union Amps \union {""}

Due(S) == [op \in Ops |-> {a \in Arguments : <<op, a>> \in S}]

\* Nothing is left that comes before op.
First(F, op) == \A o \in Ops : F[o] # {} => Rank(op) <= Rank(o)

\* The operations by name.
LEMMA OpsAre ==
  /\ "power" \in Ops /\ "clock" \in Ops /\ "enable" \in Ops /\ "start" \in Ops
  /\ "stop" \in Ops /\ "take" \in Ops /\ "unmute" \in Ops /\ "mute" \in Ops
  /\ "disable" \in Ops /\ "unclock" \in Ops /\ "unpower" \in Ops
  /\ "amp" \in Ops /\ "volume" \in Ops /\ "suspend" \in Ops /\ "allow" \in Ops
  /\ "init" \in Ops /\ "follow" \in Ops /\ "clkstop" \in Ops /\ "standby" \in Ops
  /\ "down" \in Ops /\ "exit" \in Ops /\ "look" \in Ops /\ "bring" \in Ops
BY DEF Ops, StreamOps, AmpOps, OtherOps

\* Each operation has arguments of its kind.
LEMMA StepParts ==
  ASSUME NEW x \in Steps
  PROVE  /\ x = <<x[1], x[2]>> /\ x[1] \in Ops /\ x[2] \in Arguments
         /\ x[1] \in StreamOps => x[2] \in Dirs
         /\ x[1] \in AmpOps => x[2] \in Amps
         /\ x[1] \in OtherOps => x[2] = ""
<1>0. \A E : x \in OtherOps \X E => \E o \in OtherOps, e \in E : x = <<o, e>>
  OBVIOUS
<1>1. CASE x \in StreamOps \X Dirs
  <2>1. x = <<x[1], x[2]>> /\ x[1] \in StreamOps /\ x[2] \in Dirs
    BY <1>1
  <2>2. x[1] \notin AmpOps /\ x[1] \notin OtherOps
    BY <2>1 DEF StreamOps, AmpOps, OtherOps
  <2> QED
    BY <2>1, <2>2 DEF Ops, Arguments
<1>2. CASE x \in AmpOps \X Amps
  <2>1. x = <<x[1], x[2]>> /\ x[1] \in AmpOps /\ x[2] \in Amps
    BY <1>2
  <2>2. x[1] \notin StreamOps /\ x[1] \notin OtherOps
    BY <2>1 DEF StreamOps, AmpOps, OtherOps
  <2> QED
    BY <2>1, <2>2 DEF Ops, Arguments
<1> DEFINE None == {""}
<1> HIDE DEF None
<1>3. CASE x \in OtherOps \X None
  <2>0. PICK o \in OtherOps, e \in None : x = <<o, e>>
    BY <1>0, <1>3
  <2>1. x = <<x[1], x[2]>> /\ x[1] \in OtherOps /\ x[2] = ""
    BY <2>0, PairOp DEF None
  <2>2. x[1] \notin AmpOps /\ x[1] \notin StreamOps
    BY <2>1 DEF StreamOps, AmpOps, OtherOps
  <2> QED
    BY <2>1, <2>2 DEF Ops, Arguments
<1> QED
  BY <1>1, <1>2, <1>3 DEF Steps, None

\* By kind.
DueTyped(F) ==
  /\ F \in [Ops -> SUBSET Arguments]
  /\ \A op \in StreamOps : F[op] \subseteq Dirs
  /\ \A op \in AmpOps : F[op] \subseteq Amps
  /\ \A op \in OtherOps : F[op] \subseteq {""}

\* The arguments due in a sequence of steps are of their kind.
LEMMA ShapeTyped ==
  ASSUME NEW s, Shape(s)
  PROVE  DueTyped(Due(Todo(s)))
<1>1. \A x \in Todo(s) : x \in Steps
  BY DEF Todo, Shape
<1>2. ASSUME NEW op \in Ops, NEW a \in Due(Todo(s))[op]
      PROVE  /\ op \in StreamOps => a \in Dirs
             /\ op \in AmpOps => a \in Amps
             /\ op \in OtherOps => a = ""
  <2>1. <<op, a>> \in Steps
    BY <1>1, <1>2 DEF Due
  <2>2. <<op, a>>[1] = op /\ <<op, a>>[2] = a
    BY PairOp
  <2> QED
    BY <2>1, <2>2, StepParts, Zenon
<1>3. Due(Todo(s)) \in [Ops -> SUBSET Arguments]
  BY DEF Due
<1>4. StreamOps \subseteq Ops /\ AmpOps \subseteq Ops /\ OtherOps \subseteq Ops
  BY DEF Ops
<1> QED
  BY <1>2, <1>3, <1>4 DEF DueTyped

\* The first step done.
LEMMA TailDue ==
  ASSUME NEW s, Shape(s), s # <<>>, NEW op, s[1][1] = op
  PROVE  /\ Shape(Tail(s)) /\ op \in Ops
         /\ s[1][2] \in Due(Todo(s))[op]
         /\ Due(Todo(Tail(s)))[op] = Due(Todo(s))[op] \ {s[1][2]}
         /\ \A o \in Ops : o # op => Due(Todo(Tail(s)))[o] = Due(Todo(s))[o]
         /\ First(Due(Todo(s)), op)
<1> DEFINE a == s[1][2]
           S == Todo(s)
<1>1. /\ Shape(Tail(s)) /\ Todo(Tail(s)) = S \ {s[1]}
      /\ s[1] \in Steps /\ s[1] \in S
      /\ \A x \in S : Rank(s[1][1]) <= Rank(x[1])
  BY TailShape
<1>2. s[1] = <<op, a>> /\ op \in Ops /\ a \in Arguments
  BY <1>1, StepParts
<1>3. Todo(Tail(s)) = S \ {<<op, a>>} /\ <<op, a>> \in S
  BY <1>1, <1>2
<1>4. \A x \in S : Rank(op) <= Rank(x[1])
  BY <1>1
<1>5. \A o, b : <<o, b>> = <<op, a>> <=> o = op /\ b = a
  OBVIOUS
<1> HIDE DEF a, S
<1>6. a \in Due(S)[op]
  BY <1>2, <1>3 DEF Due
<1>7. Due(S \ {<<op, a>>})[op] = Due(S)[op] \ {a}
  BY <1>2, <1>5 DEF Due
<1>8. \A o \in Ops : o # op => Due(S \ {<<op, a>>})[o] = Due(S)[o]
  BY <1>5 DEF Due
<1>9. First(Due(S), op)
  <2> SUFFICES ASSUME NEW o \in Ops, Due(S)[o] # {}
               PROVE  Rank(op) <= Rank(o)
    BY Zenon DEF First
  <2>1. PICK b \in Arguments : <<o, b>> \in S
    BY DEF Due
  <2>2. Rank(op) <= Rank(<<o, b>>[1])
    BY <1>4, <2>1, Zenon
  <2> QED
    BY <2>2, PairOp
<1> QED
  BY <1>1, <1>2, <1>3, <1>6, <1>7, <1>8, <1>9, Zenon DEF a, S

\* Three skipped.
LEMMA SkipDue ==
  ASSUME NEW s, Shape(s), s # <<>>, NEW op, NEW b, NEW c, Together(s, op, b, c), s[1][1] = op,
         b \in Ops, c \in Ops
  PROVE  /\ Shape(SubSeq(s, 4, Len(s))) /\ op \in Ops
         /\ s[1][2] \in Due(Todo(s))[op]
         /\ \A o \in Ops : Due(Todo(SubSeq(s, 4, Len(s))))[o]
                             = Due(Todo(s))[o] \ (IF o \in {op, b, c} THEN {s[1][2]} ELSE {})
         /\ First(Due(Todo(s)), op)
<1> DEFINE a == s[1][2]
           S == Todo(s)
           t == SubSeq(s, 4, Len(s))
<1>1. op \in Ops /\ a \in Due(S)[op] /\ First(Due(S), op)
  BY TailDue
<1>2. s[1] \in Steps
  BY TailShape
<1>3. s[1] = <<op, a>> /\ a \in Arguments
  BY <1>2, StepParts
<1>4. Shape(t) /\ Todo(t) = S \ {<<op, a>>, <<b, a>>, <<c, a>>}
  <2>1. Shape(t) /\ Todo(t) = S \ {s[1], <<b, a>>, <<c, a>>}
    BY SkipShape
  <2> QED
    BY <2>1, <1>3
<1>5. \A o, e, x : <<o, e>> = <<x, a>> <=> o = x /\ e = a
  OBVIOUS
<1> HIDE DEF a, S, t
<1>6. \A o \in Ops : Due(S \ {<<op, a>>, <<b, a>>, <<c, a>>})[o]
                       = Due(S)[o] \ (IF o \in {op, b, c} THEN {a} ELSE {})
  BY <1>3, <1>5 DEF Due
<1> QED
  BY <1>1, <1>4, <1>6, Zenon DEF a, S, t

-----------------------------------------------------------------------------
(* What is due at the start of each sequence.                              *)

\* What is due in two parts.
LEMMA DueUnion ==
  ASSUME NEW S, NEW T, NEW op \in Ops
  PROVE  Due(S \union T)[op] = Due(S)[op] \union Due(T)[op]
BY DEF Due

\* What is due in three.
LEMMA DueUnion3 ==
  ASSUME NEW S, NEW T, NEW U, NEW op \in Ops
  PROVE  Due((S \union T) \union U)[op] = (Due(S)[op] \union Due(T)[op]) \union Due(U)[op]
BY DEF Due

\* What is due in four.
LEMMA DueUnion4 ==
  ASSUME NEW S, NEW T, NEW U, NEW V, NEW op \in Ops
  PROVE  Due(((S \union T) \union U) \union V)[op]
           = ((Due(S)[op] \union Due(T)[op]) \union Due(U)[op]) \union Due(V)[op]
BY DEF Due

\* What one step is due.
LEMMA DueOne ==
  ASSUME NEW o, NEW a \in Arguments, NEW op \in Ops
  PROVE  Due({<<o, a>>})[op] = IF op = o THEN {a} ELSE {}
<1>1. \A e, b : <<e, b>> = <<o, a>> <=> e = o /\ b = a
  OBVIOUS
<1>2. \A b : <<op, b>> \in {<<o, a>>} <=> op = o /\ b = a
  BY <1>1
<1> DEFINE S == {<<o, a>>}
<1> HIDE DEF S
<1>3. Due(S)[op] = {b \in Arguments : <<op, b>> \in S}
  BY DEF Due
<1>4. Due(S)[op] = {b \in Arguments : op = o /\ b = a}
  BY <1>2, <1>3 DEF S
<1> QED
  BY <1>4 DEF S

\* What the three steps of a block are due, which a failed read skips.
LEMMA DueThree ==
  ASSUME NEW o, NEW p, NEW q, NEW a \in Arguments, NEW op \in Ops
  PROVE  Due({<<o, a>>, <<p, a>>, <<q, a>>})[op] = IF op \in {o, p, q} THEN {a} ELSE {}
<1>1. {<<o, a>>, <<p, a>>, <<q, a>>} = ({<<o, a>>} \union {<<p, a>>}) \union {<<q, a>>}
  OBVIOUS
<1>2. /\ Due({<<o, a>>})[op] = IF op = o THEN {a} ELSE {}
      /\ Due({<<p, a>>})[op] = IF op = p THEN {a} ELSE {}
      /\ Due({<<q, a>>})[op] = IF op = q THEN {a} ELSE {}
  BY DueOne, Zenon
<1> DEFINE A == {<<o, a>>}
           B == {<<p, a>>}
           C == {<<q, a>>}
           E == {<<o, a>>, <<p, a>>, <<q, a>>}
<1>3. E = (A \union B) \union C
  BY <1>1, Zenon
<1> HIDE DEF A, B, C, E
<1>4. Due((A \union B) \union C)[op] = (Due(A)[op] \union Due(B)[op]) \union Due(C)[op]
  BY DueUnion3
<1>5. /\ Due(A)[op] = IF op = o THEN {a} ELSE {}
      /\ Due(B)[op] = IF op = p THEN {a} ELSE {}
      /\ Due(C)[op] = IF op = q THEN {a} ELSE {}
  BY <1>2, Zenon DEF A, B, C
<1>6. Due(E)[op] = IF op \in {o, p, q} THEN {a} ELSE {}
  BY <1>3, <1>4, <1>5
<1> QED
  BY <1>6, Zenon DEF E

\* What a loop over the amps is due.
LEMMA DueLoop ==
  ASSUME NEW o, NEW op \in Ops
  PROVE  Due(Loop(o))[op] = IF op = o THEN Amps ELSE {}
<1>1. \A a : <<op, a>> \in Loop(o) <=> op = o /\ a \in Amps
  <2>1. ASSUME NEW a, <<op, a>> \in Loop(o) PROVE op = o /\ a \in Amps
    <3>1. PICK i \in Amps : <<op, a>> = <<o, i>>
      BY <2>1 DEF Loop
    <3> QED
      BY <3>1
  <2>2. ASSUME NEW a \in Amps PROVE <<o, a>> \in Loop(o)
    BY DEF Loop
  <2> QED
    BY <2>1, <2>2, Zenon
<1> DEFINE S == Loop(o)
<1> HIDE DEF S
<1>2. Due(S)[op] = {b \in Arguments : <<op, b>> \in S}
  BY DEF Due
<1>3. Due(S)[op] = {b \in Arguments : op = o /\ b \in Amps}
  BY <1>1, <1>2 DEF S
<1>4. Amps \subseteq Arguments
  BY DEF Arguments
<1> QED
  BY <1>3, <1>4 DEF S

\* Nothing is due where nothing is left.
LEMMA DueEmpty == \A op \in Ops : Due({})[op] = {}
BY DEF Due

\* The speakers brought to follow.
LEMMA SpeakerDue ==
  ASSUME NEW op \in Ops
  PROVE  Due(SpeakerSet)[op] = IF op = "follow" THEN {""} ELSE IF op = "amp" THEN Amps ELSE {}
<1> DEFINE A == {<<"follow", "">>}
           B == Loop("amp")
<1>1. SpeakerSet = A \union B /\ "" \in Arguments
  BY DEF SpeakerSet, Arguments
<1>2. Due(A)[op] = IF op = "follow" THEN {""} ELSE {}
  BY <1>1, DueOne, Zenon
<1>3. Due(B)[op] = IF op = "amp" THEN Amps ELSE {}
  BY DueLoop, Zenon
<1> HIDE DEF A, B
<1>4. Due(A \union B)[op] = Due(A)[op] \union Due(B)[op]
  BY DueUnion
<1> QED
  BY <1>1, <1>2, <1>3, <1>4

\* A volume written to every amp.
LEMMA VolumeDue ==
  ASSUME NEW op \in Ops
  PROVE  Due(Loop("volume"))[op] = IF op = "volume" THEN Amps ELSE {}
BY DueLoop, Zenon

\* A stream prepared.
LEMMA PrepareDue ==
  ASSUME NEW d \in Dirs, NEW op \in Ops
  PROVE  Due(PrepareSet(d))[op] =
           IF op \in {"power", "clock", "enable", "start", "take", "unmute"} THEN {d}
           ELSE IF d = "playback" /\ op \in {"volume", "amp"} THEN Amps
           ELSE IF d = "playback" /\ op = "follow" THEN {""} ELSE {}
<1> DEFINE A == SetUp(d)
           B == Playing(d)
           C == Loop("volume")
           E == IF d = "playback" THEN C \union SpeakerSet ELSE {}
<1>0. d \in Arguments
  BY DEF Arguments
<1>1. PrepareSet(d) = (A \union B) \union E
  BY DEF PrepareSet
<1>2. Due(A)[op] = IF op \in {"power", "clock", "enable"} THEN {d} ELSE {}
  BY <1>0, DueThree, Zenon DEF SetUp
<1>3. Due(B)[op] = IF op \in {"start", "take", "unmute"} THEN {d} ELSE {}
  BY <1>0, DueThree, Zenon DEF Playing
<1>4. Due(C \union SpeakerSet)[op] = Due(C)[op] \union Due(SpeakerSet)[op]
  BY DueUnion
<1>5. Due(C)[op] = IF op = "volume" THEN Amps ELSE {}
  BY VolumeDue, Zenon
<1>6. Due(E)[op] = IF d # "playback" THEN {} ELSE
                     IF op \in {"volume", "amp"} THEN Amps ELSE IF op = "follow" THEN {""} ELSE {}
  <2>1. CASE d = "playback"
    <3>1. E = C \union SpeakerSet
      BY <2>1, Zenon
    <3> HIDE DEF C, E
    <3> QED
      BY <1>4, <1>5, <2>1, <3>1, SpeakerDue
  <2>2. CASE d # "playback"
    <3>1. E = {}
      BY <2>2, Zenon
    <3> HIDE DEF C, E
    <3> QED
      BY <2>2, <3>1, DueEmpty
  <2> QED
    BY <2>1, <2>2, Zenon
<1> HIDE DEF A, B, C, E
<1>7. Due((A \union B) \union E)[op] = (Due(A)[op] \union Due(B)[op]) \union Due(E)[op]
  BY DueUnion3
<1> QED
  BY <1>1, <1>2, <1>3, <1>6, <1>7

\* A stream cleaned up.
LEMMA CleanupDue ==
  ASSUME NEW d \in Dirs, NEW op \in Ops
  PROVE  Due(CleanupSet(d))[op] =
           IF op \in {"stop", "mute", "disable", "unclock", "unpower"} THEN {d}
           ELSE IF d = "playback" /\ op = "amp" THEN Amps
           ELSE IF d = "playback" /\ op = "follow" THEN {""} ELSE {}
<1> DEFINE A == {<<"stop", d>>}
           B == {<<"mute", d>>}
           C == TakeDown(d)
           E == IF d = "playback" THEN SpeakerSet ELSE {}
<1>0. d \in Arguments
  BY DEF Arguments
<1>1. CleanupSet(d) = ((A \union B) \union E) \union C
  BY DEF CleanupSet, Stopping
<1>2. /\ Due(A)[op] = IF op = "stop" THEN {d} ELSE {}
      /\ Due(B)[op] = IF op = "mute" THEN {d} ELSE {}
  BY <1>0, DueOne, Zenon
<1>3. Due(C)[op] = IF op \in {"disable", "unclock", "unpower"} THEN {d} ELSE {}
  BY <1>0, DueThree, Zenon DEF TakeDown
<1>4. Due(E)[op] = IF d # "playback" THEN {} ELSE
                     IF op = "follow" THEN {""} ELSE IF op = "amp" THEN Amps ELSE {}
  BY SpeakerDue, DueEmpty
<1> HIDE DEF A, B, C, E
<1>5. Due(((A \union B) \union E) \union C)[op]
        = ((Due(A)[op] \union Due(B)[op]) \union Due(E)[op]) \union Due(C)[op]
  BY DueUnion4
<1> QED
  BY <1>1, <1>2, <1>3, <1>4, <1>5

\* The writes of a suspend.
LEMMA SuspendDue ==
  ASSUME NEW k, NEW op \in Ops
  PROVE  Due(SuspendSet(k))[op] =
           IF op \in {"amp", "suspend"} THEN Amps
           ELSE IF op = "clkstop" \/ op = SuspendEnd(k) THEN {""} ELSE {}
<1> DEFINE A == {<<"clkstop", "">>}
           B == Loop("amp")
           C == Loop("suspend")
           E == {<<SuspendEnd(k), "">>}
<1>0. "" \in Arguments
  BY DEF Arguments
<1>1. SuspendSet(k) = ((A \union B) \union C) \union E
  BY DEF SuspendSet
<1>2. /\ Due(A)[op] = IF op = "clkstop" THEN {""} ELSE {}
      /\ Due(E)[op] = IF op = SuspendEnd(k) THEN {""} ELSE {}
  BY <1>0, DueOne, Zenon
<1>3. /\ Due(B)[op] = IF op = "amp" THEN Amps ELSE {}
      /\ Due(C)[op] = IF op = "suspend" THEN Amps ELSE {}
  BY DueLoop, Zenon
<1> HIDE DEF A, B, C, E
<1>4. Due(((A \union B) \union C) \union E)[op]
        = ((Due(A)[op] \union Due(B)[op]) \union Due(C)[op]) \union Due(E)[op]
  BY DueUnion4
<1>5. SuspendEnd(k) \notin {"amp", "suspend"}
  BY DEF SuspendEnd
<1> QED
  BY <1>1, <1>2, <1>3, <1>4, <1>5

\* The writes of a resume that found the chip up.
LEMMA LightDue ==
  ASSUME NEW op \in Ops
  PROVE  Due(LightSet)[op] = IF op = "allow" THEN Amps
                             ELSE IF op \in {"exit", "look"} THEN {""} ELSE {}
<1> DEFINE A == {<<"exit", "">>}
           B == Loop("allow")
           C == {<<"look", "">>}
<1>0. "" \in Arguments
  BY DEF Arguments
<1>1. LightSet = (A \union B) \union C
  BY DEF LightSet
<1>2. /\ Due(A)[op] = IF op = "exit" THEN {""} ELSE {}
      /\ Due(C)[op] = IF op = "look" THEN {""} ELSE {}
  BY <1>0, DueOne, Zenon
<1>3. Due(B)[op] = IF op = "allow" THEN Amps ELSE {}
  BY DueLoop, Zenon
<1> HIDE DEF A, B, C
<1>4. Due((A \union B) \union C)[op] = (Due(A)[op] \union Due(B)[op]) \union Due(C)[op]
  BY DueUnion3
<1> QED
  BY <1>1, <1>2, <1>3, <1>4

\* The writes of a full init.
LEMMA FullDue ==
  ASSUME NEW op \in Ops
  PROVE  Due(FullSet)[op] = IF op = "init" THEN Amps ELSE IF op = "bring" THEN {""} ELSE {}
<1> DEFINE A == {<<"bring", "">>}
           B == Loop("init")
<1>0. "" \in Arguments
  BY DEF Arguments
<1>1. FullSet = A \union B
  BY DEF FullSet
<1>2. Due(A)[op] = IF op = "bring" THEN {""} ELSE {}
  BY <1>0, DueOne, Zenon
<1>3. Due(B)[op] = IF op = "init" THEN Amps ELSE {}
  BY DueLoop, Zenon
<1> HIDE DEF A, B
<1>4. Due(A \union B)[op] = Due(A)[op] \union Due(B)[op]
  BY DueUnion
<1> QED
  BY <1>1, <1>2, <1>3, <1>4

-----------------------------------------------------------------------------
(* The two threads.                                                        *)

\* What the holder of jack_lock has still to do, and what the PM callback has.
L == Due(Todo(prog["lock"]))
Q == Due(Todo(prog["pm"]))

ProgInv == /\ prog \in [Lanes -> Seq(Steps)]
           /\ Shape(prog["lock"]) /\ Shape(prog["pm"])

\* The steps each may be at.  Only the jack handler's sequence goes on into a suspend,
\* and into a forced one only.
HookOps == StreamOps \union {"volume", "follow", "amp"}
LockOps ==
  IF pm = "up" THEN IF holder = "jack" THEN {"follow", "amp"} ELSE HookOps
  ELSE IF kind = "forced" /\ pm # "down" THEN {"follow", "amp"} ELSE {}
PmOps ==
  CASE pm = "quiesce" -> {"clkstop", "amp", "suspend", SuspendEnd(kind)}
    [] pm = "wake"    -> {"exit", "allow", "look", "bring", "init", "follow", "amp"}
    [] OTHER          -> {}

LaneInv == \A op \in Ops : /\ L[op] # {} => op \in LockOps
                           /\ Q[op] # {} => op \in PmOps

\* What has begun has its rest still ahead.
WholeInv ==
  /\ L["follow"] # {} => L["amp"] = Amps
  /\ "playback" \in L["start"] => L["volume"] = Amps
  /\ "playback" \in L["start"] \union L["stop"] => L["follow"] # {}
  /\ L["power"] \union L["clock"] \union L["enable"] \subseteq L["start"]
  /\ L["stop"] \subseteq L["disable"]
  /\ L["disable"] \subseteq L["unclock"]
  /\ L["unclock"] \subseteq L["unpower"]
  /\ L["start"] \intersect L["unpower"] = {}

\* A runtime suspend has begun, or any has done its part.
Asleep == pm # "up" /\ (kind # "forced" \/ pm \in {"down", "wake"})

\* Nothing is started then, and what is started is open or being stopped.
StartInv ==
  /\ Asleep => \A d \in Dirs : ~started[d]
  /\ \A d \in Dirs : started[d] => open[d] \/ d \in L["stop"]
  /\ L["start"] \subseteq {d \in Dirs : open[d]}

\* No volume write goes on across a suspend.
PutInv ==
  /\ pm # "up" => put.at # "write"
  /\ pm # "up" /\ kind = "forced" => put.at = "idle"

\* `suspended' is set while the chip is down and cleared early in the resume.
MarkInv ==
  /\ pm = "up" => ~l83Susp
  /\ pm = "down" => l83Susp
  /\ pm = "wake" /\ l83Susp => Q["bring"] \union Q["exit"] # {}
  /\ \A i \in Amps : ampSusp[i] =>
       pm # "up" /\ (pm = "wake" => i \in Q["init"] \union Q["allow"])

\* The amps follow the stream and the jack as they were asked for.
FollowInv ==
  /\ on["pm"] = FALSE
  /\ \A i \in Amps : L["follow"] = {} /\ i \in L["amp"] /\ on["lock"] => started["playback"]
  /\ \A i \in Amps : L["follow"] = {} /\ pm = "up" =>
       IF i \in L["amp"] THEN on["lock"] = (started["playback"] /\ ~hp)
       ELSE ampOn[i] = (started["playback"] /\ ~hp)
  /\ \A i \in Amps : pm # "up" /\ ampOn[i] =>
       kind = "forced" /\ (pm = "wake" => i \in Q["init"])

\* Their volume has been written, or is about to be.
VolInv ==
  /\ \A i \in Amps : started["playback"] =>
       ampVol[i] = spkVol[Channel(i)] \/ i \in L["volume"]
  /\ \A i \in Amps : ampOn[i] =>
       \/ ampVol[i] = spkVol[Channel(i)]
       \/ i \in L["volume"] /\ \A op \in Ops \ {"volume"} : L[op] = {}

\* scodec_clk_on is what the register is, and off once a suspend has stopped the clock.
ClockInv ==
  /\ clkOn = bitClk
  /\ pm \in {"down", "wake"} \/ (pm = "quiesce" /\ Q["clkstop"] = {}) => ~clkOn

\* Where no read failed: the blocks, the channels and the clock as the streams need
\* them, what is missing still to be done.
Stream(d) ==
  /\ d \in L["start"] => /\ d \in L["power"] \/ powered[d]
                         /\ d \in L["clock"] \/ bitClk
                         /\ d \in L["enable"] \/ enabled[d]
  /\ d \in L["start"] \union L["unpower"] \/ powered[d] = started[d]
  /\ d \in L["start"] \union L["disable"] \/ enabled[d] = started[d]
  /\ d \in L["unpower"] \ L["stop"] => ~started[d]
  /\ started[d] \/ enabled[d] => bitClk

RunInv ==
  errors = 0 =>
    /\ Asleep => \A d \in Dirs : ~enabled[d] /\ ~powered[d]
    /\ pm = "up" => \A d \in Dirs : Stream(d)
    /\ pm = "up" /\ bitClk => \E d \in Dirs : started[d] \/ d \in L["start"] \union L["unclock"]

IInv == /\ TypeOK /\ ProgInv /\ LaneInv /\ WholeInv /\ StartInv /\ PutInv /\ MarkInv
        /\ FollowInv /\ VolInv /\ ClockInv /\ RunInv /\ QuietStandby

\* The holder of jack_lock, or the PM callback, does op for a.
TookL(op, a) == /\ a \in L[op] /\ L'[op] = L[op] \ {a}
                /\ \A o \in Ops : o # op => L'[o] = L[o]
                /\ First(L, op) /\ Q' = Q
TookQ(op, a) == /\ a \in Q[op] /\ Q'[op] = Q[op] \ {a}
                /\ \A o \in Ops : o # op => Q'[o] = Q[o]
                /\ First(Q, op) /\ L' = L

\* Both threads.
LEMMA Typed == ASSUME ProgInv PROVE DueTyped(L) /\ DueTyped(Q)
BY ShapeTyped DEF ProgInv, L, Q

\* An idle thread has nothing due.
LEMMA FreeEmpty ==
  /\ Free => \A op \in Ops : L[op] = {}
  /\ prog["pm"] = <<>> => \A op \in Ops : Q[op] = {}
<1>1. Todo(<<>>) = {}
  BY DEF Todo
<1>2. \A s : s = <<>> => \A op \in Ops : Due(Todo(s))[op] = {}
  BY <1>1, DueEmpty
<1> QED
  BY <1>2 DEF Free, L, Q

\* A thread takes its first step: that one is no longer due.
LEMMA TakeStep ==
  ASSUME ProgInv, NEW l \in Lanes, NEW op, At(l, op), Rest(l)
  PROVE  /\ ProgInv' /\ op \in Ops
         /\ l = "lock" => TookL(op, Arg(l))
         /\ l = "pm" => TookQ(op, Arg(l))
<1> DEFINE s == prog[l]
<1>1. /\ s # <<>> /\ s[1][1] = op /\ Arg(l) = s[1][2] /\ Shape(s)
  BY DEF At, Arg, ProgInv, Lanes
<1>2. /\ prog'[l] = Tail(s) /\ \A k \in Lanes : k # l => prog'[k] = prog[k]
      /\ DOMAIN prog' = Lanes /\ prog' = [prog EXCEPT ![l] = Tail(s)]
  BY DEF Rest, ProgInv
<1> HIDE DEF s
<1>3. /\ Shape(Tail(s)) /\ op \in Ops
      /\ s[1][2] \in Due(Todo(s))[op]
      /\ Due(Todo(Tail(s)))[op] = Due(Todo(s))[op] \ {s[1][2]}
      /\ \A o \in Ops : o # op => Due(Todo(Tail(s)))[o] = Due(Todo(s))[o]
      /\ First(Due(Todo(s)), op)
  BY <1>1, TailDue
<1>4. Tail(s) \in Seq(Steps)
  BY <1>3 DEF Shape
<1>5. ProgInv'
  BY <1>2, <1>3, <1>4 DEF ProgInv, Lanes
<1>6. CASE l = "lock"
  <2>1. prog'["lock"] = Tail(prog["lock"]) /\ prog'["pm"] = prog["pm"]
    BY <1>2, <1>6 DEF Lanes, s
  <2>2. L' = Due(Todo(Tail(prog["lock"]))) /\ Q' = Q
    BY <2>1 DEF L, Q
  <2> QED
    BY <1>1, <1>3, <1>5, <1>6, <2>2 DEF TookL, L, s
<1>7. CASE l = "pm"
  <2>1. prog'["pm"] = Tail(prog["pm"]) /\ prog'["lock"] = prog["lock"]
    BY <1>2, <1>7 DEF Lanes, s
  <2>2. Q' = Due(Todo(Tail(prog["pm"]))) /\ L' = L
    BY <2>1 DEF L, Q
  <2> QED
    BY <1>1, <1>3, <1>5, <1>7, <2>2 DEF TookQ, Q, s
<1> QED
  BY <1>6, <1>7 DEF Lanes

\* A sequence of shape in place of another.
LEMMA ShapeProg ==
  ASSUME ProgInv, NEW t, Shape(t), NEW l \in Lanes, prog' = [prog EXCEPT ![l] = t]
  PROVE  ProgInv'
BY DEF ProgInv, Lanes, Shape

\* A failed read skips what the others would.
LEMMA SkipStep ==
  ASSUME ProgInv, NEW op \in {"power", "disable"}, At("lock", op),
         prog' = [prog EXCEPT !["lock"] = SubSeq(@, 4, Len(@))]
  PROVE  /\ ProgInv' /\ Arg("lock") \in L[op] /\ First(L, op) /\ Q' = Q
         /\ \A o \in Ops : L'[o] = L[o] \
              (IF o \in (IF op = "power" THEN {"power", "clock", "enable"}
                                         ELSE {"disable", "unclock", "unpower"})
               THEN {Arg("lock")} ELSE {})
<1> DEFINE s == prog["lock"]
           t == SubSeq(s, 4, Len(s))
<1>1. /\ s # <<>> /\ s[1][1] = op /\ Arg("lock") = s[1][2] /\ Shape(s)
  BY DEF At, Arg, ProgInv, Lanes
<1>2. /\ prog'["lock"] = t /\ prog'["pm"] = prog["pm"]
      /\ prog' = [prog EXCEPT !["lock"] = t] /\ "lock" \in Lanes
  BY DEF ProgInv, Lanes
<1>3. L' = Due(Todo(t)) /\ Q' = Q /\ L = Due(Todo(s))
  BY <1>2 DEF L, Q
<1>4. /\ Together(s, "power", "clock", "enable")
      /\ Together(s, "disable", "unclock", "unpower")
  BY <1>1 DEF Shape
<1> HIDE DEF s, t
<1>5. CASE op = "power"
  <2>1. /\ Shape(t) /\ s[1][2] \in Due(Todo(s))[op] /\ First(Due(Todo(s)), op)
        /\ \A o \in Ops : Due(Todo(t))[o]
             = Due(Todo(s))[o] \ (IF o \in {op, "clock", "enable"} THEN {s[1][2]} ELSE {})
    BY <1>1, <1>4, <1>5, OpsAre, SkipDue DEF t
  <2> QED
    BY <1>1, <1>2, <1>3, <1>5, <2>1, ShapeProg
<1>6. CASE op = "disable"
  <2>1. /\ Shape(t) /\ s[1][2] \in Due(Todo(s))[op] /\ First(Due(Todo(s)), op)
        /\ \A o \in Ops : Due(Todo(t))[o]
             = Due(Todo(s))[o] \ (IF o \in {op, "unclock", "unpower"} THEN {s[1][2]} ELSE {})
    BY <1>1, <1>4, <1>6, OpsAre, SkipDue DEF t
  <2> QED
    BY <1>1, <1>2, <1>3, <1>6, <2>1, ShapeProg
<1> QED
  BY <1>5, <1>6

\* A sequence begun.
LEMMA FillLock ==
  ASSUME ProgInv, NEW s, NEW S, NEW lo, NEW hi, Span(s, S, lo, hi),
         prog' = [prog EXCEPT !["lock"] = s]
  PROVE  ProgInv' /\ L' = Due(S) /\ Q' = Q
<1>1. /\ prog'["lock"] = s /\ prog'["pm"] = prog["pm"] /\ DOMAIN prog' = Lanes
  BY DEF ProgInv, Lanes
<1>2. Shape(s) /\ Todo(s) = S /\ s \in Seq(Steps)
  BY DEF Span, Shape
<1> QED
  BY <1>1, <1>2 DEF ProgInv, L, Q, Lanes

\* The sequence of a PM callback begun.
LEMMA FillPm ==
  ASSUME ProgInv, NEW s, NEW S, NEW lo, NEW hi, Span(s, S, lo, hi),
         prog' = [prog EXCEPT !["pm"] = s]
  PROVE  ProgInv' /\ Q' = Due(S) /\ L' = L
<1>1. /\ prog'["pm"] = s /\ prog'["lock"] = prog["lock"] /\ DOMAIN prog' = Lanes
  BY DEF ProgInv, Lanes
<1>2. Shape(s) /\ Todo(s) = S /\ s \in Seq(Steps)
  BY DEF Span, Shape
<1> QED
  BY <1>1, <1>2 DEF ProgInv, L, Q, Lanes

\* Nothing of a sequence done.
LEMMA KeepProg ==
  ASSUME prog' = prog
  PROVE  L' = L /\ Q' = Q /\ (ProgInv => ProgInv')
BY DEF L, Q, ProgInv

-----------------------------------------------------------------------------
(* What a step leaves of the order.                                        *)

\* The step a thread is at is due.
LEMMA AtDue ==
  ASSUME ProgInv, NEW l \in Lanes, NEW op, At(l, op)
  PROVE  /\ op \in Ops
         /\ l = "lock" => Arg(l) \in L[op]
         /\ l = "pm" => Arg(l) \in Q[op]
<1> DEFINE s == prog[l]
<1>1. s # <<>> /\ s[1][1] = op /\ Arg(l) = s[1][2] /\ Shape(s)
  BY DEF At, Arg, ProgInv, Lanes
<1>2. (l = "lock" => L = Due(Todo(s))) /\ (l = "pm" => Q = Due(Todo(s)))
  BY DEF L, Q
<1> HIDE DEF s
<1>3. op \in Ops /\ s[1][2] \in Due(Todo(s))[op]
  BY <1>1, TailDue
<1> QED
  BY <1>1, <1>2, <1>3

\* Of which kind the argument is.
LEMMA ArgKind ==
  ASSUME ProgInv, NEW l \in Lanes, NEW op, At(l, op)
  PROVE  /\ op \in StreamOps => Arg(l) \in Dirs
         /\ op \in AmpOps => Arg(l) \in Amps
<1>1. Arg(l) \in L[op] \/ Arg(l) \in Q[op]
  BY AtDue DEF Lanes
<1> QED
  BY <1>1, Typed DEF DueTyped

\* What only the holder of jack_lock does.
LEMMA LockOnly ==
  ASSUME IInv, NEW l \in Lanes, NEW op \in StreamOps \union {"volume"}, At(l, op)
  PROVE  l = "lock" /\ pm = "up" /\ op \in Ops /\ Arg(l) \in L[op]
<1>1. ProgInv /\ LaneInv
  BY DEF IInv
<1>2. /\ op \in Ops
      /\ l = "lock" => Arg(l) \in L[op]
      /\ l = "pm" => Arg(l) \in Q[op]
  BY <1>1, AtDue
<1>3. op \notin PmOps
  BY DEF PmOps, SuspendEnd, StreamOps
<1>4. l = "lock"
  BY <1>1, <1>2, <1>3 DEF LaneInv, Lanes
<1>5. op \in LockOps
  BY <1>1, <1>2, <1>4 DEF LaneInv
<1>6. pm = "up"
  BY <1>5 DEF LockOps, StreamOps
<1> QED
  BY <1>2, <1>4, <1>6

\* What only the PM callback does.
LEMMA PmOnly ==
  ASSUME IInv, NEW l \in Lanes, NEW op \in {"suspend", "allow", "init"}, At(l, op)
  PROVE  l = "pm" /\ Arg(l) \in Q[op] /\ op \in PmOps
<1>1. ProgInv /\ LaneInv
  BY DEF IInv
<1>2. /\ op \in Ops
      /\ l = "lock" => Arg(l) \in L[op]
      /\ l = "pm" => Arg(l) \in Q[op]
  BY <1>1, AtDue
<1>3. op \notin LockOps
  BY DEF LockOps, HookOps, StreamOps
<1> QED
  BY <1>1, <1>2, <1>3 DEF LaneInv, Lanes

\* A step done, each thread is still where it may be.
LEMMA TookLane ==
  ASSUME LaneInv, NEW op \in Ops, NEW a, TookL(op, a) \/ TookQ(op, a),
         UNCHANGED <<pm, kind, holder>>
  PROVE  LaneInv'
<1>1. \A o \in Ops : (L'[o] # {} => L[o] # {}) /\ (Q'[o] # {} => Q[o] # {})
  BY DEF TookL, TookQ
<1>2. LockOps' = LockOps /\ PmOps' = PmOps
  BY DEF LockOps, PmOps
<1> QED
  BY <1>1, <1>2 DEF LaneInv

\* A step done, what has begun still has its rest ahead.
LEMMA TookWhole ==
  ASSUME WholeInv, NEW op \in Ops, NEW a, TookL(op, a) \/ TookQ(op, a)
  PROVE  WholeInv'
<1>1. CASE TookQ(op, a)
  BY <1>1 DEF TookQ, WholeInv
<1>2. CASE TookL(op, a)
  <2>1. \A o \in Ops : L'[o] = L[o] \ (IF o = op THEN {a} ELSE {})
    BY <1>2 DEF TookL
  <2>2. \A o \in Ops : Rank(o) < Rank(op) => L[o] = {}
    <3>1. \A o : Rank(o) \in Nat
      BY DEF Rank
    <3> QED
      BY <1>2, <3>1 DEF TookL, First
  <2>3. L'["follow"] # {} => L'["amp"] = Amps
    <3>1. op = "amp" => L["follow"] = {} /\ L'["follow"] = {}
      BY <2>1, <2>2, OpsAre, RankTable
    <3>2. op # "amp" => L'["amp"] = L["amp"]
      BY <1>2, OpsAre DEF TookL
    <3>3. L'["follow"] # {} => L["follow"] # {}
      BY <2>1, OpsAre
    <3> QED
      BY <3>1, <3>2, <3>3 DEF WholeInv
  <2>4. /\ "playback" \in L'["start"] => L'["volume"] = Amps
        /\ "playback" \in L'["start"] \union L'["stop"] => L'["follow"] # {}
    <3>1. /\ op = "volume" => L'["start"] = {}
          /\ op = "follow" => L'["start"] = {} /\ L'["stop"] = {}
      BY <2>1, <2>2, OpsAre, RankTable
    <3>2. /\ op # "volume" => L'["volume"] = L["volume"]
          /\ op # "follow" => L'["follow"] = L["follow"]
      BY <1>2, OpsAre DEF TookL
    <3>3. L'["start"] \subseteq L["start"] /\ L'["stop"] \subseteq L["stop"]
      BY <2>1, OpsAre
    <3> QED
      BY <3>1, <3>2, <3>3 DEF WholeInv
  <2>5. /\ L'["power"] \union L'["clock"] \union L'["enable"] \subseteq L'["start"]
        /\ L'["stop"] \subseteq L'["disable"]
    BY <2>1, <2>2, OpsAre, RankTable DEF WholeInv
  <2>6. /\ L'["disable"] \subseteq L'["unclock"]
        /\ L'["unclock"] \subseteq L'["unpower"]
        /\ L'["start"] \intersect L'["unpower"] = {}
    BY <2>1, <2>2, OpsAre, RankTable DEF WholeInv
  <2> QED
    BY <2>3, <2>4, <2>5, <2>6 DEF WholeInv
<1> QED
  BY <1>1, <1>2

\* Left or right.
LEMMA ChannelKind == \A i \in Amps : Channel(i) \in {0, 1}
BY StreamAssumption DEF Amps, Channel

\* The PM callback is at the first of its steps.
LEMMA AtFirst ==
  ASSUME ProgInv, NEW op, At("pm", op)
  PROVE  First(Q, op)
<1> DEFINE s == prog["pm"]
<1>1. s # <<>> /\ s[1][1] = op /\ Shape(s) /\ Q = Due(Todo(s))
  BY DEF At, ProgInv, Q
<1> HIDE DEF s
<1> QED
  BY <1>1, TailDue

-----------------------------------------------------------------------------
(* Each step keeps the invariant.                                          *)

\* A block powered.
LEMMA PowerKeeps ==
  ASSUME IInv, NEW l \in Lanes, Power(l)
  PROVE  IInv'
<1>1. /\ At(l, "power") /\ Rest(l)
      /\ powered' = [powered EXCEPT ![Arg(l)] = TRUE]
  BY DEF Power
<1>2. l = "lock" /\ pm = "up" /\ "power" \in Ops
  BY <1>1, LockOnly DEF StreamOps
<1>3. Arg(l) \in Dirs
  BY <1>1, ArgKind DEF IInv, StreamOps, AmpOps
<1>4. ProgInv' /\ TookL("power", Arg(l))
  BY <1>1, <1>2, TakeStep DEF IInv
<1>5. UNCHANGED <<hp, open, started, spkVol, vol, clkOn, bitClk, enabled, level, ampOn,
                  ampVol, l83Susp, ampSusp, on, taken, holder, put, pm, kind, errors>>
  BY DEF Power, KeepStream, amps, ctl
<1>6. TypeOK'
  BY <1>1, <1>2, <1>3, <1>4, <1>5 DEF IInv, TypeOK
<1>7. LaneInv'
  BY <1>4, <1>2, <1>5, TookLane DEF IInv
<1>8. WholeInv'
  BY <1>4, <1>2, TookWhole DEF IInv
<1>9. StartInv'
  BY OpsAre, <1>1, <1>2, <1>3, <1>4, <1>5 DEF IInv, StartInv, Asleep, TookL
<1>10. MarkInv'
  BY <1>1, <1>2, <1>3, <1>4, <1>5 DEF IInv, MarkInv, TookL
<1>11. FollowInv'
  BY OpsAre, <1>1, <1>2, <1>3, <1>4, <1>5 DEF IInv, FollowInv, TookL
<1>12. VolInv'
  BY OpsAre, <1>1, <1>2, <1>3, <1>4, <1>5 DEF IInv, VolInv, TookL
<1>13. ClockInv'
  BY <1>1, <1>2, <1>3, <1>4, <1>5 DEF IInv, ClockInv, TookL
<1>14. RunInv'
  <2>1. /\ L'["power"] = L["power"] \ {Arg(l)} /\ L'["clock"] = L["clock"]
        /\ L'["enable"] = L["enable"] /\ L'["start"] = L["start"]
        /\ L'["stop"] = L["stop"] /\ L'["disable"] = L["disable"]
        /\ L'["unclock"] = L["unclock"] /\ L'["unpower"] = L["unpower"]
    BY <1>4, OpsAre DEF TookL
  <2>2. ASSUME errors = 0, NEW d \in Dirs
        PROVE  Stream(d)'
    <3>1. Stream(d)
      BY <1>2, <2>2 DEF IInv, RunInv
    <3>2. /\ powered[d] \in BOOLEAN /\ enabled[d] \in BOOLEAN /\ started[d] \in BOOLEAN
          /\ bitClk \in BOOLEAN
      BY DEF IInv, TypeOK
    <3>3. powered'[d] = IF d = Arg(l) THEN TRUE ELSE powered[d]
      BY <1>1, <1>3 DEF IInv, TypeOK
    <3> QED
      BY <1>3, <1>4, <1>5, <2>1, <3>1, <3>2, <3>3 DEF IInv, WholeInv, Stream, TookL
  <2>3. ASSUME errors = 0, bitClk'
        PROVE  \E d \in Dirs : started[d]' \/ d \in L'["start"] \union L'["unclock"]
    BY <1>1, <1>2, <1>3, <1>4, <1>5, <2>1, <2>3 DEF IInv, TypeOK, WholeInv, RunInv, TookL
  <2> QED
    BY <1>2, <1>5, <2>2, <2>3 DEF RunInv, Asleep
<1>15. QuietStandby'
  BY <1>1, <1>2, <1>3, <1>4, <1>5 DEF IInv, QuietStandby
<1>16. PutInv'
  BY <1>1, <1>2, <1>3, <1>4, <1>5 DEF IInv, PutInv, TookL
<1> QED
  BY <1>4, <1>6, <1>7, <1>8, <1>9, <1>10, <1>11, <1>12, <1>13, <1>14, <1>15, <1>16 DEF IInv

\* To the bit clock.
LEMMA ClockKeeps ==
  ASSUME IInv, NEW l \in Lanes, Clock(l)
  PROVE  IInv'
<1>1. /\ At(l, "clock") /\ Rest(l)
      /\ bitClk' = (bitClk \/ ~clkOn) /\ clkOn' = TRUE
  BY DEF Clock
<1>2. l = "lock" /\ pm = "up" /\ "clock" \in Ops
  BY <1>1, LockOnly DEF StreamOps
<1>3. Arg(l) \in Dirs
  BY <1>1, ArgKind DEF IInv, StreamOps, AmpOps
<1>4. ProgInv' /\ TookL("clock", Arg(l))
  BY <1>1, <1>2, TakeStep DEF IInv
<1>5. L["power"] = {}
  BY <1>4, RankTable, OpsAre DEF TookL, First
<1>6. UNCHANGED <<hp, open, started, spkVol, vol, powered, enabled, level, ampOn, ampVol,
                  l83Susp, ampSusp, on, taken, holder, put, pm, kind, errors>>
  BY DEF Clock, KeepStream, amps, ctl
<1>7. TypeOK'
  BY <1>1, <1>2, <1>3, <1>4, <1>5, <1>6 DEF IInv, TypeOK
<1>8. LaneInv'
  BY <1>4, <1>2, <1>6, TookLane DEF IInv
<1>9. WholeInv'
  BY <1>4, <1>2, TookWhole DEF IInv
<1>10. StartInv'
  BY OpsAre, <1>1, <1>2, <1>3, <1>4, <1>5, <1>6 DEF IInv, StartInv, Asleep, TookL
<1>11. MarkInv'
  BY <1>1, <1>2, <1>3, <1>4, <1>5, <1>6 DEF IInv, MarkInv, TookL
<1>12. FollowInv'
  BY OpsAre, <1>1, <1>2, <1>3, <1>4, <1>5, <1>6 DEF IInv, FollowInv, TookL
<1>13. VolInv'
  BY OpsAre, <1>1, <1>2, <1>3, <1>4, <1>5, <1>6 DEF IInv, VolInv, TookL
<1>14. ClockInv'
  BY <1>1, <1>2, <1>3, <1>4, <1>5, <1>6 DEF IInv, ClockInv, TookL
<1>15. RunInv'
  <2>1. /\ L'["power"] = L["power"] /\ L'["clock"] = L["clock"] \ {Arg(l)}
        /\ L'["enable"] = L["enable"] /\ L'["start"] = L["start"]
        /\ L'["stop"] = L["stop"] /\ L'["disable"] = L["disable"]
        /\ L'["unclock"] = L["unclock"] /\ L'["unpower"] = L["unpower"]
    BY <1>4, OpsAre DEF TookL
  <2>2. ASSUME errors = 0, NEW d \in Dirs
        PROVE  Stream(d)'
    <3>1. Stream(d)
      BY <1>2, <2>2 DEF IInv, RunInv
    <3>2. /\ powered[d] \in BOOLEAN /\ enabled[d] \in BOOLEAN /\ started[d] \in BOOLEAN
          /\ bitClk \in BOOLEAN
      BY DEF IInv, TypeOK
    <3> QED
      BY <1>1, <1>3, <1>4, <1>6, <1>5, <2>1, <3>1, <3>2 DEF IInv, WholeInv, Stream, TookL,
         ClockInv
  <2>3. ASSUME errors = 0, bitClk'
        PROVE  \E d \in Dirs : started[d]' \/ d \in L'["start"] \union L'["unclock"]
    BY <1>1, <1>2, <1>3, <1>4, <1>6, <1>5, <2>1, <2>3 DEF IInv, TypeOK, WholeInv, RunInv,
       TookL, ClockInv
  <2> QED
    BY <1>2, <1>6, <2>2, <2>3 DEF RunInv, Asleep
<1>16. QuietStandby'
  BY <1>1, <1>2, <1>3, <1>4, <1>5, <1>6 DEF IInv, QuietStandby
<1>17. PutInv'
  BY <1>1, <1>2, <1>3, <1>4, <1>5, <1>6 DEF IInv, PutInv, TookL
<1> QED
  BY <1>4, <1>7, <1>8, <1>9, <1>10, <1>11, <1>12, <1>13, <1>14, <1>15, <1>16, <1>17 DEF IInv

\* The serial port on.
LEMMA EnableKeeps ==
  ASSUME IInv, NEW l \in Lanes, Enable(l)
  PROVE  IInv'
<1>1. /\ At(l, "enable") /\ Rest(l)
      /\ enabled' = [enabled EXCEPT ![Arg(l)] = TRUE]
  BY DEF Enable
<1>2. l = "lock" /\ pm = "up" /\ "enable" \in Ops
  BY <1>1, LockOnly DEF StreamOps
<1>3. Arg(l) \in Dirs
  BY <1>1, ArgKind DEF IInv, StreamOps, AmpOps
<1>4. ProgInv' /\ TookL("enable", Arg(l))
  BY <1>1, <1>2, TakeStep DEF IInv
<1>5. /\ L["power"] = {}
      /\ L["clock"] = {}
  BY <1>4, RankTable, OpsAre DEF TookL, First
<1>6. UNCHANGED <<hp, open, started, spkVol, vol, clkOn, bitClk, powered, level, ampOn,
                  ampVol, l83Susp, ampSusp, on, taken, holder, put, pm, kind, errors>>
  BY DEF Enable, KeepStream, amps, ctl
<1>7. TypeOK'
  BY <1>1, <1>2, <1>3, <1>4, <1>5, <1>6 DEF IInv, TypeOK
<1>8. LaneInv'
  BY <1>4, <1>2, <1>6, TookLane DEF IInv
<1>9. WholeInv'
  BY <1>4, <1>2, TookWhole DEF IInv
<1>10. StartInv'
  BY OpsAre, <1>1, <1>2, <1>3, <1>4, <1>5, <1>6 DEF IInv, StartInv, Asleep, TookL
<1>11. MarkInv'
  BY <1>1, <1>2, <1>3, <1>4, <1>5, <1>6 DEF IInv, MarkInv, TookL
<1>12. FollowInv'
  BY OpsAre, <1>1, <1>2, <1>3, <1>4, <1>5, <1>6 DEF IInv, FollowInv, TookL
<1>13. VolInv'
  BY OpsAre, <1>1, <1>2, <1>3, <1>4, <1>5, <1>6 DEF IInv, VolInv, TookL
<1>14. ClockInv'
  BY <1>1, <1>2, <1>3, <1>4, <1>5, <1>6 DEF IInv, ClockInv, TookL
<1>15. RunInv'
  <2>1. /\ L'["power"] = L["power"] /\ L'["clock"] = L["clock"]
        /\ L'["enable"] = L["enable"] \ {Arg(l)} /\ L'["start"] = L["start"]
        /\ L'["stop"] = L["stop"] /\ L'["disable"] = L["disable"]
        /\ L'["unclock"] = L["unclock"] /\ L'["unpower"] = L["unpower"]
    BY <1>4, OpsAre DEF TookL
  <2>2. ASSUME errors = 0, NEW d \in Dirs
        PROVE  Stream(d)'
    <3>1. Stream(d)
      BY <1>2, <2>2 DEF IInv, RunInv
    <3>2. /\ powered[d] \in BOOLEAN /\ enabled[d] \in BOOLEAN /\ started[d] \in BOOLEAN
          /\ bitClk \in BOOLEAN
      BY DEF IInv, TypeOK
    <3>3. enabled'[d] = IF d = Arg(l) THEN TRUE ELSE enabled[d]
      BY <1>1, <1>3 DEF IInv, TypeOK
    <3> QED
      BY <1>3, <1>4, <1>6, <1>5, <2>1, <3>1, <3>2, <3>3 DEF IInv, WholeInv, Stream, TookL
  <2>3. ASSUME errors = 0, bitClk'
        PROVE  \E d \in Dirs : started[d]' \/ d \in L'["start"] \union L'["unclock"]
    BY <1>1, <1>2, <1>3, <1>4, <1>6, <1>5, <2>1, <2>3 DEF IInv, TypeOK, WholeInv, RunInv, TookL
  <2> QED
    BY <1>2, <1>6, <2>2, <2>3 DEF RunInv, Asleep
<1>16. QuietStandby'
  BY <1>1, <1>2, <1>3, <1>4, <1>5, <1>6 DEF IInv, QuietStandby
<1>17. PutInv'
  BY <1>1, <1>2, <1>3, <1>4, <1>5, <1>6 DEF IInv, PutInv, TookL
<1> QED
  BY <1>4, <1>7, <1>8, <1>9, <1>10, <1>11, <1>12, <1>13, <1>14, <1>15, <1>16, <1>17 DEF IInv

\* The serial port off.
LEMMA DisableKeeps ==
  ASSUME IInv, NEW l \in Lanes, Disable(l)
  PROVE  IInv'
<1>1. /\ At(l, "disable") /\ Rest(l)
      /\ enabled' = [enabled EXCEPT ![Arg(l)] = FALSE]
  BY DEF Disable
<1>2. l = "lock" /\ pm = "up" /\ "disable" \in Ops
  BY <1>1, LockOnly DEF StreamOps
<1>3. Arg(l) \in Dirs
  BY <1>1, ArgKind DEF IInv, StreamOps, AmpOps
<1>4. ProgInv' /\ TookL("disable", Arg(l))
  BY <1>1, <1>2, TakeStep DEF IInv
<1>5. /\ L["start"] = {}
      /\ L["stop"] = {}
  BY <1>4, RankTable, OpsAre DEF TookL, First
<1>6. UNCHANGED <<hp, open, started, spkVol, vol, clkOn, bitClk, powered, level, ampOn,
                  ampVol, l83Susp, ampSusp, on, taken, holder, put, pm, kind, errors>>
  BY DEF Disable, KeepStream, amps, ctl
<1>7. TypeOK'
  BY <1>1, <1>2, <1>3, <1>4, <1>5, <1>6 DEF IInv, TypeOK
<1>8. LaneInv'
  BY <1>4, <1>2, <1>6, TookLane DEF IInv
<1>9. WholeInv'
  BY <1>4, <1>2, TookWhole DEF IInv
<1>10. StartInv'
  BY OpsAre, <1>1, <1>2, <1>3, <1>4, <1>5, <1>6 DEF IInv, StartInv, Asleep, TookL
<1>11. MarkInv'
  BY <1>1, <1>2, <1>3, <1>4, <1>5, <1>6 DEF IInv, MarkInv, TookL
<1>12. FollowInv'
  BY OpsAre, <1>1, <1>2, <1>3, <1>4, <1>5, <1>6 DEF IInv, FollowInv, TookL
<1>13. VolInv'
  BY OpsAre, <1>1, <1>2, <1>3, <1>4, <1>5, <1>6 DEF IInv, VolInv, TookL
<1>14. ClockInv'
  BY <1>1, <1>2, <1>3, <1>4, <1>5, <1>6 DEF IInv, ClockInv, TookL
<1>15. RunInv'
  <2>1. /\ L'["power"] = L["power"] /\ L'["clock"] = L["clock"]
        /\ L'["enable"] = L["enable"] /\ L'["start"] = L["start"]
        /\ L'["stop"] = L["stop"] /\ L'["disable"] = L["disable"] \ {Arg(l)}
        /\ L'["unclock"] = L["unclock"] /\ L'["unpower"] = L["unpower"]
    BY <1>4, OpsAre DEF TookL
  <2>2. ASSUME errors = 0, NEW d \in Dirs
        PROVE  Stream(d)'
    <3>1. Stream(d)
      BY <1>2, <2>2 DEF IInv, RunInv
    <3>2. /\ powered[d] \in BOOLEAN /\ enabled[d] \in BOOLEAN /\ started[d] \in BOOLEAN
          /\ bitClk \in BOOLEAN
      BY DEF IInv, TypeOK
    <3>3. enabled'[d] = IF d = Arg(l) THEN FALSE ELSE enabled[d]
      BY <1>1, <1>3 DEF IInv, TypeOK
    <3> QED
      BY <1>3, <1>4, <1>6, <1>5, <2>1, <3>1, <3>2, <3>3 DEF IInv, WholeInv, Stream, TookL
  <2>3. ASSUME errors = 0, bitClk'
        PROVE  \E d \in Dirs : started[d]' \/ d \in L'["start"] \union L'["unclock"]
    BY <1>1, <1>2, <1>3, <1>4, <1>6, <1>5, <2>1, <2>3 DEF IInv, TypeOK, WholeInv, RunInv, TookL
  <2> QED
    BY <1>2, <1>6, <2>2, <2>3 DEF RunInv, Asleep
<1>16. QuietStandby'
  BY <1>1, <1>2, <1>3, <1>4, <1>5, <1>6 DEF IInv, QuietStandby
<1>17. PutInv'
  BY <1>1, <1>2, <1>3, <1>4, <1>5, <1>6 DEF IInv, PutInv, TookL
<1> QED
  BY <1>4, <1>7, <1>8, <1>9, <1>10, <1>11, <1>12, <1>13, <1>14, <1>15, <1>16, <1>17 DEF IInv

\* From the bit clock.
LEMMA UnclockKeeps ==
  ASSUME IInv, NEW l \in Lanes, Unclock(l)
  PROVE  IInv'
<1>1. /\ At(l, "unclock") /\ Rest(l)
      /\ IF \A d \in Dirs : ~started[d] THEN ClockStop ELSE UNCHANGED <<bitClk, clkOn>>
  BY DEF Unclock
<1>2. l = "lock" /\ pm = "up" /\ "unclock" \in Ops
  BY <1>1, LockOnly DEF StreamOps
<1>3. Arg(l) \in Dirs
  BY <1>1, ArgKind DEF IInv, StreamOps, AmpOps
<1>4. ProgInv' /\ TookL("unclock", Arg(l))
  BY <1>1, <1>2, TakeStep DEF IInv
<1>5. /\ L["start"] = {}
      /\ L["stop"] = {}
      /\ L["disable"] = {}
  BY <1>4, RankTable, OpsAre DEF TookL, First
<1>6. UNCHANGED <<hp, open, started, spkVol, vol, powered, enabled, level, ampOn, ampVol,
                  l83Susp, ampSusp, on, taken, holder, put, pm, kind, errors>>
  BY DEF Unclock, KeepStream, amps, ctl
<1>7. TypeOK'
  BY <1>1, <1>2, <1>3, <1>4, <1>5, <1>6 DEF IInv, TypeOK, ClockStop
<1>8. LaneInv'
  BY <1>4, <1>2, <1>6, TookLane DEF IInv
<1>9. WholeInv'
  BY <1>4, <1>2, TookWhole DEF IInv
<1>10. StartInv'
  BY OpsAre, <1>1, <1>2, <1>3, <1>4, <1>5, <1>6 DEF IInv, StartInv, Asleep, TookL
<1>11. MarkInv'
  BY <1>1, <1>2, <1>3, <1>4, <1>5, <1>6 DEF IInv, MarkInv, TookL
<1>12. FollowInv'
  BY OpsAre, <1>1, <1>2, <1>3, <1>4, <1>5, <1>6 DEF IInv, FollowInv, TookL
<1>13. VolInv'
  BY OpsAre, <1>1, <1>2, <1>3, <1>4, <1>5, <1>6 DEF IInv, VolInv, TookL
<1>14. ClockInv'
  BY <1>1, <1>2, <1>3, <1>4, <1>5, <1>6 DEF IInv, ClockInv, TookL, ClockStop
<1>15. RunInv'
  <2>1. /\ L'["power"] = L["power"] /\ L'["clock"] = L["clock"]
        /\ L'["enable"] = L["enable"] /\ L'["start"] = L["start"]
        /\ L'["stop"] = L["stop"] /\ L'["disable"] = L["disable"]
        /\ L'["unclock"] = L["unclock"] \ {Arg(l)} /\ L'["unpower"] = L["unpower"]
    BY <1>4, OpsAre DEF TookL
  <2>2. ASSUME errors = 0, NEW d \in Dirs
        PROVE  Stream(d)'
    <3>1. Stream(d)
      BY <1>2, <2>2 DEF IInv, RunInv
    <3>2. /\ powered[d] \in BOOLEAN /\ enabled[d] \in BOOLEAN /\ started[d] \in BOOLEAN
          /\ bitClk \in BOOLEAN
      BY DEF IInv, TypeOK
    <3> QED
      BY <1>1, <1>3, <1>4, <1>6, <1>5, <2>1, <3>1, <3>2 DEF IInv, WholeInv, Stream, TookL,
         ClockInv, ClockStop, Stream
  <2>3. ASSUME errors = 0, bitClk'
        PROVE  \E d \in Dirs : started[d]' \/ d \in L'["start"] \union L'["unclock"]
    BY <1>1, <1>2, <1>3, <1>4, <1>6, <1>5, <2>1, <2>3 DEF IInv, TypeOK, WholeInv, RunInv,
       TookL, ClockInv, ClockStop, Stream
  <2> QED
    BY <1>2, <1>6, <2>2, <2>3 DEF RunInv, Asleep
<1>16. QuietStandby'
  BY <1>1, <1>2, <1>3, <1>4, <1>5, <1>6 DEF IInv, QuietStandby
<1>17. PutInv'
  BY <1>1, <1>2, <1>3, <1>4, <1>5, <1>6 DEF IInv, PutInv, TookL
<1> QED
  BY <1>4, <1>7, <1>8, <1>9, <1>10, <1>11, <1>12, <1>13, <1>14, <1>15, <1>16, <1>17 DEF IInv

\* A block powered down.
LEMMA UnpowerKeeps ==
  ASSUME IInv, NEW l \in Lanes, Unpower(l)
  PROVE  IInv'
<1>1. /\ At(l, "unpower") /\ Rest(l)
      /\ powered' = [powered EXCEPT ![Arg(l)] = FALSE]
  BY DEF Unpower
<1>2. l = "lock" /\ pm = "up" /\ "unpower" \in Ops
  BY <1>1, LockOnly DEF StreamOps
<1>3. Arg(l) \in Dirs
  BY <1>1, ArgKind DEF IInv, StreamOps, AmpOps
<1>4. ProgInv' /\ TookL("unpower", Arg(l))
  BY <1>1, <1>2, TakeStep DEF IInv
<1>5. /\ L["start"] = {}
      /\ L["stop"] = {}
      /\ L["disable"] = {}
      /\ L["unclock"] = {}
  BY <1>4, RankTable, OpsAre DEF TookL, First
<1>6. UNCHANGED <<hp, open, started, spkVol, vol, clkOn, bitClk, enabled, level, ampOn,
                  ampVol, l83Susp, ampSusp, on, taken, holder, put, pm, kind, errors>>
  BY DEF Unpower, KeepStream, amps, ctl
<1>7. TypeOK'
  BY <1>1, <1>2, <1>3, <1>4, <1>5, <1>6 DEF IInv, TypeOK
<1>8. LaneInv'
  BY <1>4, <1>2, <1>6, TookLane DEF IInv
<1>9. WholeInv'
  BY <1>4, <1>2, TookWhole DEF IInv
<1>10. StartInv'
  BY OpsAre, <1>1, <1>2, <1>3, <1>4, <1>5, <1>6 DEF IInv, StartInv, Asleep, TookL
<1>11. MarkInv'
  BY <1>1, <1>2, <1>3, <1>4, <1>5, <1>6 DEF IInv, MarkInv, TookL
<1>12. FollowInv'
  BY OpsAre, <1>1, <1>2, <1>3, <1>4, <1>5, <1>6 DEF IInv, FollowInv, TookL
<1>13. VolInv'
  BY OpsAre, <1>1, <1>2, <1>3, <1>4, <1>5, <1>6 DEF IInv, VolInv, TookL
<1>14. ClockInv'
  BY <1>1, <1>2, <1>3, <1>4, <1>5, <1>6 DEF IInv, ClockInv, TookL
<1>15. RunInv'
  <2>1. /\ L'["power"] = L["power"] /\ L'["clock"] = L["clock"]
        /\ L'["enable"] = L["enable"] /\ L'["start"] = L["start"]
        /\ L'["stop"] = L["stop"] /\ L'["disable"] = L["disable"]
        /\ L'["unclock"] = L["unclock"] /\ L'["unpower"] = L["unpower"] \ {Arg(l)}
    BY <1>4, OpsAre DEF TookL
  <2>2. ASSUME errors = 0, NEW d \in Dirs
        PROVE  Stream(d)'
    <3>1. Stream(d)
      BY <1>2, <2>2 DEF IInv, RunInv
    <3>2. /\ powered[d] \in BOOLEAN /\ enabled[d] \in BOOLEAN /\ started[d] \in BOOLEAN
          /\ bitClk \in BOOLEAN
      BY DEF IInv, TypeOK
    <3>3. powered'[d] = IF d = Arg(l) THEN FALSE ELSE powered[d]
      BY <1>1, <1>3 DEF IInv, TypeOK
    <3> QED
      BY <1>3, <1>4, <1>6, <1>5, <2>1, <3>1, <3>2, <3>3 DEF IInv, WholeInv, Stream, TookL
  <2>3. ASSUME errors = 0, bitClk'
        PROVE  \E d \in Dirs : started[d]' \/ d \in L'["start"] \union L'["unclock"]
    BY <1>1, <1>2, <1>3, <1>4, <1>6, <1>5, <2>1, <2>3 DEF IInv, TypeOK, WholeInv, RunInv, TookL
  <2> QED
    BY <1>2, <1>6, <2>2, <2>3 DEF RunInv, Asleep
<1>16. QuietStandby'
  BY <1>1, <1>2, <1>3, <1>4, <1>5, <1>6 DEF IInv, QuietStandby
<1>17. PutInv'
  BY <1>1, <1>2, <1>3, <1>4, <1>5, <1>6 DEF IInv, PutInv, TookL
<1> QED
  BY <1>4, <1>7, <1>8, <1>9, <1>10, <1>11, <1>12, <1>13, <1>14, <1>15, <1>16, <1>17 DEF IInv

\* The volume read.
LEMMA TakeKeeps ==
  ASSUME IInv, NEW l \in Lanes, Take(l)
  PROVE  IInv'
<1>1. /\ At(l, "take") /\ Rest(l)
      /\ taken' = vol[Arg(l)]
  BY DEF Take
<1>2. l = "lock" /\ pm = "up" /\ "take" \in Ops
  BY <1>1, LockOnly DEF StreamOps
<1>3. Arg(l) \in Dirs
  BY <1>1, ArgKind DEF IInv, StreamOps, AmpOps
<1>4. ProgInv' /\ TookL("take", Arg(l))
  BY <1>1, <1>2, TakeStep DEF IInv
<1>5. UNCHANGED <<hp, open, started, spkVol, vol, clkOn, bitClk, powered, enabled, level,
                  ampOn, ampVol, l83Susp, ampSusp, on, holder, put, pm, kind, errors>>
  BY DEF Take, KeepStream, amps, ctl, l83
<1>6. TypeOK'
  BY <1>1, <1>2, <1>3, <1>4, <1>5 DEF IInv, TypeOK
<1>7. LaneInv'
  BY <1>4, <1>2, <1>5, TookLane DEF IInv
<1>8. WholeInv'
  BY <1>4, <1>2, TookWhole DEF IInv
<1>9. StartInv'
  BY OpsAre, <1>1, <1>2, <1>3, <1>4, <1>5 DEF IInv, StartInv, Asleep, TookL
<1>10. MarkInv'
  BY <1>1, <1>2, <1>3, <1>4, <1>5 DEF IInv, MarkInv, TookL
<1>11. FollowInv'
  BY OpsAre, <1>1, <1>2, <1>3, <1>4, <1>5 DEF IInv, FollowInv, TookL
<1>12. VolInv'
  BY OpsAre, <1>1, <1>2, <1>3, <1>4, <1>5 DEF IInv, VolInv, TookL
<1>13. ClockInv'
  BY <1>1, <1>2, <1>3, <1>4, <1>5 DEF IInv, ClockInv, TookL
<1>14. RunInv'
  <2>1. /\ L'["power"] = L["power"] /\ L'["clock"] = L["clock"]
        /\ L'["enable"] = L["enable"] /\ L'["start"] = L["start"]
        /\ L'["stop"] = L["stop"] /\ L'["disable"] = L["disable"]
        /\ L'["unclock"] = L["unclock"] /\ L'["unpower"] = L["unpower"]
    BY <1>4, OpsAre DEF TookL
  <2>2. ASSUME errors = 0, NEW d \in Dirs
        PROVE  Stream(d)'
    <3>1. Stream(d)
      BY <1>2, <2>2 DEF IInv, RunInv
    <3>2. /\ powered[d] \in BOOLEAN /\ enabled[d] \in BOOLEAN /\ started[d] \in BOOLEAN
          /\ bitClk \in BOOLEAN
      BY DEF IInv, TypeOK
    <3> QED
      BY <1>1, <1>3, <1>4, <1>5, <2>1, <3>1, <3>2 DEF IInv, WholeInv, Stream, TookL
  <2>3. ASSUME errors = 0, bitClk'
        PROVE  \E d \in Dirs : started[d]' \/ d \in L'["start"] \union L'["unclock"]
    BY <1>1, <1>2, <1>3, <1>4, <1>5, <2>1, <2>3 DEF IInv, TypeOK, WholeInv, RunInv, TookL
  <2> QED
    BY <1>2, <1>5, <2>2, <2>3 DEF RunInv, Asleep
<1>15. PutInv' /\ QuietStandby'
  BY <1>1, <1>2, <1>3, <1>4, <1>5 DEF IInv, PutInv, QuietStandby, TookL
<1> QED
  BY <1>4, <1>6, <1>7, <1>8, <1>9, <1>10, <1>11, <1>12, <1>13, <1>14, <1>15 DEF IInv

\* The volume written.
LEMMA UnmuteKeeps ==
  ASSUME IInv, NEW l \in Lanes, Unmute(l)
  PROVE  IInv'
<1>1. /\ At(l, "unmute") /\ Rest(l)
      /\ level' = [level EXCEPT ![Arg(l)] = taken]
  BY DEF Unmute
<1>2. l = "lock" /\ pm = "up" /\ "unmute" \in Ops
  BY <1>1, LockOnly DEF StreamOps
<1>3. Arg(l) \in Dirs
  BY <1>1, ArgKind DEF IInv, StreamOps, AmpOps
<1>4. ProgInv' /\ TookL("unmute", Arg(l))
  BY <1>1, <1>2, TakeStep DEF IInv
<1>5. UNCHANGED <<hp, open, started, spkVol, vol, clkOn, bitClk, powered, enabled, ampOn,
                  ampVol, l83Susp, ampSusp, on, taken, holder, put, pm, kind, errors>>
  BY DEF Unmute, KeepStream, amps, ctl
<1>6. TypeOK'
  BY <1>1, <1>2, <1>3, <1>4, <1>5 DEF IInv, TypeOK
<1>7. LaneInv'
  BY <1>4, <1>2, <1>5, TookLane DEF IInv
<1>8. WholeInv'
  BY <1>4, <1>2, TookWhole DEF IInv
<1>9. StartInv'
  BY OpsAre, <1>1, <1>2, <1>3, <1>4, <1>5 DEF IInv, StartInv, Asleep, TookL
<1>10. MarkInv'
  BY <1>1, <1>2, <1>3, <1>4, <1>5 DEF IInv, MarkInv, TookL
<1>11. FollowInv'
  BY OpsAre, <1>1, <1>2, <1>3, <1>4, <1>5 DEF IInv, FollowInv, TookL
<1>12. VolInv'
  BY OpsAre, <1>1, <1>2, <1>3, <1>4, <1>5 DEF IInv, VolInv, TookL
<1>13. ClockInv'
  BY <1>1, <1>2, <1>3, <1>4, <1>5 DEF IInv, ClockInv, TookL
<1>14. RunInv'
  <2>1. /\ L'["power"] = L["power"] /\ L'["clock"] = L["clock"]
        /\ L'["enable"] = L["enable"] /\ L'["start"] = L["start"]
        /\ L'["stop"] = L["stop"] /\ L'["disable"] = L["disable"]
        /\ L'["unclock"] = L["unclock"] /\ L'["unpower"] = L["unpower"]
    BY <1>4, OpsAre DEF TookL
  <2>2. ASSUME errors = 0, NEW d \in Dirs
        PROVE  Stream(d)'
    <3>1. Stream(d)
      BY <1>2, <2>2 DEF IInv, RunInv
    <3>2. /\ powered[d] \in BOOLEAN /\ enabled[d] \in BOOLEAN /\ started[d] \in BOOLEAN
          /\ bitClk \in BOOLEAN
      BY DEF IInv, TypeOK
    <3> QED
      BY <1>1, <1>3, <1>4, <1>5, <2>1, <3>1, <3>2 DEF IInv, WholeInv, Stream, TookL
  <2>3. ASSUME errors = 0, bitClk'
        PROVE  \E d \in Dirs : started[d]' \/ d \in L'["start"] \union L'["unclock"]
    BY <1>1, <1>2, <1>3, <1>4, <1>5, <2>1, <2>3 DEF IInv, TypeOK, WholeInv, RunInv, TookL
  <2> QED
    BY <1>2, <1>5, <2>2, <2>3 DEF RunInv, Asleep
<1>15. QuietStandby'
  BY <1>1, <1>2, <1>3, <1>4, <1>5 DEF IInv, QuietStandby
<1>16. PutInv'
  BY <1>1, <1>2, <1>3, <1>4, <1>5 DEF IInv, PutInv, TookL
<1> QED
  BY <1>4, <1>6, <1>7, <1>8, <1>9, <1>10, <1>11, <1>12, <1>13, <1>14, <1>15, <1>16 DEF IInv

\* The mute.
LEMMA MuteKeeps ==
  ASSUME IInv, NEW l \in Lanes, Mute(l)
  PROVE  IInv'
<1>1. /\ At(l, "mute") /\ Rest(l)
      /\ level' = [level EXCEPT ![Arg(l)] = Muted]
  BY DEF Mute
<1>2. l = "lock" /\ pm = "up" /\ "mute" \in Ops
  BY <1>1, LockOnly DEF StreamOps
<1>3. Arg(l) \in Dirs
  BY <1>1, ArgKind DEF IInv, StreamOps, AmpOps
<1>4. ProgInv' /\ TookL("mute", Arg(l))
  BY <1>1, <1>2, TakeStep DEF IInv
<1>5. UNCHANGED <<hp, open, started, spkVol, vol, clkOn, bitClk, powered, enabled, ampOn,
                  ampVol, l83Susp, ampSusp, on, taken, holder, put, pm, kind, errors>>
  BY DEF Mute, KeepStream, amps, ctl
<1>6. TypeOK'
  BY <1>1, <1>2, <1>3, <1>4, <1>5 DEF IInv, TypeOK
<1>7. LaneInv'
  BY <1>4, <1>2, <1>5, TookLane DEF IInv
<1>8. WholeInv'
  BY <1>4, <1>2, TookWhole DEF IInv
<1>9. StartInv'
  BY OpsAre, <1>1, <1>2, <1>3, <1>4, <1>5 DEF IInv, StartInv, Asleep, TookL
<1>10. MarkInv'
  BY <1>1, <1>2, <1>3, <1>4, <1>5 DEF IInv, MarkInv, TookL
<1>11. FollowInv'
  BY OpsAre, <1>1, <1>2, <1>3, <1>4, <1>5 DEF IInv, FollowInv, TookL
<1>12. VolInv'
  BY OpsAre, <1>1, <1>2, <1>3, <1>4, <1>5 DEF IInv, VolInv, TookL
<1>13. ClockInv'
  BY <1>1, <1>2, <1>3, <1>4, <1>5 DEF IInv, ClockInv, TookL
<1>14. RunInv'
  <2>1. /\ L'["power"] = L["power"] /\ L'["clock"] = L["clock"]
        /\ L'["enable"] = L["enable"] /\ L'["start"] = L["start"]
        /\ L'["stop"] = L["stop"] /\ L'["disable"] = L["disable"]
        /\ L'["unclock"] = L["unclock"] /\ L'["unpower"] = L["unpower"]
    BY <1>4, OpsAre DEF TookL
  <2>2. ASSUME errors = 0, NEW d \in Dirs
        PROVE  Stream(d)'
    <3>1. Stream(d)
      BY <1>2, <2>2 DEF IInv, RunInv
    <3>2. /\ powered[d] \in BOOLEAN /\ enabled[d] \in BOOLEAN /\ started[d] \in BOOLEAN
          /\ bitClk \in BOOLEAN
      BY DEF IInv, TypeOK
    <3> QED
      BY <1>1, <1>3, <1>4, <1>5, <2>1, <3>1, <3>2 DEF IInv, WholeInv, Stream, TookL
  <2>3. ASSUME errors = 0, bitClk'
        PROVE  \E d \in Dirs : started[d]' \/ d \in L'["start"] \union L'["unclock"]
    BY <1>1, <1>2, <1>3, <1>4, <1>5, <2>1, <2>3 DEF IInv, TypeOK, WholeInv, RunInv, TookL
  <2> QED
    BY <1>2, <1>5, <2>2, <2>3 DEF RunInv, Asleep
<1>15. QuietStandby'
  BY <1>1, <1>2, <1>3, <1>4, <1>5 DEF IInv, QuietStandby
<1>16. PutInv'
  BY <1>1, <1>2, <1>3, <1>4, <1>5 DEF IInv, PutInv, TookL
<1> QED
  BY <1>4, <1>6, <1>7, <1>8, <1>9, <1>10, <1>11, <1>12, <1>13, <1>14, <1>15, <1>16 DEF IInv

\* The mark of a prepare.
LEMMA StartKeeps ==
  ASSUME IInv, NEW l \in Lanes, StartStop(l), At(l, "start")
  PROVE  IInv'
<1>1. /\ At(l, "start") /\ Rest(l)
      /\ started' = [started EXCEPT ![Arg(l)] = TRUE]
  BY DEF StartStop, At
<1>2. l = "lock" /\ pm = "up" /\ "start" \in Ops
  BY <1>1, LockOnly DEF StreamOps
<1>3. Arg(l) \in Dirs
  BY <1>1, ArgKind DEF IInv, StreamOps, AmpOps
<1>4. ProgInv' /\ TookL("start", Arg(l))
  BY <1>1, <1>2, TakeStep DEF IInv
<1>5. /\ L["power"] = {}
      /\ L["clock"] = {}
      /\ L["enable"] = {}
  BY <1>4, RankTable, OpsAre DEF TookL, First
<1>6. UNCHANGED <<hp, open, spkVol, vol, clkOn, bitClk, powered, enabled, level, ampOn,
                  ampVol, l83Susp, ampSusp, on, taken, holder, put, pm, kind, errors>>
  BY DEF StartStop, KeepStream, amps, ctl, l83
<1>7. TypeOK'
  BY <1>1, <1>2, <1>3, <1>4, <1>5, <1>6 DEF IInv, TypeOK
<1>8. LaneInv'
  BY <1>4, <1>2, <1>6, TookLane DEF IInv
<1>9. WholeInv'
  BY <1>4, <1>2, TookWhole DEF IInv
<1>10. StartInv'
  BY OpsAre, <1>1, <1>2, <1>3, <1>4, <1>5, <1>6 DEF IInv, StartInv, Asleep, TookL, TypeOK,
     LaneInv
<1>11. MarkInv'
  BY <1>1, <1>2, <1>3, <1>4, <1>5, <1>6 DEF IInv, MarkInv, TookL
<1>12. FollowInv'
  BY OpsAre, <1>1, <1>2, <1>3, <1>4, <1>5, <1>6 DEF IInv, FollowInv, TookL, WholeInv, TypeOK
<1>13. VolInv'
  BY OpsAre, <1>1, <1>2, <1>3, <1>4, <1>5, <1>6 DEF IInv, VolInv, TookL, WholeInv, TypeOK
<1>14. ClockInv'
  BY <1>1, <1>2, <1>3, <1>4, <1>5, <1>6 DEF IInv, ClockInv, TookL
<1>15. RunInv'
  <2>1. /\ L'["power"] = L["power"] /\ L'["clock"] = L["clock"]
        /\ L'["enable"] = L["enable"] /\ L'["start"] = L["start"] \ {Arg(l)}
        /\ L'["stop"] = L["stop"] /\ L'["disable"] = L["disable"]
        /\ L'["unclock"] = L["unclock"] /\ L'["unpower"] = L["unpower"]
    BY <1>4, OpsAre DEF TookL
  <2>2. ASSUME errors = 0, NEW d \in Dirs
        PROVE  Stream(d)'
    <3>1. Stream(d)
      BY <1>2, <2>2 DEF IInv, RunInv
    <3>2. /\ powered[d] \in BOOLEAN /\ enabled[d] \in BOOLEAN /\ started[d] \in BOOLEAN
          /\ bitClk \in BOOLEAN
      BY DEF IInv, TypeOK
    <3>3. started'[d] = IF d = Arg(l) THEN TRUE ELSE started[d]
      BY <1>1, <1>3 DEF IInv, TypeOK
    <3> QED
      BY <1>3, <1>4, <1>6, <1>5, <2>1, <3>1, <3>2, <3>3 DEF IInv, WholeInv, Stream, TookL
  <2>3. ASSUME errors = 0, bitClk'
        PROVE  \E d \in Dirs : started[d]' \/ d \in L'["start"] \union L'["unclock"]
    BY <1>1, <1>2, <1>3, <1>4, <1>6, <1>5, <2>1, <2>3 DEF IInv, TypeOK, WholeInv, RunInv, TookL
  <2> QED
    BY <1>2, <1>6, <2>2, <2>3 DEF RunInv, Asleep
<1>16. PutInv' /\ QuietStandby'
  BY <1>1, <1>2, <1>3, <1>4, <1>5, <1>6 DEF IInv, PutInv, QuietStandby, TookL
<1> QED
  BY <1>4, <1>7, <1>8, <1>9, <1>10, <1>11, <1>12, <1>13, <1>14, <1>15, <1>16 DEF IInv

\* The mark of a cleanup.
LEMMA StopKeeps ==
  ASSUME IInv, NEW l \in Lanes, StartStop(l), At(l, "stop")
  PROVE  IInv'
<1>1. /\ At(l, "stop") /\ Rest(l)
      /\ started' = [started EXCEPT ![Arg(l)] = FALSE]
  BY DEF StartStop, At
<1>2. l = "lock" /\ pm = "up" /\ "stop" \in Ops
  BY <1>1, LockOnly DEF StreamOps
<1>3. Arg(l) \in Dirs
  BY <1>1, ArgKind DEF IInv, StreamOps, AmpOps
<1>4. ProgInv' /\ TookL("stop", Arg(l))
  BY <1>1, <1>2, TakeStep DEF IInv
<1>5. UNCHANGED <<hp, open, spkVol, vol, clkOn, bitClk, powered, enabled, level, ampOn,
                  ampVol, l83Susp, ampSusp, on, taken, holder, put, pm, kind, errors>>
  BY DEF StartStop, KeepStream, amps, ctl, l83
<1>6. TypeOK'
  BY <1>1, <1>2, <1>3, <1>4, <1>5 DEF IInv, TypeOK
<1>7. LaneInv'
  BY <1>4, <1>2, <1>5, TookLane DEF IInv
<1>8. WholeInv'
  BY <1>4, <1>2, TookWhole DEF IInv
<1>9. StartInv'
  BY OpsAre, <1>1, <1>2, <1>3, <1>4, <1>5 DEF IInv, StartInv, Asleep, TookL, TypeOK
<1>10. MarkInv'
  BY <1>1, <1>2, <1>3, <1>4, <1>5 DEF IInv, MarkInv, TookL
<1>11. FollowInv'
  BY OpsAre, <1>1, <1>2, <1>3, <1>4, <1>5 DEF IInv, FollowInv, TookL, WholeInv, TypeOK
<1>12. VolInv'
  BY OpsAre, <1>1, <1>2, <1>3, <1>4, <1>5 DEF IInv, VolInv, TookL, WholeInv, TypeOK
<1>13. ClockInv'
  BY <1>1, <1>2, <1>3, <1>4, <1>5 DEF IInv, ClockInv, TookL
<1>14. RunInv'
  <2>1. /\ L'["power"] = L["power"] /\ L'["clock"] = L["clock"]
        /\ L'["enable"] = L["enable"] /\ L'["start"] = L["start"]
        /\ L'["stop"] = L["stop"] \ {Arg(l)} /\ L'["disable"] = L["disable"]
        /\ L'["unclock"] = L["unclock"] /\ L'["unpower"] = L["unpower"]
    BY <1>4, OpsAre DEF TookL
  <2>2. ASSUME errors = 0, NEW d \in Dirs
        PROVE  Stream(d)'
    <3>1. Stream(d)
      BY <1>2, <2>2 DEF IInv, RunInv
    <3>2. /\ powered[d] \in BOOLEAN /\ enabled[d] \in BOOLEAN /\ started[d] \in BOOLEAN
          /\ bitClk \in BOOLEAN
      BY DEF IInv, TypeOK
    <3>3. started'[d] = IF d = Arg(l) THEN FALSE ELSE started[d]
      BY <1>1, <1>3 DEF IInv, TypeOK
    <3> QED
      BY <1>3, <1>4, <1>5, <2>1, <3>1, <3>2, <3>3 DEF IInv, WholeInv, Stream, TookL
  <2>3. ASSUME errors = 0, bitClk'
        PROVE  \E d \in Dirs : started[d]' \/ d \in L'["start"] \union L'["unclock"]
    BY <1>1, <1>2, <1>3, <1>4, <1>5, <2>1, <2>3 DEF IInv, TypeOK, WholeInv, RunInv, TookL
  <2> QED
    BY <1>2, <1>5, <2>2, <2>3 DEF RunInv, Asleep
<1>15. PutInv' /\ QuietStandby'
  BY <1>1, <1>2, <1>3, <1>4, <1>5 DEF IInv, PutInv, QuietStandby, TookL
<1> QED
  BY <1>4, <1>6, <1>7, <1>8, <1>9, <1>10, <1>11, <1>12, <1>13, <1>14, <1>15 DEF IInv

\* A volume written to an amp.
LEMMA SetVolumeKeeps ==
  ASSUME IInv, NEW l \in Lanes, SetVolume(l)
  PROVE  IInv'
<1>1. /\ At(l, "volume") /\ Rest(l)
      /\ ampVol' = [ampVol EXCEPT ![Arg(l)] =
                      IF ampSusp[Arg(l)] THEN @ ELSE spkVol[Channel(Arg(l))]]
  BY DEF SetVolume
<1>2. l = "lock" /\ pm = "up" /\ "volume" \in Ops
  BY <1>1, LockOnly DEF StreamOps
<1>3. Arg(l) \in Amps
  BY <1>1, ArgKind DEF IInv, StreamOps, AmpOps
<1>4. ProgInv' /\ TookL("volume", Arg(l))
  BY <1>1, <1>2, TakeStep DEF IInv
<1>5. /\ L["start"] = {}
      /\ L["stop"] = {}
  BY <1>4, RankTable, OpsAre DEF TookL, First
<1>6. UNCHANGED <<hp, open, started, spkVol, vol, clkOn, bitClk, powered, enabled, level,
                  ampOn, l83Susp, ampSusp, on, taken, holder, put, pm, kind, errors>>
  BY DEF SetVolume, KeepAmp, amps, ctl, l83, user
<1>7. TypeOK'
  BY ChannelKind, <1>1, <1>2, <1>3, <1>4, <1>5, <1>6 DEF IInv, TypeOK
<1>8. LaneInv'
  BY <1>4, <1>2, <1>6, TookLane DEF IInv
<1>9. WholeInv'
  BY <1>4, <1>2, TookWhole DEF IInv
<1>10. StartInv'
  BY OpsAre, <1>1, <1>2, <1>3, <1>4, <1>5, <1>6 DEF IInv, StartInv, Asleep, TookL
<1>11. MarkInv'
  BY <1>1, <1>2, <1>3, <1>4, <1>5, <1>6 DEF IInv, MarkInv, TookL
<1>12. FollowInv'
  BY OpsAre, <1>1, <1>2, <1>3, <1>4, <1>5, <1>6 DEF IInv, FollowInv, TookL
<1>13. VolInv'
  BY OpsAre, <1>1, <1>2, <1>3, <1>4, <1>5, <1>6 DEF IInv, VolInv, TookL, MarkInv, TypeOK
<1>14. ClockInv'
  BY <1>1, <1>2, <1>3, <1>4, <1>5, <1>6 DEF IInv, ClockInv, TookL
<1>15. RunInv'
  <2>1. /\ L'["power"] = L["power"] /\ L'["clock"] = L["clock"]
        /\ L'["enable"] = L["enable"] /\ L'["start"] = L["start"]
        /\ L'["stop"] = L["stop"] /\ L'["disable"] = L["disable"]
        /\ L'["unclock"] = L["unclock"] /\ L'["unpower"] = L["unpower"]
    BY <1>4, OpsAre DEF TookL
  <2>2. ASSUME errors = 0, NEW d \in Dirs
        PROVE  Stream(d)'
    <3>1. Stream(d)
      BY <1>2, <2>2 DEF IInv, RunInv
    <3>2. /\ powered[d] \in BOOLEAN /\ enabled[d] \in BOOLEAN /\ started[d] \in BOOLEAN
          /\ bitClk \in BOOLEAN
      BY DEF IInv, TypeOK
    <3> QED
      BY <1>1, <1>3, <1>4, <1>6, <1>5, <2>1, <3>1, <3>2 DEF IInv, WholeInv, Stream, TookL
  <2>3. ASSUME errors = 0, bitClk'
        PROVE  \E d \in Dirs : started[d]' \/ d \in L'["start"] \union L'["unclock"]
    BY <1>1, <1>2, <1>3, <1>4, <1>6, <1>5, <2>1, <2>3 DEF IInv, TypeOK, WholeInv, RunInv, TookL
  <2> QED
    BY <1>2, <1>6, <2>2, <2>3 DEF RunInv, Asleep
<1>16. PutInv' /\ QuietStandby'
  BY <1>1, <1>2, <1>3, <1>4, <1>5, <1>6 DEF IInv, PutInv, QuietStandby, TookL
<1> QED
  BY <1>4, <1>7, <1>8, <1>9, <1>10, <1>11, <1>12, <1>13, <1>14, <1>15, <1>16 DEF IInv

\* A failed read, the sequence skipped.
LEMMA ReadFailsKeeps ==
  ASSUME IInv, NEW l \in Lanes, ReadFails(l)
  PROVE  IInv'
<1>1. PICK op \in {"power", "disable"} : At(l, op)
  BY DEF ReadFails
<1>2. /\ errors' = errors + 1 /\ errors < MaxErrors
      /\ prog' = [prog EXCEPT ![l] = SubSeq(@, 4, Len(@))]
  BY DEF ReadFails
<1>3. l = "lock" /\ pm = "up" /\ op \in Ops
  BY <1>1, LockOnly DEF StreamOps
<1>4. /\ ProgInv' /\ Arg("lock") \in L[op] /\ First(L, op) /\ Q' = Q
      /\ \A x \in Ops : L'[x] = L[x] \
           (IF x \in (IF op = "power" THEN {"power", "clock", "enable"}
                                     ELSE {"disable", "unclock", "unpower"})
            THEN {Arg("lock")} ELSE {})
  BY <1>1, <1>2, <1>3, SkipStep DEF IInv
<1>5. \A x \in Ops : L'[x] \subseteq L[x]
  BY <1>4
<1>6. /\ L'["start"] = L["start"] /\ L'["stop"] = L["stop"]
      /\ L'["follow"] = L["follow"] /\ L'["amp"] = L["amp"] /\ L'["volume"] = L["volume"]
  BY <1>4, OpsAre
<1>7. errors' # 0
  BY <1>2, StreamAssumption DEF IInv, TypeOK
<1>8. UNCHANGED <<hp, open, started, spkVol, vol, clkOn, bitClk, powered, enabled, level,
                  ampOn, ampVol, l83Susp, ampSusp, on, taken, holder, put, pm, kind>>
  BY DEF ReadFails, KeepStream, amps, ctl, l83
<1>9. TypeOK'
  BY StreamAssumption, <1>1, <1>2, <1>3, <1>4, <1>5, <1>6, <1>7, <1>8 DEF IInv, TypeOK
<1>10. LaneInv'
  BY <1>4, <1>5, <1>8, <1>3 DEF IInv, LaneInv, LockOps, PmOps
<1>11. WholeInv'
  <2>1. CASE op = "power"
    BY <1>4, <1>6, <2>1, OpsAre DEF IInv, WholeInv
  <2>2. CASE op = "disable"
    <3>1. L["stop"] = {}
      BY <1>4, <2>2, RankTable, OpsAre DEF First
    <3> QED
      BY <1>4, <1>6, <2>2, <3>1, OpsAre DEF IInv, WholeInv
  <2> QED
    BY <1>1, <2>1, <2>2
<1>12. StartInv'
  BY <1>6, <1>8 DEF IInv, StartInv, Asleep
<1>13. MarkInv'
  BY <1>4, <1>8 DEF IInv, MarkInv
<1>14. FollowInv'
  BY <1>6, <1>4, <1>8 DEF IInv, FollowInv
<1>15. VolInv'
  BY <1>6, <1>4, <1>3, <1>8 DEF IInv, VolInv
<1>16. ClockInv'
  BY <1>4, <1>8 DEF IInv, ClockInv
<1>17. RunInv'
  BY <1>7 DEF RunInv
<1>18. PutInv' /\ QuietStandby'
  BY <1>1, <1>2, <1>3, <1>4, <1>5, <1>6, <1>7, <1>8 DEF IInv, PutInv, QuietStandby
<1> QED
  BY <1>4, <1>9, <1>10, <1>11, <1>12, <1>13, <1>14, <1>15, <1>16, <1>17, <1>18 DEF IInv

\* The jack handler or a hook asks who plays.
LEMMA FollowLockKeeps ==
  ASSUME IInv, Follow("lock")
  PROVE  IInv'
<1>1. /\ At("lock", "follow") /\ Rest("lock")
      /\ on' = [on EXCEPT !["lock"] = ~hp /\ started["playback"]]
  BY DEF Follow, At
<1>2. "lock" \in Lanes
  BY DEF Lanes
<1>3. ProgInv' /\ TookL("follow", Arg("lock")) /\ "follow" \in Ops
  BY <1>1, <1>2, TakeStep DEF IInv
<1>4. L["follow"] # {}
  BY <1>3 DEF TookL
<1>5. L'["follow"] = {}
  BY <1>3, Typed DEF IInv, DueTyped, OtherOps, TookL
<1>6. /\ L["start"] = {}
      /\ L["stop"] = {}
  BY <1>3, RankTable, OpsAre DEF TookL, First
<1>7. UNCHANGED <<hp, open, started, spkVol, vol, clkOn, bitClk, powered, enabled, level,
                  ampOn, ampVol, l83Susp, ampSusp, taken, holder, put, pm, kind, errors>>
  BY DEF Follow, KeepAmp, amps, ctl, l83, user
<1>8. TypeOK'
  BY <1>2, <1>1, <1>2, <1>3, <1>4, <1>5, <1>6, <1>7 DEF IInv, TypeOK
<1>9. LaneInv'
  BY <1>3, <1>7, TookLane DEF IInv
<1>10. WholeInv'
  BY <1>3, TookWhole DEF IInv
<1>11. StartInv'
  BY OpsAre, <1>1, <1>2, <1>3, <1>4, <1>5, <1>6, <1>7 DEF IInv, StartInv, Asleep, TookL
<1>12. FollowInv'
  BY OpsAre, <1>1, <1>2, <1>3, <1>4, <1>5, <1>6, <1>7 DEF IInv, FollowInv, TookL, WholeInv,
     TypeOK, Lanes
<1>13. VolInv'
  BY OpsAre, <1>1, <1>2, <1>3, <1>4, <1>5, <1>6, <1>7 DEF IInv, VolInv, TookL
<1>14. RunInv'
  BY OpsAre, <1>1, <1>2, <1>3, <1>4, <1>5, <1>6, <1>7 DEF IInv, RunInv, Stream, Asleep, TookL,
     Stream
<1>15. PutInv' /\ MarkInv' /\ ClockInv' /\ QuietStandby'
  BY <1>1, <1>2, <1>3, <1>4, <1>5, <1>6, <1>7 DEF IInv, PutInv, MarkInv, ClockInv,
     QuietStandby, TookL
<1> QED
  BY <1>3, <1>8, <1>9, <1>10, <1>11, <1>12, <1>13, <1>14, <1>15 DEF IInv

\* The PM callback asks: nothing plays.
LEMMA FollowPmKeeps ==
  ASSUME IInv, Follow("pm")
  PROVE  IInv'
<1>1. /\ At("pm", "follow") /\ Rest("pm")
      /\ on' = [on EXCEPT !["pm"] = ~hp /\ started["playback"]]
  BY DEF Follow, At
<1>2. "pm" \in Lanes
  BY DEF Lanes
<1>3. ProgInv' /\ TookQ("follow", Arg("pm")) /\ "follow" \in Ops
  BY <1>1, <1>2, TakeStep DEF IInv
<1>4. pm = "wake" /\ ~started["playback"]
  BY <1>3 DEF IInv, LaneInv, PmOps, SuspendEnd, TookQ, StartInv, Asleep, Dirs
<1>5. Q'["follow"] = {}
  BY <1>3, Typed DEF IInv, DueTyped, OtherOps, TookQ
<1>6. UNCHANGED <<hp, open, started, spkVol, vol, clkOn, bitClk, powered, enabled, level,
                  ampOn, ampVol, l83Susp, ampSusp, taken, holder, put, pm, kind, errors>>
  BY DEF Follow, KeepAmp, amps, ctl, l83, user
<1>7. TypeOK'
  BY <1>2, <1>1, <1>2, <1>3, <1>4, <1>5, <1>6 DEF IInv, TypeOK
<1>8. LaneInv'
  BY <1>3, <1>6, TookLane DEF IInv
<1>9. WholeInv'
  BY <1>3, TookWhole DEF IInv
<1>10. MarkInv'
  BY OpsAre, <1>1, <1>2, <1>3, <1>4, <1>5, <1>6 DEF IInv, MarkInv, TookQ
<1>11. FollowInv'
  BY OpsAre, <1>1, <1>2, <1>3, <1>4, <1>5, <1>6 DEF IInv, FollowInv, TookQ, TypeOK, Lanes
<1>12. ClockInv'
  BY OpsAre, <1>1, <1>2, <1>3, <1>4, <1>5, <1>6 DEF IInv, ClockInv, TookQ
<1>13. StartInv' /\ PutInv' /\ VolInv' /\ RunInv' /\ QuietStandby'
  BY <1>1, <1>2, <1>3, <1>4, <1>5, <1>6 DEF IInv, StartInv, Asleep, PutInv, VolInv, RunInv,
     Stream, Asleep, QuietStandby, TookQ
<1> QED
  BY <1>3, <1>7, <1>8, <1>9, <1>10, <1>11, <1>12, <1>13 DEF IInv

\* An amp powered for the holder of jack_lock.
LEMMA PowerAmpLockKeeps ==
  ASSUME IInv, PowerAmp("lock")
  PROVE  IInv'
<1>1. /\ At("lock", "amp") /\ Rest("lock")
      /\ ampOn' = [ampOn EXCEPT ![Arg("lock")] =
                        IF ampSusp[Arg("lock")] THEN @ ELSE on["lock"]]
  BY DEF PowerAmp, At
<1>2. "lock" \in Lanes
  BY DEF Lanes
<1>3. ProgInv' /\ TookL("amp", Arg("lock")) /\ "amp" \in Ops
  BY <1>1, <1>2, TakeStep DEF IInv
<1>4. /\ pm # "down"
      /\ pm # "up" => kind = "forced"
  BY <1>3 DEF IInv, LaneInv, LockOps, TookL
<1>5. Arg("lock") \in Amps
  BY <1>1, <1>2, ArgKind DEF IInv, AmpOps
<1>6. /\ L["volume"] = {}
      /\ L["follow"] = {}
  BY <1>3, RankTable, OpsAre DEF TookL, First
<1>7. UNCHANGED <<hp, open, started, spkVol, vol, clkOn, bitClk, powered, enabled, level,
                  ampVol, l83Susp, ampSusp, on, taken, holder, put, pm, kind, errors>>
  BY DEF PowerAmp, KeepAmp, amps, ctl, l83, user
<1>8. TypeOK'
  BY <1>2, <1>1, <1>2, <1>3, <1>4, <1>5, <1>6, <1>7 DEF IInv, TypeOK
<1>9. LaneInv'
  BY <1>3, <1>7, TookLane DEF IInv
<1>10. WholeInv'
  BY <1>3, TookWhole DEF IInv
<1>11. StartInv'
  BY OpsAre, <1>1, <1>2, <1>3, <1>4, <1>5, <1>6, <1>7 DEF IInv, StartInv, Asleep, TookL
<1>12. FollowInv'
  BY OpsAre, <1>1, <1>2, <1>3, <1>4, <1>5, <1>6, <1>7 DEF IInv, FollowInv, TookL, MarkInv,
     StartInv, Asleep, TypeOK, Dirs
<1>13. VolInv'
  BY OpsAre, <1>1, <1>2, <1>3, <1>4, <1>5, <1>6, <1>7 DEF IInv, VolInv, TookL, FollowInv,
     TypeOK
<1>14. RunInv'
  BY OpsAre, <1>1, <1>2, <1>3, <1>4, <1>5, <1>6, <1>7 DEF IInv, RunInv, Stream, Asleep, TookL
<1>15. QuietStandby'
  BY <1>1, <1>2, <1>3, <1>4, <1>5, <1>6, <1>7 DEF IInv, QuietStandby
<1>16. PutInv' /\ MarkInv' /\ ClockInv'
  BY <1>1, <1>2, <1>3, <1>4, <1>5, <1>6, <1>7 DEF IInv, PutInv, MarkInv, ClockInv, TookL
<1> QED
  BY <1>3, <1>8, <1>9, <1>10, <1>11, <1>12, <1>13, <1>14, <1>15, <1>16 DEF IInv

\* An amp powered down by the PM callback.
LEMMA PowerAmpPmKeeps ==
  ASSUME IInv, PowerAmp("pm")
  PROVE  IInv'
<1>1. /\ At("pm", "amp") /\ Rest("pm")
      /\ ampOn' = [ampOn EXCEPT ![Arg("pm")] =
                        IF ampSusp[Arg("pm")] THEN @ ELSE on["pm"]]
  BY DEF PowerAmp, At
<1>2. "pm" \in Lanes
  BY DEF Lanes
<1>3. ProgInv' /\ TookQ("amp", Arg("pm")) /\ "amp" \in Ops
  BY <1>1, <1>2, TakeStep DEF IInv
<1>4. pm \in {"quiesce", "wake"} /\ on["pm"] = FALSE
  BY <1>3 DEF IInv, LaneInv, PmOps, TookQ, FollowInv
<1>5. Arg("pm") \in Amps
  BY <1>1, <1>2, ArgKind DEF IInv, AmpOps
<1>6. UNCHANGED <<hp, open, started, spkVol, vol, clkOn, bitClk, powered, enabled, level,
                  ampVol, l83Susp, ampSusp, on, taken, holder, put, pm, kind, errors>>
  BY DEF PowerAmp, KeepAmp, amps, ctl, l83, user
<1>7. TypeOK'
  BY <1>2, <1>1, <1>2, <1>3, <1>4, <1>5, <1>6 DEF IInv, TypeOK
<1>8. LaneInv'
  BY <1>3, <1>6, TookLane DEF IInv
<1>9. WholeInv'
  BY <1>3, TookWhole DEF IInv
<1>10. MarkInv'
  BY OpsAre, <1>1, <1>2, <1>3, <1>4, <1>5, <1>6 DEF IInv, MarkInv, TookQ
<1>11. FollowInv'
  BY OpsAre, <1>1, <1>2, <1>3, <1>4, <1>5, <1>6 DEF IInv, FollowInv, TookQ, TypeOK
<1>12. VolInv'
  BY OpsAre, <1>1, <1>2, <1>3, <1>4, <1>5, <1>6 DEF IInv, VolInv, TookQ, TypeOK
<1>13. ClockInv'
  BY OpsAre, <1>1, <1>2, <1>3, <1>4, <1>5, <1>6 DEF IInv, ClockInv, TookQ
<1>14. QuietStandby'
  BY <1>1, <1>2, <1>3, <1>4, <1>5, <1>6 DEF IInv, QuietStandby
<1>15. StartInv' /\ PutInv' /\ RunInv'
  BY <1>1, <1>2, <1>3, <1>4, <1>5, <1>6 DEF IInv, StartInv, Asleep, PutInv, RunInv, Stream,
     Asleep, TookQ
<1> QED
  BY <1>3, <1>7, <1>8, <1>9, <1>10, <1>11, <1>12, <1>13, <1>14, <1>15 DEF IInv

\* An amp marked suspended.
LEMMA SuspendAmpKeeps ==
  ASSUME IInv, MarkAmp("pm"), At("pm", "suspend")
  PROVE  IInv'
<1>1. /\ At("pm", "suspend") /\ Rest("pm")
      /\ ampSusp' = [ampSusp EXCEPT ![Arg("pm")] = TRUE]
  BY DEF MarkAmp, At
<1>2. "pm" \in Lanes
  BY DEF Lanes
<1>3. ProgInv' /\ TookQ("suspend", Arg("pm")) /\ "suspend" \in Ops
  BY <1>1, <1>2, TakeStep DEF IInv
<1>4. pm = "quiesce"
  BY <1>3 DEF IInv, LaneInv, PmOps, TookQ
<1>5. Arg("pm") \in Amps
  BY <1>1, <1>2, ArgKind DEF IInv, AmpOps
<1>6. UNCHANGED <<hp, open, started, spkVol, vol, clkOn, bitClk, powered, enabled, level,
                  ampOn, ampVol, l83Susp, on, taken, holder, put, pm, kind, errors>>
  BY DEF MarkAmp, KeepAmp, amps, ctl, l83, user
<1>7. TypeOK'
  BY <1>1, <1>2, <1>3, <1>4, <1>5, <1>6 DEF IInv, TypeOK
<1>8. LaneInv'
  BY <1>3, <1>6, TookLane DEF IInv
<1>9. WholeInv'
  BY <1>3, TookWhole DEF IInv
<1>10. MarkInv'
  BY OpsAre, <1>1, <1>2, <1>3, <1>4, <1>5, <1>6 DEF IInv, MarkInv, TookQ, TypeOK
<1>11. FollowInv'
  BY OpsAre, <1>1, <1>2, <1>3, <1>4, <1>5, <1>6 DEF IInv, FollowInv, TookQ
<1>12. ClockInv'
  BY OpsAre, <1>1, <1>2, <1>3, <1>4, <1>5, <1>6 DEF IInv, ClockInv, TookQ
<1>13. StartInv' /\ PutInv' /\ VolInv' /\ RunInv' /\ QuietStandby'
  BY <1>1, <1>2, <1>3, <1>4, <1>5, <1>6 DEF IInv, StartInv, Asleep, PutInv, VolInv, RunInv,
     Stream, Asleep, QuietStandby, TookQ
<1> QED
  BY <1>3, <1>7, <1>8, <1>9, <1>10, <1>11, <1>12, <1>13 DEF IInv

\* An amp allowed again.
LEMMA AllowAmpKeeps ==
  ASSUME IInv, MarkAmp("pm"), At("pm", "allow")
  PROVE  IInv'
<1>1. /\ At("pm", "allow") /\ Rest("pm")
      /\ ampSusp' = [ampSusp EXCEPT ![Arg("pm")] = FALSE]
  BY DEF MarkAmp, At
<1>2. "pm" \in Lanes
  BY DEF Lanes
<1>3. ProgInv' /\ TookQ("allow", Arg("pm")) /\ "allow" \in Ops
  BY <1>1, <1>2, TakeStep DEF IInv
<1>4. pm = "wake"
  BY <1>3 DEF IInv, LaneInv, PmOps, SuspendEnd, TookQ
<1>5. Arg("pm") \in Amps
  BY <1>1, <1>2, ArgKind DEF IInv, AmpOps
<1>6. UNCHANGED <<hp, open, started, spkVol, vol, clkOn, bitClk, powered, enabled, level,
                  ampOn, ampVol, l83Susp, on, taken, holder, put, pm, kind, errors>>
  BY DEF MarkAmp, KeepAmp, amps, ctl, l83, user
<1>7. TypeOK'
  BY <1>1, <1>2, <1>3, <1>4, <1>5, <1>6 DEF IInv, TypeOK
<1>8. LaneInv'
  BY <1>3, <1>6, TookLane DEF IInv
<1>9. WholeInv'
  BY <1>3, TookWhole DEF IInv
<1>10. MarkInv'
  BY OpsAre, <1>1, <1>2, <1>3, <1>4, <1>5, <1>6 DEF IInv, MarkInv, TookQ, TypeOK
<1>11. FollowInv'
  BY OpsAre, <1>1, <1>2, <1>3, <1>4, <1>5, <1>6 DEF IInv, FollowInv, TookQ
<1>12. ClockInv'
  BY OpsAre, <1>1, <1>2, <1>3, <1>4, <1>5, <1>6 DEF IInv, ClockInv, TookQ
<1>13. StartInv' /\ PutInv' /\ VolInv' /\ RunInv' /\ QuietStandby'
  BY <1>1, <1>2, <1>3, <1>4, <1>5, <1>6 DEF IInv, StartInv, Asleep, PutInv, VolInv, RunInv,
     Stream, Asleep, QuietStandby, TookQ
<1> QED
  BY <1>3, <1>7, <1>8, <1>9, <1>10, <1>11, <1>12, <1>13 DEF IInv

\* An amp out of its table.
LEMMA InitAmpKeeps ==
  ASSUME IInv, InitAmp("pm")
  PROVE  IInv'
<1>1. /\ At("pm", "init") /\ Rest("pm")
      /\ ampSusp' = [ampSusp EXCEPT ![Arg("pm")] = FALSE]
      /\ ampOn' = [ampOn EXCEPT ![Arg("pm")] = FALSE]
      /\ ampVol' = [ampVol EXCEPT ![Arg("pm")] = MaxVol]
  BY DEF InitAmp, At
<1>2. "pm" \in Lanes
  BY DEF Lanes
<1>3. ProgInv' /\ TookQ("init", Arg("pm")) /\ "init" \in Ops
  BY <1>1, <1>2, TakeStep DEF IInv
<1>4. pm = "wake" /\ ~started["playback"]
  BY <1>3 DEF IInv, LaneInv, PmOps, SuspendEnd, TookQ, StartInv, Asleep, Dirs
<1>5. Arg("pm") \in Amps
  BY <1>1, <1>2, ArgKind DEF IInv, AmpOps
<1>6. UNCHANGED <<hp, open, started, spkVol, vol, clkOn, bitClk, powered, enabled, level,
                  l83Susp, on, taken, holder, put, pm, kind, errors>>
  BY DEF InitAmp, KeepAmp, amps, ctl, l83, user
<1>7. TypeOK'
  BY StreamAssumption, <1>1, <1>2, <1>3, <1>4, <1>5, <1>6 DEF IInv, TypeOK
<1>8. LaneInv'
  BY <1>3, <1>6, TookLane DEF IInv
<1>9. WholeInv'
  BY <1>3, TookWhole DEF IInv
<1>10. MarkInv'
  BY OpsAre, <1>1, <1>2, <1>3, <1>4, <1>5, <1>6 DEF IInv, MarkInv, TookQ, TypeOK
<1>11. FollowInv'
  BY OpsAre, <1>1, <1>2, <1>3, <1>4, <1>5, <1>6 DEF IInv, FollowInv, TookQ, TypeOK
<1>12. VolInv'
  BY OpsAre, <1>1, <1>2, <1>3, <1>4, <1>5, <1>6 DEF IInv, VolInv, TookQ, TypeOK
<1>13. ClockInv'
  BY OpsAre, <1>1, <1>2, <1>3, <1>4, <1>5, <1>6 DEF IInv, ClockInv, TookQ
<1>14. QuietStandby'
  BY <1>1, <1>2, <1>3, <1>4, <1>5, <1>6 DEF IInv, QuietStandby
<1>15. StartInv' /\ PutInv' /\ RunInv'
  BY <1>1, <1>2, <1>3, <1>4, <1>5, <1>6 DEF IInv, StartInv, Asleep, PutInv, RunInv, Stream,
     Asleep, TookQ
<1> QED
  BY <1>3, <1>7, <1>8, <1>9, <1>10, <1>11, <1>12, <1>13, <1>14, <1>15 DEF IInv

\* The oscillator for a suspend.
LEMMA StopForSuspendKeeps ==
  ASSUME IInv, StopForSuspend
  PROVE  IInv'
<1>1. /\ At("pm", "clkstop") /\ Rest("pm")
      /\ ClockStop
  BY DEF StopForSuspend, At
<1>2. "pm" \in Lanes
  BY DEF Lanes
<1>3. ProgInv' /\ TookQ("clkstop", Arg("pm")) /\ "clkstop" \in Ops
  BY <1>1, <1>2, TakeStep DEF IInv
<1>4. pm = "quiesce"
  BY <1>3 DEF IInv, LaneInv, PmOps, TookQ
<1>5. Q'["clkstop"] = {}
  BY <1>3, Typed DEF IInv, DueTyped, OtherOps, TookQ
<1>6. UNCHANGED <<hp, open, started, spkVol, vol, powered, enabled, level, ampOn, ampVol,
                  l83Susp, ampSusp, on, taken, holder, put, pm, kind, errors>>
  BY DEF StopForSuspend, KeepStream, amps, ctl, l83, user, work
<1>7. TypeOK'
  BY <1>1, <1>2, <1>3, <1>4, <1>5, <1>6 DEF IInv, TypeOK, ClockStop
<1>8. LaneInv'
  BY <1>3, <1>6, TookLane DEF IInv
<1>9. WholeInv'
  BY <1>3, TookWhole DEF IInv
<1>10. MarkInv'
  BY OpsAre, <1>1, <1>2, <1>3, <1>4, <1>5, <1>6 DEF IInv, MarkInv, TookQ
<1>11. FollowInv'
  BY OpsAre, <1>1, <1>2, <1>3, <1>4, <1>5, <1>6 DEF IInv, FollowInv, TookQ
<1>12. ClockInv'
  BY OpsAre, <1>1, <1>2, <1>3, <1>4, <1>5, <1>6 DEF IInv, ClockInv, TookQ, ClockStop
<1>13. RunInv'
  BY OpsAre, <1>1, <1>2, <1>3, <1>4, <1>5, <1>6 DEF IInv, RunInv, Stream, Asleep, ClockStop
<1>14. QuietStandby'
  BY <1>1, <1>2, <1>3, <1>4, <1>5, <1>6 DEF IInv, QuietStandby
<1>15. StartInv' /\ PutInv' /\ VolInv'
  BY <1>1, <1>2, <1>3, <1>4, <1>5, <1>6 DEF IInv, StartInv, Asleep, PutInv, VolInv, TookQ
<1> QED
  BY <1>3, <1>7, <1>8, <1>9, <1>10, <1>11, <1>12, <1>13, <1>14, <1>15 DEF IInv

\* The chip into standby.
LEMMA StandbyKeeps ==
  ASSUME IInv, Standby
  PROVE  IInv'
<1>1. /\ At("pm", "standby") /\ Rest("pm")
      /\ level' = [level EXCEPT !["playback"] = Muted]
      /\ enabled' = [enabled EXCEPT !["playback"] = FALSE]
      /\ bitClk' = FALSE
      /\ powered' = [d \in Dirs |-> FALSE]
      /\ l83Susp' = TRUE /\ pm' = "down"
  BY DEF Standby, At
<1>2. "pm" \in Lanes
  BY DEF Lanes
<1>3. ProgInv' /\ TookQ("standby", Arg("pm")) /\ "standby" \in Ops
  BY <1>1, <1>2, TakeStep DEF IInv
<1>4. pm = "quiesce" /\ kind = "runtime"
  BY <1>3 DEF IInv, LaneInv, PmOps, SuspendEnd, TookQ
<1>5. Q'["standby"] = {}
  BY <1>3, Typed DEF IInv, DueTyped, OtherOps, TookQ
<1>6. /\ Q["clkstop"] = {}
      /\ \A op \in Ops : Q'[op] = {}
  <2>1. /\ Q["clkstop"] = {} /\ Q["amp"] = {} /\ Q["suspend"] = {}
    BY <1>3, RankTable, OpsAre DEF TookQ, First
  <2>2. \A op \in Ops : Q'[op] # {} => op \in {"amp", "suspend", "clkstop", "standby"}
    BY <1>3, <1>4 DEF IInv, LaneInv, PmOps, SuspendEnd, TookQ
  <2> QED
    BY <1>3, <1>5, <2>1, <2>2 DEF TookQ
<1>7. UNCHANGED <<hp, open, started, spkVol, vol, clkOn, ampOn, ampVol, ampSusp, on,
                  taken, holder, put, kind, errors>>
  BY DEF Standby, KeepStream, amps, ctl, l83, user, work
<1>8. TypeOK'
  BY <1>1, <1>2, <1>3, <1>4, <1>5, <1>6, <1>7 DEF IInv, TypeOK
<1>9. LaneInv'
  BY <1>6, <1>3, <1>4, <1>1, <1>7 DEF IInv, LaneInv, LockOps, PmOps, TookQ
<1>10. WholeInv'
  BY <1>3, TookWhole DEF IInv
<1>11. StartInv'
  BY <1>1, <1>2, <1>3, <1>4, <1>5, <1>6, <1>7 DEF IInv, StartInv, Asleep, TookQ
<1>12. PutInv'
  BY <1>1, <1>2, <1>3, <1>4, <1>5, <1>6, <1>7 DEF IInv, PutInv
<1>13. MarkInv'
  BY OpsAre, <1>1, <1>2, <1>3, <1>4, <1>5, <1>6, <1>7 DEF IInv, MarkInv, TookQ
<1>14. FollowInv'
  BY OpsAre, <1>1, <1>2, <1>3, <1>4, <1>5, <1>6, <1>7 DEF IInv, FollowInv, TookQ
<1>15. VolInv'
  BY <1>1, <1>2, <1>3, <1>4, <1>5, <1>6, <1>7 DEF IInv, VolInv, TookQ
<1>16. ClockInv'
  BY OpsAre, <1>1, <1>2, <1>3, <1>4, <1>5, <1>6, <1>7 DEF IInv, ClockInv, TypeOK
<1>17. RunInv'
  BY <1>1, <1>2, <1>3, <1>4, <1>5, <1>6, <1>7 DEF IInv, RunInv, Stream, Asleep, TypeOK
<1>18. QuietStandby'
  BY <1>1, <1>2, <1>3, <1>4, <1>5, <1>6, <1>7 DEF IInv, QuietStandby, TypeOK, FollowInv, Dirs
<1> QED
  BY <1>3, <1>8, <1>9, <1>10, <1>11, <1>12, <1>13, <1>14, <1>15, <1>16, <1>17, <1>18 DEF IInv

\* The chip into reset.
LEMMA ShutDownKeeps ==
  ASSUME IInv, ShutDown
  PROVE  IInv'
<1>1. /\ At("pm", "down") /\ Rest("pm")
      /\ Free
      /\ started' = [d \in Dirs |-> FALSE] /\ hp' = FALSE
      /\ InReset
      /\ l83Susp' = TRUE /\ pm' = "down"
  BY DEF ShutDown, At
<1>2. "pm" \in Lanes
  BY DEF Lanes
<1>3. ProgInv' /\ TookQ("down", Arg("pm")) /\ "down" \in Ops
  BY <1>1, <1>2, TakeStep DEF IInv
<1>4. pm = "quiesce" /\ kind # "runtime"
  BY <1>3 DEF IInv, LaneInv, PmOps, SuspendEnd, TookQ
<1>5. Q'["down"] = {}
  BY <1>3, Typed DEF IInv, DueTyped, OtherOps, TookQ
<1>6. /\ Q["clkstop"] = {}
      /\ \A op \in Ops : Q'[op] = {}
      /\ \A op \in Ops : L[op] = {}
  <2>1. /\ Q["clkstop"] = {} /\ Q["amp"] = {} /\ Q["suspend"] = {}
    BY <1>3, RankTable, OpsAre DEF TookQ, First
  <2>2. \A op \in Ops : Q'[op] # {} => op \in {"amp", "suspend", "clkstop", "down"}
    BY <1>3, <1>4 DEF IInv, LaneInv, PmOps, SuspendEnd, TookQ
  <2>3. \A op \in Ops : L[op] = {}
    BY <1>1, FreeEmpty
  <2> QED
    BY <1>3, <1>5, <2>1, <2>2, <2>3 DEF TookQ
<1>7. UNCHANGED <<open, spkVol, vol, clkOn, ampOn, ampVol, ampSusp, on, taken, holder,
                  put, kind, errors>>
  BY DEF ShutDown, KeepStream, amps, ctl, l83, user, work
<1>8. TypeOK'
  BY <1>1, <1>2, <1>3, <1>4, <1>5, <1>6, <1>7 DEF IInv, TypeOK, InReset
<1>9. LaneInv'
  BY <1>6, <1>3, <1>4, <1>1, <1>7 DEF IInv, LaneInv, LockOps, PmOps, TookQ
<1>10. WholeInv'
  BY <1>3, TookWhole DEF IInv
<1>11. StartInv'
  BY OpsAre, <1>1, <1>2, <1>3, <1>4, <1>5, <1>6, <1>7 DEF IInv, StartInv, Asleep, TookQ, Dirs
<1>12. PutInv'
  BY <1>1, <1>2, <1>3, <1>4, <1>5, <1>6, <1>7 DEF IInv, PutInv
<1>13. MarkInv'
  BY OpsAre, <1>1, <1>2, <1>3, <1>4, <1>5, <1>6, <1>7 DEF IInv, MarkInv, TookQ
<1>14. FollowInv'
  BY OpsAre, <1>1, <1>2, <1>3, <1>4, <1>5, <1>6, <1>7 DEF IInv, FollowInv, TookQ
<1>15. VolInv'
  BY <1>1, <1>2, <1>3, <1>4, <1>5, <1>6, <1>7 DEF IInv, VolInv, TookQ, Dirs
<1>16. ClockInv'
  BY OpsAre, <1>1, <1>2, <1>3, <1>4, <1>5, <1>6, <1>7 DEF IInv, ClockInv, InReset, TypeOK
<1>17. RunInv'
  BY <1>1, <1>2, <1>3, <1>4, <1>5, <1>6, <1>7 DEF IInv, RunInv, Stream, Asleep, InReset
<1>18. QuietStandby'
  BY <1>1, <1>2, <1>3, <1>4, <1>5, <1>6, <1>7 DEF IInv, QuietStandby
<1> QED
  BY <1>3, <1>8, <1>9, <1>10, <1>11, <1>12, <1>13, <1>14, <1>15, <1>16, <1>17, <1>18 DEF IInv

\* A runtime resume begins.
LEMMA LightResumeKeeps ==
  ASSUME IInv, LightResume
  PROVE  IInv'
<1>1. /\ pm = "down" /\ kind = "runtime" /\ pm' = "wake"
      /\ prog' = [prog EXCEPT !["pm"] = LightSteps]
  BY DEF LightResume
<1>2. ProgInv' /\ Q' = Due(LightSet) /\ L' = L
  BY <1>1, LightSpan, FillPm DEF IInv
<1>3. /\ \A op \in Ops : Q'[op] # {} => op \in {"exit", "allow", "look"}
      /\ Q'["exit"] = {""} /\ Q'["allow"] = Amps
  BY <1>2, LightDue, OpsAre
<1>4. UNCHANGED <<hp, open, started, spkVol, vol, clkOn, bitClk, powered, enabled, level,
                  ampOn, ampVol, l83Susp, ampSusp, on, taken, holder, put, kind, errors>>
  BY DEF LightResume, KeepStream, amps, ctl, l83, user, work
<1>5. TypeOK'
  BY <1>1, <1>2, <1>3, <1>4 DEF IInv, TypeOK
<1>6. LaneInv'
  BY <1>1, <1>2, <1>3, <1>4 DEF IInv, LaneInv, LockOps, PmOps
<1>7. WholeInv'
  BY <1>2 DEF IInv, WholeInv
<1>8. StartInv'
  BY <1>1, <1>2, <1>3, <1>4 DEF IInv, StartInv, Asleep
<1>9. PutInv'
  BY <1>1, <1>2, <1>3, <1>4 DEF IInv, PutInv
<1>10. MarkInv'
  BY <1>1, <1>2, <1>3, <1>4 DEF IInv, MarkInv
<1>11. FollowInv'
  BY <1>1, <1>2, <1>4 DEF IInv, FollowInv
<1>12. VolInv'
  BY <1>2, <1>4 DEF IInv, VolInv
<1>13. ClockInv'
  BY <1>1, <1>2, <1>3, <1>4 DEF IInv, ClockInv
<1>14. RunInv'
  BY <1>1, <1>2, <1>4 DEF IInv, RunInv, Asleep
<1>15. QuietStandby'
  BY <1>1, <1>2, <1>3, <1>4 DEF IInv, QuietStandby
<1> QED
  BY <1>2, <1>5, <1>6, <1>7, <1>8, <1>9, <1>10, <1>11, <1>12, <1>13, <1>14, <1>15 DEF IInv

\* A full resume, or the first init, begins.
LEMMA FullResumeKeeps ==
  ASSUME IInv, FullResume
  PROVE  IInv'
<1>1. /\ pm = "down" /\ Free /\ pm' = "wake"
      /\ prog' = [prog EXCEPT !["pm"] = FullSteps]
      /\ hp' = FALSE /\ clkOn' = FALSE /\ InReset
  BY DEF FullResume
<1>2. ProgInv' /\ Q' = Due(FullSet) /\ L' = L
  BY <1>1, FullSpan, FillPm DEF IInv
<1>3. /\ \A op \in Ops : Q'[op] # {} => op \in {"init", "bring"}
      /\ Q'["bring"] = {""} /\ Q'["init"] = Amps
  BY <1>2, FullDue, OpsAre
<1>4. \A op \in Ops : L[op] = {}
  BY <1>1, FreeEmpty
<1>5. UNCHANGED <<open, started, spkVol, vol, ampOn, ampVol, l83Susp, ampSusp, on, taken,
                  holder, put, kind, errors>>
  BY DEF FullResume, KeepStream, amps, ctl, l83, user, work
<1>6. TypeOK'
  BY <1>1, <1>2, <1>3, <1>4, <1>5 DEF IInv, TypeOK, InReset
<1>7. LaneInv'
  BY <1>1, <1>2, <1>3, <1>4, <1>5 DEF IInv, LaneInv, LockOps, PmOps
<1>8. WholeInv'
  BY <1>2 DEF IInv, WholeInv
<1>9. StartInv'
  BY <1>1, <1>2, <1>3, <1>4, <1>5 DEF IInv, StartInv, Asleep
<1>10. PutInv'
  BY <1>1, <1>2, <1>3, <1>4, <1>5 DEF IInv, PutInv
<1>11. MarkInv'
  BY <1>1, <1>2, <1>3, <1>4, <1>5 DEF IInv, MarkInv
<1>12. FollowInv'
  BY OpsAre, <1>1, <1>2, <1>3, <1>4, <1>5 DEF IInv, FollowInv
<1>13. ClockInv'
  BY <1>1, <1>2, <1>3, <1>4, <1>5 DEF IInv, ClockInv, InReset
<1>14. RunInv'
  BY <1>1, <1>2, <1>3, <1>4, <1>5 DEF IInv, RunInv, Stream, Asleep, InReset
<1>15. QuietStandby'
  BY <1>1, <1>2, <1>3, <1>4, <1>5 DEF IInv, QuietStandby
<1>16. VolInv'
  BY <1>1, <1>2, <1>3, <1>4, <1>5 DEF IInv, VolInv
<1> QED
  BY <1>2, <1>6, <1>7, <1>8, <1>9, <1>10, <1>11, <1>12, <1>13, <1>14, <1>15, <1>16 DEF IInv

\* The chip marked as up.
LEMMA BringKeeps ==
  ASSUME IInv, Bring
  PROVE  IInv'
<1>1. PICK op \in {"bring", "exit"} : At("pm", op)
  BY DEF Bring
<1>2. Rest("pm") /\ l83Susp' = FALSE /\ clkOn' = (clkOn /\ At("pm", "bring"))
  BY DEF Bring
<1>3. "pm" \in Lanes
  BY DEF Lanes
<1>4. ProgInv' /\ TookQ(op, Arg("pm")) /\ op \in Ops
  BY <1>1, <1>2, <1>3, TakeStep DEF IInv
<1>5. pm = "wake"
  BY <1>4 DEF IInv, LaneInv, PmOps, SuspendEnd, TookQ
<1>6. clkOn = FALSE
  BY <1>5 DEF IInv, ClockInv, TypeOK
<1>7. UNCHANGED <<hp, open, started, spkVol, vol, bitClk, powered, enabled, level, ampOn,
                  ampVol, ampSusp, on, taken, holder, put, pm, kind, errors>>
  BY DEF Bring, KeepStream, amps, ctl, l83, user, work
<1>8. TypeOK'
  BY <1>1, <1>2, <1>3, <1>4, <1>5, <1>6, <1>7 DEF IInv, TypeOK
<1>9. LaneInv'
  BY <1>4, <1>7, TookLane DEF IInv
<1>10. WholeInv'
  BY <1>4, TookWhole DEF IInv
<1>11. MarkInv'
  BY OpsAre, <1>1, <1>2, <1>3, <1>4, <1>5, <1>6, <1>7 DEF IInv, MarkInv, TookQ
<1>12. FollowInv'
  BY OpsAre, <1>1, <1>2, <1>3, <1>4, <1>5, <1>6, <1>7 DEF IInv, FollowInv, TookQ
<1>13. ClockInv'
  BY <1>1, <1>2, <1>3, <1>4, <1>5, <1>6, <1>7 DEF IInv, ClockInv, TypeOK
<1>14. StartInv' /\ PutInv' /\ VolInv' /\ RunInv' /\ QuietStandby'
  BY <1>1, <1>2, <1>3, <1>4, <1>5, <1>6, <1>7 DEF IInv, StartInv, Asleep, PutInv, VolInv,
     RunInv, Stream, Asleep, QuietStandby, TookQ
<1> QED
  BY <1>4, <1>8, <1>9, <1>10, <1>11, <1>12, <1>13, <1>14 DEF IInv

\* The look at the jack.
LEMMA LookKeeps ==
  ASSUME IInv, Look
  PROVE  IInv'
<1>1. /\ At("pm", "look")
      /\ \/ hp' = FALSE /\ prog' = [prog EXCEPT !["pm"] = Speakers]
         \/ UNCHANGED hp /\ Rest("pm")
  BY DEF Look
<1>2. "pm" \in Lanes
  BY DEF Lanes
<1>3. pm = "wake"
  BY <1>1, <1>2, AtDue DEF IInv, LaneInv, PmOps, SuspendEnd
<1>4. First(Q, "look")
  BY <1>1, <1>2, AtFirst DEF IInv
<1>5. /\ Q["exit"] = {} /\ Q["bring"] = {}
      /\ Q["allow"] = {} /\ Q["init"] = {}
  BY <1>4, RankTable, OpsAre DEF First
<1>6. /\ ProgInv' /\ L' = L
      /\ \A op \in Ops : Q'[op] # {} => Q[op] # {} \/ op \in {"follow", "amp"}
  <2>1. CASE prog' = [prog EXCEPT !["pm"] = Speakers]
    <3>1. ProgInv' /\ L' = L /\ Q' = Due(SpeakerSet)
      BY <2>1, SpeakersSpan, FillPm DEF IInv
    <3> QED
      BY <3>1, SpeakerDue
  <2>2. CASE Rest("pm")
    BY <1>1, <1>2, <2>2, TakeStep DEF IInv, TookQ
  <2> QED
    BY <1>1, <2>1, <2>2
<1>7. UNCHANGED <<open, started, spkVol, vol, clkOn, bitClk, powered, enabled, level,
                  ampOn, ampVol, l83Susp, ampSusp, on, taken, holder, put, pm, kind, errors>>
  BY DEF Look, KeepStream, amps, ctl, l83, user, work
<1>8. TypeOK'
  BY <1>1, <1>2, <1>3, <1>4, <1>5, <1>6, <1>7 DEF IInv, TypeOK
<1>9. LaneInv'
  BY <1>1, <1>2, <1>3, <1>4, <1>5, <1>6, <1>7 DEF IInv, LaneInv, LockOps, PmOps, SuspendEnd
<1>10. WholeInv'
  BY <1>6 DEF IInv, WholeInv
<1>11. MarkInv'
  BY OpsAre, <1>1, <1>2, <1>3, <1>4, <1>5, <1>6, <1>7 DEF IInv, MarkInv
<1>12. FollowInv'
  BY OpsAre, <1>1, <1>2, <1>3, <1>4, <1>5, <1>6, <1>7 DEF IInv, FollowInv
<1>13. ClockInv'
  BY <1>1, <1>2, <1>3, <1>4, <1>5, <1>6, <1>7 DEF IInv, ClockInv
<1>14. StartInv' /\ PutInv' /\ VolInv' /\ RunInv' /\ QuietStandby'
  BY <1>1, <1>2, <1>3, <1>4, <1>5, <1>6, <1>7 DEF IInv, StartInv, Asleep, PutInv, VolInv,
     RunInv, Stream, Asleep, QuietStandby
<1> QED
  BY <1>6, <1>8, <1>9, <1>10, <1>11, <1>12, <1>13, <1>14 DEF IInv

\* The resume ends.
LEMMA UpKeeps ==
  ASSUME IInv, Up
  PROVE  IInv'
<1>1. pm = "wake" /\ prog["pm"] = <<>> /\ pm' = "up"
  BY DEF Up
<1>2. ProgInv' /\ L' = L /\ Q' = Q
  BY KeepProg DEF IInv, Up
<1>3. \A op \in Ops : Q[op] = {}
  BY <1>1, FreeEmpty
<1>4. /\ started["playback"] = FALSE /\ bitClk = FALSE
      /\ \A d \in Dirs : started[d] = FALSE
  BY <1>1 DEF IInv, StartInv, ClockInv, Asleep, TypeOK, Dirs
<1>5. /\ L["start"] = {} /\ L["stop"] = {} /\ L["unpower"] = {} /\ L["disable"] = {}
  BY <1>1, OpsAre DEF IInv, LaneInv, LockOps
<1>6. UNCHANGED <<hp, open, started, spkVol, vol, clkOn, bitClk, powered, enabled, level,
                  ampOn, ampVol, l83Susp, ampSusp, on, taken, holder, put, kind, errors>>
  BY DEF Up, KeepStream, amps, ctl, l83, user, work
<1>7. TypeOK'
  BY <1>1, <1>2, <1>3, <1>4, <1>5, <1>6 DEF IInv, TypeOK
<1>8. LaneInv'
  BY <1>1, <1>2, <1>3, <1>4, <1>5, <1>6 DEF IInv, LaneInv, LockOps, PmOps, HookOps
<1>9. StartInv'
  BY <1>1, <1>2, <1>3, <1>4, <1>5, <1>6 DEF IInv, StartInv, Asleep
<1>10. PutInv'
  BY <1>1, <1>2, <1>3, <1>4, <1>5, <1>6 DEF IInv, PutInv
<1>11. MarkInv'
  BY OpsAre, <1>1, <1>2, <1>3, <1>4, <1>5, <1>6 DEF IInv, MarkInv
<1>12. FollowInv'
  <2>1. ASSUME NEW i \in Amps
        PROVE  ampOn[i] = FALSE /\ (L["follow"] = {} /\ i \in L["amp"] => on["lock"] = FALSE)
    <3>1. ampOn[i] \in BOOLEAN /\ on["lock"] \in BOOLEAN /\ started["playback"] = FALSE
      BY <1>4 DEF IInv, TypeOK, Lanes
    <3>2. ~ampOn[i]
      BY <1>1, <1>3, OpsAre DEF IInv, FollowInv
    <3>3. L["follow"] = {} /\ i \in L["amp"] => ~on["lock"]
      BY <1>4 DEF IInv, FollowInv
    <3> QED
      BY <3>1, <3>2, <3>3
  <2> QED
    BY <1>1, <1>2, <1>4, <1>6, <2>1 DEF IInv, FollowInv
<1>13. ClockInv'
  BY <1>1, <1>2, <1>3, <1>4, <1>5, <1>6 DEF IInv, ClockInv
<1>14. RunInv'
  BY <1>1, <1>2, <1>3, <1>4, <1>5, <1>6 DEF IInv, RunInv, Stream, Asleep, TypeOK
<1>15. QuietStandby'
  BY <1>1, <1>2, <1>3, <1>4, <1>5, <1>6 DEF IInv, QuietStandby
<1>16. WholeInv' /\ VolInv'
  BY <1>1, <1>2, <1>3, <1>4, <1>5, <1>6 DEF IInv, WholeInv, VolInv
<1> QED
  BY <1>2, <1>7, <1>8, <1>9, <1>10, <1>11, <1>12, <1>13, <1>14, <1>15, <1>16 DEF IInv

\* A prepare begins.
LEMMA PrepareKeeps ==
  ASSUME IInv, NEW d \in Dirs, Prepare(d)
  PROVE  IInv'
<1>1. /\ pm = "up" /\ Free /\ holder' = "user"
      /\ prog' = [prog EXCEPT !["lock"] = PrepareHook(d)]
      /\ open' = [open EXCEPT ![d] = TRUE]
  BY DEF Prepare, Hold
<1>2. ProgInv' /\ L' = Due(PrepareSet(d)) /\ Q' = Q
  BY <1>1, PrepareSpan, FillLock DEF IInv
<1>3. \A op \in Ops : L[op] = {}
  BY <1>1, FreeEmpty
<1>4. \A op \in Ops : L'[op] # {} => op \in HookOps
  BY <1>2, PrepareDue DEF HookOps, StreamOps
<1>5. /\ L'["power"] = {d} /\ L'["clock"] = {d} /\ L'["enable"] = {d} /\ L'["start"] = {d}
      /\ L'["stop"] = {} /\ L'["disable"] = {} /\ L'["unclock"] = {} /\ L'["unpower"] = {}
  BY <1>2, PrepareDue, OpsAre
<1>6. /\ d = "playback" => L'["volume"] = Amps /\ L'["follow"] = {""} /\ L'["amp"] = Amps
      /\ d # "playback" => L'["volume"] = {} /\ L'["follow"] = {} /\ L'["amp"] = {}
  BY <1>2, PrepareDue, OpsAre
<1>7. UNCHANGED <<hp, started, spkVol, vol, clkOn, bitClk, powered, enabled, level, ampOn,
                  ampVol, l83Susp, ampSusp, on, taken, put, pm, kind, errors>>
  BY DEF Prepare, Hold, amps, ctl, l83, user, work
<1>8. TypeOK'
  BY <1>1, <1>2, <1>3, <1>4, <1>5, <1>6, <1>7 DEF IInv, TypeOK
<1>9. LaneInv'
  BY <1>1, <1>2, <1>4, <1>7 DEF IInv, LaneInv, LockOps, PmOps
<1>10. WholeInv'
  BY <1>5, <1>6 DEF WholeInv
<1>11. StartInv'
  BY <1>1, <1>3, <1>5, <1>7, OpsAre DEF IInv, StartInv, Asleep, TypeOK
<1>12. FollowInv'
  BY <1>1, <1>3, <1>2, <1>6, <1>7, OpsAre DEF IInv, FollowInv
<1>13. VolInv'
  BY <1>1, <1>3, <1>6, <1>7, OpsAre DEF IInv, VolInv
<1>14. RunInv'
  BY <1>1, <1>3, <1>5, <1>7, OpsAre DEF IInv, RunInv, Stream, Asleep
<1>15. PutInv' /\ MarkInv' /\ ClockInv' /\ QuietStandby'
  BY <1>1, <1>2, <1>3, <1>4, <1>5, <1>6, <1>7 DEF IInv, PutInv, MarkInv, ClockInv,
     QuietStandby
<1> QED
  BY <1>2, <1>8, <1>9, <1>10, <1>11, <1>12, <1>13, <1>14, <1>15 DEF IInv

\* A cleanup begins.
LEMMA CleanupKeeps ==
  ASSUME IInv, NEW d \in Dirs, Cleanup(d)
  PROVE  IInv'
<1>1. /\ pm = "up" /\ Free /\ holder' = "user"
      /\ prog' = [prog EXCEPT !["lock"] = CleanupHook(d)]
      /\ open' = [open EXCEPT ![d] = FALSE]
  BY DEF Cleanup, Hold
<1>2. ProgInv' /\ L' = Due(CleanupSet(d)) /\ Q' = Q
  BY <1>1, CleanupSpan, FillLock DEF IInv
<1>3. \A op \in Ops : L[op] = {}
  BY <1>1, FreeEmpty
<1>4. \A op \in Ops : L'[op] # {} => op \in HookOps
  BY <1>2, CleanupDue DEF HookOps, StreamOps
<1>5. /\ L'["power"] = {} /\ L'["clock"] = {} /\ L'["enable"] = {} /\ L'["start"] = {}
      /\ L'["stop"] = {d} /\ L'["disable"] = {d} /\ L'["unclock"] = {d} /\ L'["unpower"] = {d}
  BY <1>2, CleanupDue, OpsAre
<1>6. /\ L'["volume"] = {}
      /\ d = "playback" => L'["follow"] = {""} /\ L'["amp"] = Amps
      /\ d # "playback" => L'["follow"] = {} /\ L'["amp"] = {}
  BY <1>2, CleanupDue, OpsAre
<1>7. UNCHANGED <<hp, started, spkVol, vol, clkOn, bitClk, powered, enabled, level, ampOn,
                  ampVol, l83Susp, ampSusp, on, taken, put, pm, kind, errors>>
  BY DEF Cleanup, Hold, amps, ctl, l83, user, work
<1>8. TypeOK'
  BY <1>1, <1>2, <1>3, <1>4, <1>5, <1>6, <1>7 DEF IInv, TypeOK
<1>9. LaneInv'
  BY <1>1, <1>2, <1>4, <1>7 DEF IInv, LaneInv, LockOps, PmOps
<1>10. WholeInv'
  BY <1>5, <1>6 DEF WholeInv
<1>11. StartInv'
  BY <1>1, <1>3, <1>5, <1>7, OpsAre DEF IInv, StartInv, Asleep, TypeOK
<1>12. FollowInv'
  BY <1>1, <1>3, <1>2, <1>6, <1>7, OpsAre DEF IInv, FollowInv
<1>13. VolInv'
  BY <1>1, <1>3, <1>6, <1>7, OpsAre DEF IInv, VolInv
<1>14. RunInv'
  BY <1>1, <1>3, <1>5, <1>7, OpsAre DEF IInv, RunInv, Stream, Asleep
<1>15. PutInv' /\ MarkInv' /\ ClockInv' /\ QuietStandby'
  BY <1>1, <1>2, <1>3, <1>4, <1>5, <1>6, <1>7 DEF IInv, PutInv, MarkInv, ClockInv,
     QuietStandby
<1> QED
  BY <1>2, <1>8, <1>9, <1>10, <1>11, <1>12, <1>13, <1>14, <1>15 DEF IInv

\* The jack handler begins.
LEMMA JackEventKeeps ==
  ASSUME IInv, JackEvent
  PROVE  IInv'
<1>1. /\ ~l83Susp /\ (pm = "up" \/ kind = "forced") /\ Free /\ holder' = "jack"
      /\ prog' = [prog EXCEPT !["lock"] = Speakers] /\ hp' \in BOOLEAN
  BY DEF JackEvent, Hold
<1>2. ProgInv' /\ L' = Due(SpeakerSet) /\ Q' = Q
  BY <1>1, SpeakersSpan, FillLock DEF IInv
<1>3. \A op \in Ops : L[op] = {}
  BY <1>1, FreeEmpty
<1>4. pm # "down"
  BY <1>1 DEF IInv, MarkInv
<1>5. /\ \A op \in Ops : op \notin {"follow", "amp"} => L'[op] = {}
      /\ L'["follow"] = {""} /\ L'["amp"] = Amps
  BY <1>2, SpeakerDue, OpsAre
<1>6. UNCHANGED <<open, started, spkVol, vol, clkOn, bitClk, powered, enabled, level,
                  ampOn, ampVol, l83Susp, ampSusp, on, taken, put, pm, kind, errors>>
  BY DEF JackEvent, Hold, amps, ctl, l83, user, work
<1>7. TypeOK'
  BY <1>1, <1>2, <1>3, <1>4, <1>5, <1>6 DEF IInv, TypeOK
<1>8. LaneInv'
  BY <1>1, <1>2, <1>5, <1>4, <1>6 DEF IInv, LaneInv, LockOps, PmOps
<1>9. WholeInv'
  BY <1>5, OpsAre DEF WholeInv
<1>10. StartInv'
  BY <1>3, <1>5, <1>6, OpsAre DEF IInv, StartInv, Asleep
<1>11. FollowInv'
  BY <1>5, <1>2, <1>6 DEF IInv, FollowInv
<1>12. VolInv'
  BY <1>3, <1>6, OpsAre DEF IInv, VolInv
<1>13. RunInv'
  BY <1>3, <1>5, <1>6, OpsAre DEF IInv, RunInv, Stream, Asleep
<1>14. PutInv' /\ MarkInv' /\ ClockInv' /\ QuietStandby'
  BY <1>1, <1>2, <1>3, <1>4, <1>5, <1>6 DEF IInv, PutInv, MarkInv, ClockInv, QuietStandby
<1> QED
  BY <1>2, <1>7, <1>8, <1>9, <1>10, <1>11, <1>12, <1>13, <1>14 DEF IInv

\* The speaker volume set.
LEMMA SpeakerPutKeeps ==
  ASSUME IInv, NEW v \in [{0, 1} -> Vols], SpeakerPut(v)
  PROVE  IInv'
<1>1. /\ Awake /\ Free /\ holder' = "user" /\ spkVol' = v
      /\ prog' = [prog EXCEPT !["lock"] =
                    IF started["playback"] THEN AmpLoop("volume") ELSE <<>>]
  BY DEF SpeakerPut, Hold
<1>2. /\ ProgInv' /\ Q' = Q
      /\ L' = Due(IF started["playback"] THEN Loop("volume") ELSE {})
  <2>1. Span(IF started["playback"] THEN AmpLoop("volume") ELSE <<>>,
             IF started["playback"] THEN Loop("volume") ELSE {}, 7, 7)
    BY VolumeSpan, IfSpan, Zenon
  <2> DEFINE s == IF started["playback"] THEN AmpLoop("volume") ELSE <<>>
             S == IF started["playback"] THEN Loop("volume") ELSE {}
  <2> HIDE DEF s, S
  <2>2. prog' = [prog EXCEPT !["lock"] = s] /\ Span(s, S, 7, 7)
    BY <1>1, <2>1 DEF s, S
  <2>3. ProgInv' /\ L' = Due(S) /\ Q' = Q
    BY <2>2, FillLock DEF IInv
  <2> QED
    BY <2>3 DEF S
<1>3. \A op \in Ops : L[op] = {}
  BY <1>1, FreeEmpty
<1>4. /\ \A op \in Ops : op # "volume" => L'[op] = {}
      /\ started["playback"] => L'["volume"] = Amps
      /\ ~started["playback"] => L'["volume"] = {}
  BY <1>2, VolumeDue, DueEmpty, OpsAre
<1>5. started["playback"] => pm = "up"
  BY <1>1 DEF IInv, StartInv, Asleep, Awake, Dirs
<1>6. \A i \in Amps : ampOn[i] => started["playback"]
  BY <1>1, <1>3, OpsAre DEF IInv, FollowInv, Awake
<1>7. UNCHANGED <<hp, open, started, vol, clkOn, bitClk, powered, enabled, level, ampOn,
                  ampVol, l83Susp, ampSusp, on, taken, put, pm, kind, errors>>
  BY DEF SpeakerPut, Hold, amps, ctl, l83, user, work
<1>8. TypeOK'
  BY <1>1, <1>2, <1>3, <1>4, <1>5, <1>6, <1>7 DEF IInv, TypeOK
<1>9. LaneInv'
  BY <1>1, <1>2, <1>4, <1>5, <1>7, OpsAre DEF IInv, LaneInv, LockOps, HookOps, PmOps
<1>10. WholeInv'
  BY <1>4, OpsAre DEF WholeInv
<1>11. StartInv'
  BY <1>3, <1>4, <1>7, OpsAre DEF IInv, StartInv, Asleep
<1>12. FollowInv'
  BY <1>3, <1>4, <1>2, <1>7, OpsAre DEF IInv, FollowInv
<1>13. VolInv'
  BY <1>4, <1>6, <1>7, OpsAre DEF VolInv
<1>14. RunInv'
  BY <1>3, <1>4, <1>7, OpsAre DEF IInv, RunInv, Stream, Asleep
<1>15. PutInv' /\ MarkInv' /\ ClockInv' /\ QuietStandby'
  BY <1>1, <1>2, <1>3, <1>4, <1>5, <1>6, <1>7 DEF IInv, PutInv, MarkInv, ClockInv,
     QuietStandby
<1> QED
  BY <1>2, <1>8, <1>9, <1>10, <1>11, <1>12, <1>13, <1>14, <1>15 DEF IInv

\* A headphone or microphone volume stored.
LEMMA StoreKeeps ==
  ASSUME IInv, NEW d \in Dirs, NEW v \in Levels, Store(d, v)
  PROVE  IInv'
<1>1. /\ Awake /\ vol' = [vol EXCEPT ![d] = v]
      /\ put' = [at |-> "test", dir |-> d]
  BY DEF Store
<1>2. ProgInv' /\ L' = L /\ Q' = Q
  BY KeepProg DEF IInv, Store, KeepPut
<1>3. UNCHANGED <<hp, open, started, spkVol, clkOn, bitClk, powered, enabled, level,
                  ampOn, ampVol, l83Susp, ampSusp, on, taken, holder, pm, kind, errors>>
  BY DEF Store, KeepPut, amps, user, work
<1>4. TypeOK'
  BY <1>1, <1>2, <1>3 DEF IInv, TypeOK
<1>5. PutInv'
  BY <1>1, <1>2, <1>3 DEF IInv, PutInv, Awake
<1>6. LaneInv' /\ WholeInv' /\ StartInv' /\ MarkInv' /\ FollowInv'
      /\ VolInv' /\ ClockInv' /\ RunInv' /\ QuietStandby'
  BY <1>1, <1>2, <1>3 DEF IInv, LaneInv, WholeInv, StartInv, Asleep, MarkInv, FollowInv,
     VolInv, ClockInv, RunInv, Stream, Asleep, QuietStandby, LockOps, PmOps
<1> QED
  BY <1>2, <1>4, <1>5, <1>6 DEF IInv

\* The volume write asks whether the stream runs.
LEMMA TestStartedKeeps ==
  ASSUME IInv, TestStarted
  PROVE  IInv'
<1>1. /\ put.at = "test"
      /\ put' = IF started[put.dir] THEN [put EXCEPT !.at = "write"] ELSE NoPut
  BY DEF TestStarted
<1>2. ProgInv' /\ L' = L /\ Q' = Q
  BY KeepProg DEF IInv, TestStarted, KeepPut
<1>3. put.dir \in Dirs /\ (started[put.dir] => ~Asleep)
  BY DEF IInv, TypeOK, StartInv
<1>4. UNCHANGED <<hp, open, started, spkVol, vol, clkOn, bitClk, powered, enabled, level,
                  ampOn, ampVol, l83Susp, ampSusp, on, taken, holder, pm, kind, errors>>
  BY DEF TestStarted, KeepPut, amps, user, work
<1>5. TypeOK'
  BY <1>1, <1>2, <1>3, <1>4 DEF IInv, TypeOK, NoPut, Dirs
<1>6. PutInv'
  BY <1>1, <1>2, <1>3, <1>4 DEF IInv, PutInv, Asleep, NoPut
<1>7. LaneInv' /\ WholeInv' /\ StartInv' /\ MarkInv' /\ FollowInv'
      /\ VolInv' /\ ClockInv' /\ RunInv' /\ QuietStandby'
  BY <1>1, <1>2, <1>3, <1>4 DEF IInv, LaneInv, WholeInv, StartInv, Asleep, MarkInv, FollowInv,
     VolInv, ClockInv, RunInv, Stream, Asleep, QuietStandby, LockOps, PmOps
<1> QED
  BY <1>2, <1>5, <1>6, <1>7 DEF IInv

\* The volume written.
LEMMA WriteLevelKeeps ==
  ASSUME IInv, WriteLevel
  PROVE  IInv'
<1>1. /\ put.at = "write" /\ put' = NoPut
      /\ level' = IF l83Susp THEN level ELSE [level EXCEPT ![put.dir] = vol[put.dir]]
  BY DEF WriteLevel
<1>2. ProgInv' /\ L' = L /\ Q' = Q
  BY KeepProg DEF IInv, WriteLevel, KeepPut
<1>3. pm = "up" /\ put.dir \in Dirs
  BY <1>1 DEF IInv, PutInv, TypeOK
<1>4. UNCHANGED <<hp, open, started, spkVol, vol, clkOn, bitClk, powered, enabled, ampOn,
                  ampVol, l83Susp, ampSusp, on, taken, holder, pm, kind, errors>>
  BY DEF WriteLevel, KeepPut, amps, user, work
<1>5. TypeOK'
  BY <1>1, <1>2, <1>3, <1>4 DEF IInv, TypeOK, NoPut, Dirs
<1>6. PutInv'
  BY <1>1, <1>2, <1>3, <1>4 DEF IInv, PutInv, NoPut
<1>7. QuietStandby'
  BY <1>1, <1>2, <1>3, <1>4 DEF IInv, QuietStandby
<1>8. LaneInv' /\ WholeInv' /\ StartInv' /\ MarkInv' /\ FollowInv'
      /\ VolInv' /\ ClockInv' /\ RunInv'
  BY <1>1, <1>2, <1>3, <1>4 DEF IInv, LaneInv, WholeInv, StartInv, Asleep, MarkInv, FollowInv,
     VolInv, ClockInv, RunInv, Stream, Asleep, LockOps, PmOps
<1> QED
  BY <1>2, <1>5, <1>6, <1>7, <1>8 DEF IInv

\* A suspend begins.
LEMMA SuspendKeeps ==
  ASSUME IInv, NEW k \in {"runtime", "aborted", "forced"}, Suspend(k)
  PROVE  IInv'
<1>1. /\ pm = "up" /\ put = NoPut /\ pm' = "quiesce" /\ kind' = k
      /\ k # "forced" => Free /\ \A d \in Dirs : ~open[d]
      /\ k = "forced" => Free \/ holder = "jack"
      /\ prog' = [prog EXCEPT !["pm"] = SuspendSteps(k)]
      /\ on' = [on EXCEPT !["pm"] = FALSE]
  BY DEF Suspend
<1>2. ProgInv' /\ Q' = Due(SuspendSet(k)) /\ L' = L
  BY <1>1, SuspendSpan, FillPm DEF IInv
<1>3. k # "forced" => \A op \in Ops : L[op] = {}
  BY <1>1, FreeEmpty
<1>4. k = "forced" => \A op \in Ops : L[op] # {} => op \in {"follow", "amp"}
  BY <1>1, FreeEmpty DEF IInv, LaneInv, LockOps
<1>5. /\ \A op \in Ops : Q'[op] # {} => op \in {"clkstop", "amp", "suspend", SuspendEnd(k)}
      /\ Q'["clkstop"] = {""}
  BY <1>2, SuspendDue, OpsAre
<1>6. k # "forced" => \A d \in Dirs : started[d] = FALSE
  BY <1>1, <1>3, OpsAre DEF IInv, StartInv, TypeOK
<1>7. UNCHANGED <<hp, open, started, spkVol, vol, clkOn, bitClk, powered, enabled, level,
                  ampOn, ampVol, l83Susp, ampSusp, taken, holder, put, errors>>
  BY DEF Suspend, amps, ctl, l83, user, work
<1>8. TypeOK'
  BY <1>1, <1>2, <1>3, <1>4, <1>5, <1>6, <1>7 DEF IInv, TypeOK, Lanes
<1>9. LaneInv'
  BY <1>1, <1>2, <1>3, <1>4, <1>5 DEF LaneInv, LockOps, PmOps
<1>10. WholeInv'
  BY <1>2 DEF IInv, WholeInv
<1>11. StartInv'
  BY <1>1, <1>2, <1>6, <1>7 DEF IInv, StartInv, Asleep
<1>12. PutInv'
  BY <1>1, <1>7 DEF NoPut, PutInv
<1>13. MarkInv'
  BY <1>1, <1>7 DEF IInv, MarkInv
<1>14. FollowInv'
  <2>1. on'["pm"] = FALSE /\ on'["lock"] = on["lock"]
    BY <1>1 DEF IInv, TypeOK, Lanes
  <2>2. ASSUME k # "forced", NEW i \in Amps
        PROVE  ~ampOn[i]
    BY <1>1, <1>3, <1>6, <2>2, OpsAre DEF IInv, FollowInv, Dirs
  <2> QED
    BY <1>1, <1>2, <1>7, <2>1, <2>2 DEF IInv, FollowInv
<1>15. VolInv'
  BY <1>2, <1>7 DEF IInv, VolInv
<1>16. ClockInv'
  BY <1>1, <1>5, <1>7 DEF IInv, ClockInv
<1>17. RunInv'
  <2>1. ASSUME errors = 0, k # "forced", NEW d \in Dirs
        PROVE  ~powered[d] /\ ~enabled[d]
    <3>1. Stream(d)
      BY <1>1, <2>1 DEF IInv, RunInv
    <3>2. powered[d] = started[d] /\ enabled[d] = started[d]
      BY <1>3, <2>1, <3>1, OpsAre DEF Stream
    <3> QED
      BY <1>6, <2>1, <3>2
  <2> QED
    BY <1>1, <1>7, <2>1 DEF RunInv, Asleep
<1>18. QuietStandby'
  BY <1>1, <1>2, <1>3, <1>4, <1>5, <1>6, <1>7 DEF IInv, QuietStandby
<1> QED
  BY <1>2, <1>8, <1>9, <1>10, <1>11, <1>12, <1>13, <1>14, <1>15, <1>16, <1>17, <1>18 DEF IInv

-----------------------------------------------------------------------------
(* The theorems.                                                           *)

\* The probe before the first init: nothing runs and nothing is to do.
LEMMA InvInit == Init => IInv
<1> SUFFICES ASSUME Init
             PROVE  IInv
  OBVIOUS
<1>1. ProgInv
  <2>1. Shape(<<>>) /\ <<>> \in Seq(Steps)
    BY EmptySpan DEF Span, Shape
  <2> QED
    BY <2>1 DEF Init, ProgInv, Lanes
<1>2. \A op \in Ops : L[op] = {} /\ Q[op] = {}
  BY FreeEmpty DEF Init, Free, Lanes
<1>3. TypeOK
  <2>1. spkVol \in [{0, 1} -> Vols] /\ ampVol \in [Amps -> Vols]
    BY StreamAssumption DEF Init
  <2>2. level \in [Dirs -> Levels \union {Muted}] /\ taken \in Levels \union {Muted}
    BY DEF Init
  <2>3. put \in [at : {"idle", "test", "write"}, dir : Dirs] /\ errors \in 0..MaxErrors
    BY StreamAssumption DEF Init, NoPut, Dirs
  <2> QED
    BY <2>1, <2>2, <2>3 DEF Init, TypeOK
<1>4. LaneInv /\ WholeInv
  BY <1>2, OpsAre DEF LaneInv, WholeInv
<1>5. StartInv /\ PutInv /\ MarkInv
  BY <1>2, OpsAre DEF Init, StartInv, PutInv, MarkInv, NoPut
<1>6. FollowInv /\ VolInv /\ ClockInv
  BY <1>2, OpsAre DEF Init, FollowInv, VolInv, ClockInv, Lanes, Dirs
<1>7. RunInv /\ QuietStandby
  BY DEF Init, RunInv, QuietStandby
<1> QED
  BY <1>1, <1>3, <1>4, <1>5, <1>6, <1>7 DEF IInv

\* Every step of either thread and of the volume controls keeps it.
LEMMA InvNext == IInv /\ [Next]_vars => IInv'
<1> SUFFICES ASSUME IInv, [Next]_vars
             PROVE  IInv'
  OBVIOUS
<1>1. ASSUME NEW d \in Dirs, Prepare(d) \/ Cleanup(d)
      PROVE  IInv'
  BY <1>1, PrepareKeeps, CleanupKeeps
<1>2. CASE JackEvent
  BY <1>2, JackEventKeeps
<1>3. ASSUME NEW v \in [{0, 1} -> Vols], SpeakerPut(v)
      PROVE  IInv'
  BY <1>3, SpeakerPutKeeps
<1>4. ASSUME NEW l \in Lanes, StreamStep(l)
      PROVE  IInv'
  <2>1. CASE StartStop(l)
    <3>1. At(l, "start") \/ At(l, "stop")
      BY <2>1 DEF StartStop
    <3> QED
      BY <2>1, <3>1, StartKeeps, StopKeeps
  <2> QED
    BY <1>4, <2>1, PowerKeeps, ReadFailsKeeps, ClockKeeps, EnableKeeps, DisableKeeps,
       UnclockKeeps, UnpowerKeeps, TakeKeeps, UnmuteKeeps, MuteKeeps
       DEF StreamStep
<1>5. ASSUME NEW l \in Lanes, AmpStep(l)
      PROVE  IInv'
  <2>1. CASE MarkAmp(l)
    <3>1. PICK op \in {"suspend", "allow"} : At(l, op)
      BY <2>1 DEF MarkAmp
    <3>2. l = "pm"
      BY <3>1, PmOnly
    <3> QED
      BY <2>1, <3>1, <3>2, SuspendAmpKeeps, AllowAmpKeeps
  <2>2. CASE InitAmp(l)
    <3>1. l = "pm"
      BY <2>2, PmOnly DEF InitAmp
    <3> QED
      BY <2>2, <3>1, InitAmpKeeps
  <2>3. CASE Follow(l) \/ PowerAmp(l)
    BY <2>3, FollowLockKeeps, FollowPmKeeps, PowerAmpLockKeeps, PowerAmpPmKeeps DEF Lanes
  <2> QED
    BY <1>5, <2>1, <2>2, <2>3, SetVolumeKeeps DEF AmpStep
<1>6. ASSUME NEW d \in Dirs, NEW v \in Levels, Store(d, v)
      PROVE  IInv'
  BY <1>6, StoreKeeps
<1>7. CASE TestStarted \/ WriteLevel
  BY <1>7, TestStartedKeeps, WriteLevelKeeps
<1>8. ASSUME NEW k \in {"runtime", "aborted", "forced"}, Suspend(k)
      PROVE  IInv'
  BY <1>8, SuspendKeeps
<1>9. CASE PmCallback
  BY <1>9, StopForSuspendKeeps, StandbyKeeps, ShutDownKeeps, LightResumeKeeps,
     FullResumeKeeps, BringKeeps, LookKeeps, UpKeeps
     DEF PmCallback
<1>10. CASE UNCHANGED vars
  <2>1. /\ UNCHANGED <<hp, open, started, spkVol, vol, clkOn, bitClk, powered, enabled, level,
                       ampOn, ampVol, l83Susp, ampSusp, on, taken, holder, put, pm, kind, errors>>
        /\ prog' = prog
    BY <1>10 DEF vars, l83, amps, ctl, user, work
  <2>2. ProgInv' /\ L' = L /\ Q' = Q
    BY <2>1, KeepProg DEF IInv
  <2>3. TypeOK' /\ LaneInv' /\ WholeInv' /\ StartInv' /\ PutInv'
    BY <2>1, <2>2 DEF IInv, TypeOK, LaneInv, LockOps, PmOps, WholeInv, StartInv, Asleep, PutInv
  <2>4. MarkInv' /\ FollowInv' /\ VolInv' /\ ClockInv'
    BY <2>1, <2>2 DEF IInv, MarkInv, FollowInv, VolInv, ClockInv
  <2>5. RunInv' /\ QuietStandby'
    BY <2>1, <2>2 DEF IInv, RunInv, Stream, Asleep, QuietStandby
  <2> QED
    BY <2>2, <2>3, <2>4, <2>5 DEF IInv
<1> QED
  BY <1>1, <1>2, <1>3, <1>4, <1>5, <1>6, <1>7, <1>8, <1>9, <1>10 DEF Next

\* What the hooks, the jack handler, the volume writes and the PM callbacks have begun
\* and what they have still to do account for the chip at every moment, for any number of
\* amps, volumes, sleeps and failed reads.
THEOREM StreamInvariant == Spec => []IInv
BY InvInit, InvNext, PTL DEF Spec

\* No step leaves the types: the sequences are of steps the lanes know.
THEOREM StreamTypeOK == Spec => []TypeOK
<1>1. IInv => TypeOK
  BY DEF IInv
<1> QED
  BY <1>1, StreamInvariant, PTL

\* With nobody at work the amps are on exactly while something plays and no headphones
\* are in, whatever jack events, streams, suspends, sleeps and failed reads came before
\* (mbp131_update_speakers(), 1775-1783).
THEOREM StreamSpeakersFollow == Spec => []SpeakersFollow
<1>1. IInv => SpeakersFollow
  BY FreeEmpty, OpsAre DEF IInv, FollowInv, SpeakersFollow, Settled
<1> QED
  BY <1>1, StreamInvariant, PTL

\* An amp that is on has the volume of the control, or is having it written, after an init
\* from reset too (1738-1763, 1880-1885).
THEOREM StreamAmpVolume == Spec => []AmpVolume
<1>1. ASSUME IInv, NEW i \in Amps, i \in L["volume"],
             \A op \in Ops \ {"volume"} : L[op] = {}
      PROVE  i \in Setting
  <2> DEFINE s == prog["lock"]
  <2>1. Shape(s) /\ L = Due(Todo(s))
    BY <1>1 DEF IInv, ProgInv, L
  <2> HIDE DEF s
  <2>2. \E n \in DOMAIN s : s[n] = <<"volume", i>>
    <3>1. <<"volume", i>> \in Todo(s)
      BY <1>1, <2>1, OpsAre DEF Due
    <3> QED
      BY <3>1 DEF Todo
  <2>3. ASSUME NEW n \in DOMAIN s
        PROVE  s[n][1] = "volume"
    <3>1. s[n] \in Steps /\ s[n] \in Todo(s)
      BY <2>1 DEF Shape, Todo
    <3>2. s[n] = <<s[n][1], s[n][2]>> /\ s[n][1] \in Ops /\ s[n][2] \in Arguments
      BY <3>1, StepParts
    <3>3. s[n][2] \in L[s[n][1]]
      BY <2>1, <3>1, <3>2 DEF Due
    <3> QED
      BY <1>1, <3>2, <3>3
  <2> QED
    BY <2>2, <2>3 DEF Setting, s
<1>2. IInv => AmpVolume
  BY <1>1 DEF IInv, VolInv, AmpVolume
<1> QED
  BY <1>2, StreamInvariant, PTL

\* In a runtime standby nothing is heard or drawn, also where reads failed while streams
\* were taken down (2059-2083, 2153-2156).
THEOREM StreamQuietStandby == Spec => []QuietStandby
<1>1. IInv => QuietStandby
  BY DEF IInv
<1> QED
  BY <1>1, StreamInvariant, PTL

\* Where no register read failed, a started stream has its blocks, its channels and the
\* bit clock, and with the last stream they are gone: neither direction takes them from
\* the other (1798-1866).
THEOREM StreamStreamsRun == Spec => []StreamsRun
<1>1. ASSUME IInv, Settled, errors = 0
      PROVE  /\ powered = started /\ enabled = started
             /\ bitClk = (\E d \in Dirs : started[d]) /\ clkOn = bitClk
  <2>1. /\ \A op \in Ops : L[op] = {}
        /\ \A d \in Dirs : Stream(d)
        /\ bitClk => \E d \in Dirs : started[d] \/ d \in L["start"] \union L["unclock"]
    BY <1>1, FreeEmpty DEF IInv, Settled, RunInv
  <2>2. \A d \in Dirs : /\ powered[d] = started[d] /\ enabled[d] = started[d]
                        /\ started[d] => bitClk
    BY <2>1, OpsAre DEF Stream
  <2>3. powered = started /\ enabled = started
    BY <1>1, <2>2 DEF IInv, TypeOK
  <2>4. bitClk = (\E d \in Dirs : started[d])
    <3>1. bitClk \in BOOLEAN
      BY <1>1 DEF IInv, TypeOK
    <3>2. bitClk => \E d \in Dirs : started[d]
      BY <2>1, OpsAre
    <3> QED
      BY <2>2, <3>1, <3>2
  <2>5. clkOn = bitClk
    BY <1>1 DEF IInv, ClockInv
  <2> QED
    BY <2>3, <2>4, <2>5
<1>2. IInv => StreamsRun
  BY <1>1 DEF StreamsRun
<1> QED
  BY <1>2, StreamInvariant, PTL

\* No serial port is on when the chip is switched to the bit clock, where no failed read
\* skipped a teardown (1844-1850).
THEOREM StreamChannelsAfterClock == Spec => ChannelsAfterClock
<1> DEFINE Ordered2 == errors = 0 /\ ~bitClk /\ bitClk' => \A d \in Dirs : ~enabled[d]
<1>1. ASSUME IInv, [Next]_vars
      PROVE  Ordered2
  <2>1. ASSUME NEW l \in Lanes, Clock(l)
        PROVE  Ordered2
    <3>1. pm = "up"
      BY <1>1, <2>1, LockOnly DEF Clock, StreamOps
    <3> QED
      BY <1>1, <3>1 DEF IInv, RunInv, Stream
  <2>2. ASSUME NEW d \in Dirs, Prepare(d) \/ Cleanup(d)
        PROVE  bitClk' = bitClk
    BY <2>2 DEF Prepare, Cleanup, l83
  <2>3. ASSUME JackEvent \/ \E v \in [{0, 1} -> Vols] : SpeakerPut(v)
        PROVE  bitClk' = bitClk
    BY <2>3 DEF JackEvent, SpeakerPut, l83
  <2>4. ASSUME NEW l \in Lanes, StreamStep(l), ~Clock(l)
        PROVE  bitClk' => bitClk
    <3>1. CASE Unclock(l)
      BY <3>1 DEF Unclock, ClockStop
    <3>2. CASE ~Unclock(l)
      BY <2>4, <3>2 DEF StreamStep, Power, ReadFails, Enable, Disable, Unpower, StartStop, Take,
         Unmute, Mute, l83
    <3> QED
      BY <3>1, <3>2
  <2>5. ASSUME NEW l \in Lanes, AmpStep(l)
        PROVE  bitClk' = bitClk
    BY <2>5 DEF AmpStep, Follow, PowerAmp, SetVolume, MarkAmp, InitAmp, KeepAmp, l83
  <2>6. ASSUME TestStarted \/ WriteLevel \/ \E d \in Dirs, v \in Levels : Store(d, v)
        PROVE  bitClk' = bitClk
    BY <2>6 DEF TestStarted, WriteLevel, Store, KeepPut
  <2>7. ASSUME \E k \in {"runtime", "aborted", "forced"} : Suspend(k)
        PROVE  bitClk' = bitClk
    BY <2>7 DEF Suspend, l83
  <2>8. ASSUME PmCallback
        PROVE  bitClk' => bitClk
    BY <2>8 DEF PmCallback, StopForSuspend, ClockStop, Standby, ShutDown, InReset, LightResume,
       FullResume, Bring, Look, Up, l83
  <2>9. ASSUME UNCHANGED vars
        PROVE  bitClk' = bitClk
    BY <2>9 DEF vars, l83
  <2> HIDE DEF Ordered2
  <2>10. (bitClk' => bitClk) => Ordered2
    BY DEF Ordered2
  <2> QED
    BY <1>1, <2>1, <2>2, <2>3, <2>4, <2>5, <2>6, <2>7, <2>8, <2>9, <2>10 DEF Next
<1> QED
  BY <1>1, StreamInvariant, PTL DEF Spec, ChannelsAfterClock

-----------------------------------------------------------------------------
(* The headphone amplifier comes up muted, but for the control that takes  *)
(* no lock and for a read that failed.                                     *)

\* Unpowered it is muted, and what unmutes it comes after the power, what takes the
\* power after the mute.
MuteInv ==
  errors = 0 =>
    /\ put = NoPut
    /\ "playback" \in L["unmute"] => /\ "playback" \in L["power"] \/ powered["playback"]
                                     /\ "playback" \notin L["unpower"]
    /\ "playback" \in L["unpower"] => "playback" \in L["mute"] \/ level["playback"] = Muted
    /\ powered["playback"] \/ level["playback"] = Muted

\* Nothing of it touched.
LEMMA MuteKept ==
  ASSUME MuteInv, UNCHANGED <<powered, level, put, errors>>,
         \A op \in {"power", "unmute", "mute", "unpower"} : L'[op] = L[op]
  PROVE  MuteInv'
BY DEF MuteInv

\* No hook under way.
LEMMA MuteNone ==
  ASSUME MuteInv, UNCHANGED <<powered, level, put, errors>>,
         L'["unmute"] = {}, L'["unpower"] = {}
  PROVE  MuteInv'
BY DEF MuteInv

\* A step of a stream.
LEMMA MuteStream ==
  ASSUME IInv, MuteInv, NEW l \in Lanes, StreamStep(l)
  PROVE  MuteInv'
<1> USE OpsAre DEF StreamOps
<1>0. ProgInv /\ put' = put /\ "playback" \in Dirs
  BY DEF IInv, StreamStep, Power, ReadFails, Clock, Enable, Disable, Unclock, Unpower, StartStop,
     Take, Unmute, Mute, KeepStream, ctl, Dirs
<1>1. CASE Power(l)
  <2>1. l = "lock" /\ At(l, "power") /\ Rest(l) /\ UNCHANGED <<level, errors>>
    BY <1>1, LockOnly DEF Power
  <2>2. TookL("power", Arg(l)) /\ Arg(l) \in Dirs
    BY <1>0, <2>1, TakeStep, ArgKind
  <2>3. powered'["playback"] = (powered["playback"] \/ Arg(l) = "playback")
    BY <1>0, <1>1, <2>2 DEF Power, IInv, TypeOK
  <2>4. /\ L'["power"] = L["power"] \ {Arg(l)}
        /\ \A op \in {"unmute", "mute", "unpower"} : L'[op] = L[op]
    BY <2>2 DEF TookL
  <2> QED
    BY <1>0, <2>1, <2>3, <2>4 DEF MuteInv
<1>2. CASE ReadFails(l)
  <2>1. errors' # 0
    BY <1>2 DEF ReadFails, IInv, TypeOK
  <2> QED
    BY <2>1 DEF MuteInv
<1>3. CASE Unmute(l)
  <2>1. l = "lock" /\ At(l, "unmute") /\ Rest(l) /\ UNCHANGED <<powered, errors>>
    BY <1>3, LockOnly DEF Unmute
  <2>2. TookL("unmute", Arg(l)) /\ Arg(l) \in Dirs
    BY <1>0, <2>1, TakeStep, ArgKind
  <2>3. /\ L["power"] = {} /\ Arg(l) \in L["unmute"] /\ L'["unmute"] = L["unmute"] \ {Arg(l)}
        /\ \A op \in {"power", "mute", "unpower"} : L'[op] = L[op]
    BY <2>2, RankTable DEF TookL, First
  <2>4. Arg(l) # "playback" => level'["playback"] = level["playback"]
    BY <1>0, <1>3, <2>2 DEF Unmute, IInv, TypeOK
  <2> QED
    BY <1>0, <2>1, <2>3, <2>4 DEF MuteInv
<1>4. CASE Mute(l)
  <2>1. l = "lock" /\ At(l, "mute") /\ Rest(l) /\ UNCHANGED <<powered, errors>>
    BY <1>4, LockOnly DEF Mute
  <2>2. TookL("mute", Arg(l)) /\ Arg(l) \in Dirs
    BY <1>0, <2>1, TakeStep, ArgKind
  <2>3. /\ L'["mute"] = L["mute"] \ {Arg(l)}
        /\ \A op \in {"power", "unmute", "unpower"} : L'[op] = L[op]
    BY <2>2 DEF TookL
  <2>4. level'["playback"] = IF Arg(l) = "playback" THEN Muted ELSE level["playback"]
    BY <1>0, <1>4, <2>2 DEF Mute, IInv, TypeOK
  <2> QED
    BY <1>0, <2>1, <2>3, <2>4 DEF MuteInv
<1>5. CASE Unpower(l)
  <2>1. l = "lock" /\ At(l, "unpower") /\ Rest(l) /\ UNCHANGED <<level, errors>>
    BY <1>5, LockOnly DEF Unpower
  <2>2. TookL("unpower", Arg(l)) /\ Arg(l) \in Dirs
    BY <1>0, <2>1, TakeStep, ArgKind
  <2>3. /\ L["mute"] = {} /\ Arg(l) \in L["unpower"] /\ L'["unpower"] = L["unpower"] \ {Arg(l)}
        /\ \A op \in {"power", "mute", "unmute"} : L'[op] = L[op]
    BY <2>2, RankTable DEF TookL, First
  <2>4. Arg(l) # "playback" => powered'["playback"] = powered["playback"]
    BY <1>0, <1>5, <2>2 DEF Unpower, IInv, TypeOK
  <2> QED
    BY <1>0, <2>1, <2>3, <2>4 DEF MuteInv
<1>6. CASE Clock(l) \/ Enable(l) \/ Disable(l) \/ Unclock(l) \/ StartStop(l) \/ Take(l)
  <2>1. /\ UNCHANGED <<powered, level, errors>> /\ Rest(l)
        /\ \E op \in {"clock", "enable", "disable", "unclock", "start", "stop", "take"} : At(l, op)
    BY <1>6 DEF Clock, Enable, Disable, Unclock, StartStop, Take, l83
  <2>2. PICK op \in {"clock", "enable", "disable", "unclock", "start", "stop", "take"} : At(l, op)
    BY <2>1
  <2>3. l = "lock"
    BY <2>2, LockOnly
  <2>4. TookL(op, Arg(l))
    BY <1>0, <2>1, <2>2, <2>3, TakeStep
  <2>5. \A o \in {"power", "unmute", "mute", "unpower"} : L'[o] = L[o]
    BY <2>4 DEF TookL
  <2> QED
    BY <1>0, <2>1, <2>5, MuteKept
<1> QED
  BY <1>1, <1>2, <1>3, <1>4, <1>5, <1>6 DEF StreamStep

\* A step on the amps.
LEMMA MuteAmp ==
  ASSUME IInv, MuteInv, NEW l \in Lanes, AmpStep(l)
  PROVE  MuteInv'
<1>1. /\ UNCHANGED <<powered, level, put, errors>> /\ Rest(l)
      /\ \E op \in AmpOps \union {"follow"} : At(l, op)
  BY DEF AmpStep, Follow, PowerAmp, SetVolume, MarkAmp, InitAmp, KeepAmp, l83, ctl, user, AmpOps
<1>2. PICK op \in AmpOps \union {"follow"} : At(l, op)
  BY <1>1
<1>3. TookL(op, Arg(l)) \/ TookQ(op, Arg(l))
  BY <1>1, <1>2, TakeStep DEF IInv, Lanes
<1>4. \A o \in {"power", "unmute", "mute", "unpower"} : L'[o] = L[o]
  BY <1>2, <1>3, OpsAre DEF TookL, TookQ, AmpOps
<1> QED
  BY <1>1, <1>4, MuteKept

\* jack_lock taken.
LEMMA MuteHold ==
  ASSUME IInv, MuteInv,
         JackEvent \/ (\E v \in [{0, 1} -> Vols] : SpeakerPut(v))
           \/ (\E d \in Dirs : Prepare(d) \/ Cleanup(d))
  PROVE  MuteInv'
<1>0. UNCHANGED <<powered, level, put, errors>> /\ ProgInv
  BY DEF JackEvent, SpeakerPut, Prepare, Cleanup, l83, ctl, user, IInv
<1>1. CASE JackEvent
  <2>1. L' = Due(SpeakerSet)
    BY <1>0, <1>1, SpeakersSpan, FillLock DEF JackEvent, Hold
  <2> QED
    BY <1>0, <2>1, SpeakerDue, OpsAre, MuteNone
<1>2. ASSUME NEW v \in [{0, 1} -> Vols], SpeakerPut(v)
      PROVE  MuteInv'
  <2>1. CASE started["playback"]
    <3>1. prog' = [prog EXCEPT !["lock"] = AmpLoop("volume")]
      BY <1>2, <2>1 DEF SpeakerPut, Hold
    <3>2. L' = Due(Loop("volume"))
      BY <1>0, <3>1, VolumeSpan, FillLock
    <3> QED
      BY <1>0, <3>2, VolumeDue, OpsAre, MuteNone
  <2>2. CASE ~started["playback"]
    <3>1. prog' = [prog EXCEPT !["lock"] = <<>>]
      BY <1>2, <2>2 DEF SpeakerPut, Hold
    <3>2. L' = Due({})
      BY <1>0, <3>1, EmptySpan, FillLock
    <3> QED
      BY <1>0, <3>2, DueEmpty, OpsAre, MuteNone
  <2> QED
    BY <2>1, <2>2
<1>3. ASSUME NEW d \in Dirs, Prepare(d)
      PROVE  MuteInv'
  <2>1. L' = Due(PrepareSet(d))
    BY <1>0, <1>3, PrepareSpan, FillLock DEF Prepare, Hold
  <2>2. L'["power"] = {d} /\ L'["unmute"] = {d} /\ L'["unpower"] = {}
    BY <2>1, PrepareDue, OpsAre
  <2> QED
    BY <1>0, <2>2 DEF MuteInv
<1>4. ASSUME NEW d \in Dirs, Cleanup(d)
      PROVE  MuteInv'
  <2>1. L' = Due(CleanupSet(d))
    BY <1>0, <1>4, CleanupSpan, FillLock DEF Cleanup, Hold
  <2>2. L'["mute"] = {d} /\ L'["unmute"] = {} /\ L'["unpower"] = {d}
    BY <2>1, CleanupDue, OpsAre
  <2> QED
    BY <1>0, <2>2 DEF MuteInv
<1> QED
  BY <1>1, <1>2, <1>3, <1>4

\* A step of a PM callback.
LEMMA MutePm ==
  ASSUME IInv, MuteInv, PmCallback \/ (\E k \in {"runtime", "aborted", "forced"} : Suspend(k))
  PROVE  MuteInv'
<1>1. prog'["lock"] = prog["lock"] /\ UNCHANGED <<put, errors>>
  <2>1. prog \in [Lanes -> Seq(Steps)] /\ "pm" \in Lanes
    BY DEF IInv, ProgInv, Lanes
  <2>2. ASSUME Rest("pm")
        PROVE  prog'["lock"] = prog["lock"]
    BY <2>1, <2>2 DEF Rest, Lanes
  <2>3. /\ LightResume \/ FullResume => prog'["lock"] = prog["lock"]
        /\ (\E k \in {"runtime", "aborted", "forced"} : Suspend(k)) => prog'["lock"] = prog["lock"]
        /\ Look /\ ~Rest("pm") => prog'["lock"] = prog["lock"]
        /\ Up => prog'["lock"] = prog["lock"]
    BY <2>1 DEF LightResume, FullResume, Suspend, Look, Up, Lanes
  <2>4. StopForSuspend \/ Standby \/ ShutDown \/ Bring => Rest("pm")
    BY DEF StopForSuspend, Standby, ShutDown, Bring
  <2>5. UNCHANGED <<put, errors>>
    BY DEF PmCallback, StopForSuspend, KeepStream, Standby, ShutDown, LightResume, FullResume,
       Bring, Look, Up, Suspend, ctl, user
  <2> QED
    BY <2>2, <2>3, <2>4, <2>5 DEF PmCallback
<1>2. L' = L
  BY <1>1 DEF L
<1>3. CASE UNCHANGED <<powered, level>>
  BY <1>1, <1>2, <1>3 DEF MuteInv
<1>4. CASE ~UNCHANGED <<powered, level>>
  <2>1. Standby \/ ShutDown \/ FullResume
    BY <1>4 DEF PmCallback, StopForSuspend, LightResume, Bring, Look, Up, Suspend, l83
  <2>2. level'["playback"] = Muted
    BY <2>1 DEF Standby, ShutDown, FullResume, InReset, IInv, TypeOK, Dirs
  <2>3. L["unmute"] = {}
    <3>1. pm # "up"
      <4>1. CASE FullResume
        BY <4>1 DEF FullResume
      <4>2. CASE Standby \/ ShutDown
        <5>1. \E op \in {"standby", "down"} : At("pm", op) /\ op \in Ops
          BY <4>2, OpsAre DEF Standby, ShutDown
        <5>2. \E op \in {"standby", "down"} : op \in Ops /\ Q[op] # {}
          BY <5>1, AtDue DEF IInv, Lanes
        <5> QED
          BY <5>2 DEF IInv, LaneInv, PmOps
      <4> QED
        BY <2>1, <4>1, <4>2
    <3>2. "unmute" \notin LockOps
      BY <3>1 DEF LockOps
    <3> QED
      BY <3>2, OpsAre DEF IInv, LaneInv
  <2> QED
    BY <1>1, <1>2, <2>2, <2>3 DEF MuteInv
<1> QED
  BY <1>3, <1>4

\* With nobody at the volume controls, every step.
LEMMA MuteNext ==
  ASSUME ~Controls, IInv, MuteInv, [Next]_vars
  PROVE  MuteInv'
<1>1. ASSUME TestStarted \/ WriteLevel \/ (\E d \in Dirs, v \in Levels : Store(d, v))
      PROVE  MuteInv'
  <2>1. errors # 0 /\ errors' = errors
    BY <1>1 DEF TestStarted, WriteLevel, Store, KeepPut, user, MuteInv, NoPut
  <2> QED
    BY <2>1 DEF MuteInv
<1>2. CASE UNCHANGED vars
  <2>1. prog' = prog /\ UNCHANGED <<powered, level, put, errors>>
    BY <1>2 DEF vars, l83, ctl, user
  <2> QED
    BY <2>1, KeepProg, MuteKept
<1> QED
  BY <1>1, <1>2, MuteHold, MuteStream, MuteAmp, MutePm DEF Next

\* The hooks by themselves power the headphone amplifier only `with the mixer still muted'
\* (1831-1835), whatever streams, suspends and sleeps come, until a read fails: what goes
\* against that comment is the volume control, which takes no lock.
THEOREM StreamPowerMuted ==
  ASSUME ~Controls
  PROVE  Spec => [][errors = 0 /\ ~powered["playback"] /\ powered'["playback"]
                      => level["playback"] = Muted]_vars
<1>1. Init => MuteInv
  <2>1. Init => \A op \in Ops : L[op] = {}
    BY FreeEmpty DEF Init, Free, Lanes
  <2> QED
    BY <2>1, OpsAre DEF Init, MuteInv, Dirs
<1>2. IInv /\ MuteInv /\ [Next]_vars => MuteInv'
  BY MuteNext
<1>3. MuteInv => (errors = 0 /\ ~powered["playback"] /\ powered'["playback"]
                    => level["playback"] = Muted)
  BY DEF MuteInv
<1> QED
  BY <1>1, <1>2, <1>3, StreamInvariant, PTL DEF Spec

\* Where reads do not fail at all, that is HpUpMuted.
THEOREM StreamHpUpMuted == ASSUME ~Controls, MaxErrors = 0 PROVE Spec => HpUpMuted
<1>1. TypeOK => errors = 0
  BY DEF TypeOK
<1> QED
  BY <1>1, StreamTypeOK, StreamPowerMuted, PTL DEF HpUpMuted

=============================================================================
