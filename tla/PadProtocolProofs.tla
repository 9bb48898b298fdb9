-------------------------- MODULE PadProtocolProofs --------------------------
(****************************************************************************)
(* What gamepad_read() reads is what was pressed, for any way of pressing.  *)
(* What it reads is what the host sees: first what the host learns from the *)
(* descriptors, item by item, then what it makes of a report.               *)
(****************************************************************************)
EXTENDS PadToHost, SequenceTheorems, WellFoundedInduction, TLAPS

\* The lines that edges 1, 2 and 6 sample.
Lows  == {"A", "START"}
Highs == {"UP", "DOWN", "LEFT", "RIGHT", "B", "C"}

\* The rising edges among the first n.
Rising(n) == IF n < 2 THEN 0 ELSE IF n < 4 THEN 1 ELSE IF n < 6 THEN 2 ELSE 3

\* The pad has counted the pulses of this read, or still stands where the last read
\* left it.
PulsesCounted ==
  /\ step = 0 => pulses \in {0, 4}
  /\ step # 0 => /\ began \in {0, 4} /\ select = Level(step)
                 /\ pulses = IF began = 0 THEN Rising(step) ELSE 4

TrulyNow(S) == always \cap S \subseteq buttons /\ buttons \cap S \subseteq ever

ReadSoFar ==
  /\ step # 0 => TrulyNow(Lows) /\ always \subseteq pressed /\ pressed \subseteq ever
  /\ step >= 2 => TrulyNow(Highs)
  /\ kind = "six" /\ began = 0 /\ step >= 6 => TrulyNow(Extra)

IInv == TypeOK /\ PulsesCounted /\ ReadSoFar

LEMMA Steps ==
  ASSUME TypeOK
  PROVE  step \in Nat /\ step \in {0, 1, 2, 3, 4, 5, 6, 7}
BY DEF TypeOK, Last

LEMMA Levels ==
  /\ Level(1) = "low" /\ Level(2) = "high" /\ Level(3) = "low" /\ Level(4) = "high"
  /\ Level(5) = "low" /\ Level(6) = "high" /\ Level(7) = "low" /\ Level(8) = "high"
BY DEF Level

LEMMA Rolls == 8 % 8 = 0 /\ \A n \in {1, 2, 3, 4, 5, 6, 7} : n % 8 = n
OBVIOUS

\* The edge after n others.
LEMMA Counted ==
  ASSUME TypeOK, PulsesCounted, Edge
  PROVE  PulsesCounted' /\ pulses' \in 0 .. 4 /\ began' \in 0 .. 4
<1>1. pulses \in 0 .. 4 /\ began \in 0 .. 4
  BY DEF TypeOK
<1>2. step' = (step + 1) % 8 /\ select' = Level(step + 1)
      /\ pulses' = (IF select = "low" /\ Level(step + 1) = "high" /\ pulses < 4
                    THEN pulses + 1 ELSE pulses)
      /\ began' = (IF step + 1 = 1 THEN pulses ELSE began)
  BY DEF Edge, Last
<1>3. CASE step = 0
  BY <1>1, <1>2, <1>3, Levels, Rolls DEF PulsesCounted, Rising
<1>4. CASE step \in {1, 3, 5}
  BY <1>1, <1>2, <1>4, Levels, Rolls DEF PulsesCounted, Rising
<1>5. CASE step \in {2, 4, 6}
  BY <1>1, <1>2, <1>5, Levels, Rolls DEF PulsesCounted, Rising
<1>6. CASE step = 7
  BY <1>1, <1>2, <1>6, Levels, Rolls DEF PulsesCounted, Rising
<1> QED  BY <1>3, <1>4, <1>5, <1>6, Steps

\* What the samples of edge s make of the array, when each is the line of its button.
LEMMA Reads ==
  ASSUME TypeOK, Edge, NEW S, DOMAIN Sampled(step + 1) = S,
         \A b \in S : Shown(select', pulses')[Sampled(step + 1)[b]] = b
  PROVE  buttons' \cap S = pressed \cap S /\ buttons' \ S = buttons \ S
<1> DEFINE lines == Shown(select', pulses')
<1>1. buttons' = (buttons \ S) \cup {b \in S : Pulled(lines[Sampled(step + 1)[b]])}
  BY DEF Edge
<1>2. ASSUME NEW b \in S, S \subseteq Btn PROVE Pulled(lines[Sampled(step + 1)[b]]) <=> b \in pressed
  BY <1>2, PadAssumption DEF Pulled
<1>3. S \subseteq Btn
  BY DEF Sampled, Btn, Base, Extra, Directions
<1> QED  BY <1>1, <1>2, <1>3

LEMMA FirstEdge ==
  ASSUME TypeOK, PulsesCounted, Edge, step = 0
  PROVE  buttons' \cap Lows = pressed \cap Lows
<1>1. step + 1 = 1 /\ pulses \in {0, 4} /\ select' = "low" /\ pulses' = pulses
  BY Levels DEF PulsesCounted, Edge
<1>2. Shown(select', pulses') = Normal["low"]
  BY <1>1 DEF Shown
<1>3. Sampled(1) = [A |-> 5, START |-> 6] /\ DOMAIN Sampled(1) = Lows
  BY DEF Sampled, Lows
<1>4. \A b \in Lows : Normal["low"][Sampled(1)[b]] = b
  BY <1>3 DEF Lows, Normal
<1> QED  BY <1>1, <1>2, <1>3, <1>4, Reads

LEMMA SecondEdge ==
  ASSUME TypeOK, PulsesCounted, Edge, step = 1
  PROVE  buttons' \cap Highs = pressed \cap Highs /\ buttons' \ Highs = buttons \ Highs
<1>1. step + 1 = 2 /\ select' = "high" /\ pulses' \in {1, 4}
  BY Levels DEF PulsesCounted, Edge, Rising
<1>2. Shown(select', pulses') = Normal["high"]
  BY <1>1 DEF Shown
<1>3. /\ Sampled(2) = [UP |-> 1, DOWN |-> 2, LEFT |-> 3, RIGHT |-> 4, B |-> 5, C |-> 6]
      /\ DOMAIN Sampled(2) = Highs
  BY DEF Sampled, Highs
<1>4. \A b \in Highs : Normal["high"][Sampled(2)[b]] = b
  BY <1>3 DEF Highs, Normal
<1> QED  BY <1>1, <1>2, <1>3, <1>4, Reads

LEMMA SixthEdge ==
  ASSUME TypeOK, PulsesCounted, Edge, step = 5
  PROVE  /\ buttons' \ Extra = buttons \ Extra
         /\ kind = "six" /\ began = 0 => buttons' \cap Extra = pressed \cap Extra
<1>1. step + 1 = 6 /\ select' = "high" /\ (began = 0 => pulses' = 3)
  BY Levels DEF PulsesCounted, Edge, Rising
<1>2. Sampled(6) = [MODE |-> 4, X |-> 3, Y |-> 2, Z |-> 1] /\ DOMAIN Sampled(6) = Extra
  BY DEF Sampled, Extra
<1>3. buttons' \ Extra = buttons \ Extra
  BY <1>1, <1>2 DEF Edge
<1>4. ASSUME kind = "six", began = 0 PROVE buttons' \cap Extra = pressed \cap Extra
  <2>1. Shown(select', pulses') = <<"Z", "Y", "X", "MODE", "B", "C">>
    BY <1>1, <1>4 DEF Shown
  <2>2. \A b \in Extra : <<"Z", "Y", "X", "MODE", "B", "C">>[Sampled(6)[b]] = b
    BY <1>2 DEF Extra
  <2> QED  BY <1>1, <1>2, <2>1, <2>2, Reads
<1> QED  BY <1>3, <1>4

LEMMA OtherEdges ==
  ASSUME TypeOK, Edge, step \in {2, 3, 4, 6, 7}
  PROVE  buttons' = buttons
<1>1. Sampled(step + 1) = <<>>
  BY DEF Sampled
<1> QED  BY <1>1 DEF Edge

\* The player's buttons of the read, at an edge.
LEMMA Watched ==
  ASSUME Edge
  PROVE  /\ pressed' = pressed
         /\ step = 0 => ever' = pressed /\ always' = pressed
         /\ step \in {1, 2, 3, 4, 5, 6, 7} => ever' = ever /\ always' = always
BY DEF Edge

LEMMA EdgeReads ==
  ASSUME IInv, Edge
  PROVE  /\ TrulyNow(Lows)' /\ (always \subseteq pressed)' /\ (pressed \subseteq ever)'
         /\ step # 0 => TrulyNow(Highs)'
         /\ kind = "six" /\ began' = 0 /\ step >= 5 => TrulyNow(Extra)'
<1> USE DEF IInv, ReadSoFar, TrulyNow
<1>0. Lows \cap Highs = {} /\ Lows \cap Extra = {} /\ Highs \cap Extra = {}
  BY DEF Lows, Highs, Extra
<1>1. CASE step = 0
  BY <1>1, FirstEdge, Watched
<1>2. CASE step = 1
  BY <1>0, <1>2, SecondEdge, Watched
<1>3. CASE step = 5
  <2>1. began' = began
    BY <1>3 DEF Edge
  <2> QED  BY <1>0, <1>3, <2>1, SixthEdge, Watched
<1>4. CASE step \in {2, 3, 4, 6, 7}
  <2>1. began' = began /\ step >= 2 /\ (step >= 5 => step >= 6)
    BY <1>4 DEF Edge
  <2> QED  BY <1>4, <2>1, OtherEdges, Watched
<1> QED  BY <1>1, <1>2, <1>3, <1>4, Steps

LEMMA Initially == Init => IInv
BY PadAssumption
   DEF Init, IInv, TypeOK, PulsesCounted, ReadSoFar, Last, Btn, Base, Extra, Directions

LEMMA EdgeTyped ==
  ASSUME IInv, Edge
  PROVE  TypeOK'
<1>1. kind' = kind /\ pressed' = pressed
  BY DEF Edge
<1>2. select' \in {"low", "high"}
  BY DEF Edge, Level
<1>3. step' \in 0 .. Last - 1
  BY Steps, Rolls DEF Edge, Last, IInv
<1>4. buttons' \subseteq Btn
  BY FirstEdge, SecondEdge, SixthEdge, OtherEdges, Steps
     DEF IInv, TypeOK, Edge, Btn, Base, Extra, Directions, Sampled
<1>5. ever' \subseteq Btn /\ always' \subseteq Btn
  BY DEF IInv, TypeOK, Edge
<1> QED  BY <1>1, <1>2, <1>3, <1>4, <1>5, Counted DEF IInv, TypeOK

LEMMA Inductive == IInv /\ [Next]_vars => IInv'
<1> SUFFICES ASSUME IInv, [Next]_vars PROVE IInv'
  OBVIOUS
<1>1. CASE Rest
  BY <1>1 DEF Rest, IInv, TypeOK, PulsesCounted, ReadSoFar, TrulyNow
<1>2. CASE Edge
  <2>1. kind' = kind /\ (step' >= 2 => step # 0) /\ (step' >= 6 => step >= 5)
    BY <1>2, Steps, Rolls DEF Edge, IInv, Last
  <2> QED  BY <1>2, <2>1, EdgeReads, EdgeTyped, Counted DEF IInv, ReadSoFar
<1>3. ASSUME NEW h \in Holds, Press(h) PROVE IInv'
  <2>1. pressed' \subseteq Btn
    BY <1>3, PadAssumption DEF Press
  <2>2. TypeOK' /\ PulsesCounted'
    BY <1>3, <2>1 DEF Press, IInv, TypeOK, PulsesCounted
  <2>3. ReadSoFar'
    BY <1>3 DEF Press, IInv, ReadSoFar, TrulyNow
  <2> QED  BY <2>2, <2>3 DEF IInv
<1>4. CASE UNCHANGED vars
  BY <1>4 DEF vars, IInv, TypeOK, PulsesCounted, ReadSoFar, TrulyNow
<1> QED  BY <1>1, <1>2, <1>3, <1>4 DEF Next

\* Every variable keeps its type, and the invariant holds of the reads so far.
THEOREM Types == Spec => []TypeOK
<1>1. IInv => TypeOK
  BY DEF IInv
<1> QED  BY Initially, Inductive, <1>1, PTL DEF Spec

LEMMA ReadIsEdge ==
  ASSUME IInv, [Next]_vars, Read
  PROVE  Edge /\ step = 7
<1>1. Edge
  BY DEF Read, Next, Rest, Press, vars
<1> QED  BY <1>1, Steps, Rolls DEF Read, Edge, IInv, Last

\* BaseReadTruly, for any set of pads and however the player presses.
THEOREM BaseTruly == Spec => BaseReadTruly
<1>1. IInv /\ [Next]_vars => [Read => Truly(Base)]_vars
  <2> SUFFICES ASSUME IInv, [Next]_vars, Read PROVE Truly(Base)
    OBVIOUS
  <2>1. TrulyNow(Lows)' /\ TrulyNow(Highs)'
    BY ReadIsEdge, EdgeReads
  <2>2. Base = Lows \cup Highs
    BY DEF Base, Directions, Lows, Highs
  <2> QED  BY <2>1, <2>2 DEF Truly, TrulyNow
<1> QED  BY Initially, Inductive, <1>1, PTL DEF Spec, BaseReadTruly

\* SixReadTruly, likewise.
THEOREM SixTruly == Spec => SixReadTruly
<1>1. IInv /\ [Next]_vars => [Read /\ kind = "six" /\ began = 0 => Truly(Btn)]_vars
  <2> SUFFICES ASSUME IInv, [Next]_vars, Read, kind = "six", began = 0 PROVE Truly(Btn)
    OBVIOUS
  <2>1. Edge /\ step = 7 /\ began' = 0
    BY ReadIsEdge DEF Edge
  <2>2. TrulyNow(Lows)' /\ TrulyNow(Highs)' /\ TrulyNow(Extra)'
    BY <2>1, EdgeReads
  <2>3. Btn = Lows \cup Highs \cup Extra
    BY DEF Btn, Base, Directions, Lows, Highs
  <2> QED  BY <2>2, <2>3 DEF Truly, TrulyNow
<1> QED  BY Initially, Inductive, <1>1, PTL DEF Spec, SixReadTruly
-----------------------------------------------------------------------------
\* What the host knows of an interface, field by field, and the usages it has read.
St(page, usage, umin, umax, lmin, lmax, size, count, depth, is, fields, bits) ==
  [page |-> page, usage |-> usage, umin |-> umin, umax |-> umax, lmin |-> lmin, lmax |-> lmax,
   size |-> size, count |-> count, depth |-> depth, is |-> is, fields |-> fields, bits |-> bits]

With(us, v) == Append(us, v)
NoUse == <<>>
JoyUse == <<"joystick">>
NoneUse == <<"undefined">>
XUse == <<"X">>
XYUse == <<"X", "Y">>

\* What each kind of item changes.
LEMMA TakesGlobal ==
  ASSUME NEW pg, NEW us, NEW un, NEW ux, NEW ln, NEW lx, NEW sz, NEW ct, NEW dp, NEW s,
         NEW fs, NEW bs, NEW v
  PROVE  LET st == St(pg, us, un, ux, ln, lx, sz, ct, dp, s, fs, bs)
         IN  /\ Taken(st, Item("page", v)) = St(v, us, un, ux, ln, lx, sz, ct, dp, s, fs, bs)
             /\ Taken(st, Item("lmin", v)) = St(pg, us, un, ux, SByte(v), lx, sz, ct, dp, s, fs, bs)
             /\ Taken(st, Item("lmax", v)) = St(pg, us, un, ux, ln, SByte(v), sz, ct, dp, s, fs, bs)
             /\ Taken(st, Item("size", v)) = St(pg, us, un, ux, ln, lx, v, ct, dp, s, fs, bs)
             /\ Taken(st, Item("count", v)) = St(pg, us, un, ux, ln, lx, sz, v, dp, s, fs, bs)
BY DEF Taken, St, Item

LEMMA TakesLocal ==
  ASSUME NEW pg, NEW us, NEW un, NEW ux, NEW ln, NEW lx, NEW sz, NEW ct, NEW dp, NEW s,
         NEW fs, NEW bs, NEW v
  PROVE  LET st == St(pg, us, un, ux, ln, lx, sz, ct, dp, s, fs, bs)
         IN  /\ Taken(st, Item("umin", v)) = St(pg, us, v, ux, ln, lx, sz, ct, dp, s, fs, bs)
             /\ Taken(st, Item("umax", v)) = St(pg, us, un, v, ln, lx, sz, ct, dp, s, fs, bs)
BY DEF Taken, St, Item

LEMMA TakesOuter ==
  ASSUME NEW pg, NEW us, NEW un, NEW ux, NEW ln, NEW lx, NEW sz, NEW ct, NEW dp, NEW s,
         NEW fs, NEW bs, NEW v, NEW st,
         st = St(pg, us, un, ux, ln, lx, sz, ct, dp, s, fs, bs), dp = 0
  PROVE  Taken(st, Item("collection", v))
           = St(pg, NoUse, 0, 0, ln, lx, sz, ct, dp + 1, UsageOf(st, 1), fs, bs)
BY DEF Taken, St, Item, Local, NoUse

LEMMA TakesInner ==
  ASSUME NEW pg, NEW us, NEW un, NEW ux, NEW ln, NEW lx, NEW sz, NEW ct, NEW dp, NEW s,
         NEW fs, NEW bs, NEW v, NEW st,
         st = St(pg, us, un, ux, ln, lx, sz, ct, dp, s, fs, bs), dp # 0
  PROVE  Taken(st, Item("collection", v)) = St(pg, NoUse, 0, 0, ln, lx, sz, ct, dp + 1, s, fs, bs)
BY DEF Taken, St, Item, Local, NoUse

LEMMA TakesUsage ==
  ASSUME NEW pg, NEW us, NEW un, NEW ux, NEW ln, NEW lx, NEW sz, NEW ct, NEW dp, NEW s,
         NEW fs, NEW bs, NEW v, NEW st, NEW us2, us2 = With(us, v),
         st = St(pg, us, un, ux, ln, lx, sz, ct, dp, s, fs, bs)
  PROVE  Taken(st, Item("usage", v)) = St(pg, us2, un, ux, ln, lx, sz, ct, dp, s, fs, bs)
BY DEF Taken, St, Item, With

LEMMA TakesEnd ==
  ASSUME NEW pg, NEW us, NEW un, NEW ux, NEW ln, NEW lx, NEW sz, NEW ct, NEW dp, NEW s,
         NEW fs, NEW bs, NEW v, NEW st,
         st = St(pg, us, un, ux, ln, lx, sz, ct, dp, s, fs, bs)
  PROVE  Taken(st, Item("end", v)) = St(pg, NoUse, 0, 0, ln, lx, sz, ct, dp - 1, s, fs, bs)
BY DEF Taken, St, Item, Local, NoUse

LEMMA TakesInput ==
  ASSUME NEW pg, NEW us, NEW un, NEW ux, NEW ln, NEW lx, NEW sz, NEW ct, NEW dp, NEW s,
         NEW fs, NEW bs, NEW v, NEW st, NEW fs2, fs2 = fs \cup InputFields(st),
         st = St(pg, us, un, ux, ln, lx, sz, ct, dp, s, fs, bs)
  PROVE  Taken(st, Item("input", v))
           = St(pg, NoUse, 0, 0, ln, lx, sz, ct, dp, s, fs2, bs + ct * sz)
BY DEF Taken, St, Item, Local, NoUse

\* What the two main items of a joystick declare, and what the host knows of it after
\* n items.
ButtonFields == InputFields(St("button", NoUse, 1, 8, 0, 1, 1, 8, 2, "joystick", {}, 0))
AxisFields ==
  InputFields(St("desktop", XYUse, 0, 0, -127, 127, 8, 2, 2, "joystick", ButtonFields, 8))

AllFields == ButtonFields \cup AxisFields

JoyAt(n) ==
  St(IF n = 0 THEN "none" ELSE IF 5 <= n /\ n < 15 THEN "button" ELSE "desktop",
     IF n = 2 THEN JoyUse ELSE IF n = 16 THEN XUse
       ELSE IF 17 <= n /\ n < 22 THEN XYUse ELSE NoUse,
     IF 6 <= n /\ n < 12 THEN 1 ELSE 0,
     IF 7 <= n /\ n < 12 THEN 8 ELSE 0,
     IF 18 <= n THEN -127 ELSE 0,
     IF n < 9 THEN 0 ELSE IF n < 19 THEN 1 ELSE 127,
     IF n < 11 THEN 0 ELSE IF n < 20 THEN 1 ELSE 8,
     IF n < 10 THEN 0 ELSE IF n < 21 THEN 8 ELSE 2,
     IF n < 3 \/ n = 24 THEN 0 ELSE IF n \in {3, 13, 23} THEN 1 ELSE 2,
     IF n < 3 THEN "none" ELSE "joystick",
     IF n < 12 THEN {} ELSE IF n < 22 THEN ButtonFields ELSE AllFields,
     IF n < 12 THEN 0 ELSE IF n < 22 THEN 8 ELSE 24)

LEMMA Signs ==
  SByte(0) = 0 /\ SByte(1) = 1 /\ SByte(Byte(-127)) = -127 /\ SByte(127) = 127 /\ SByte(255) = -1
BY DEF SByte, Byte

LEMMA Appends ==
  ASSUME NEW v, NEW w
  PROVE  Append(<<>>, v) = <<v>> /\ Append(<<v>>, w) = <<v, w>>
<1>1. <<>> \in Seq({v, w}) /\ <<v>> \in Seq({v, w}) /\ <<v, w>> \in Seq({v, w})
  OBVIOUS
<1>2. Len(Append(<<>>, v)) = 1 /\ Append(<<>>, v)[1] = v /\ Append(<<>>, v) \in Seq({v, w})
  BY <1>1
<1>3. /\ Len(Append(<<v>>, w)) = 2 /\ Append(<<v>>, w)[1] = v /\ Append(<<v>>, w)[2] = w
      /\ Append(<<v>>, w) \in Seq({v, w})
  BY <1>1
<1>4. Append(<<>>, v) = <<v>>
  BY <1>1, <1>2, SeqEqual
<1>5. Append(<<v>>, w) = <<v, w>>
  <2>1. \A i \in 1 .. 2 : Append(<<v>>, w)[i] = <<v, w>>[i]
    BY <1>3
  <2> QED  BY <1>1, <1>3, <2>1, SeqEqual
<1> QED  BY <1>4, <1>5

LEMMA Usages ==
  /\ With(NoUse, "joystick") = JoyUse
  /\ With(NoUse, "undefined") = NoneUse
  /\ With(NoUse, "X") = XUse
  /\ With(XUse, "Y") = XYUse
BY Appends, Zenon DEF With, NoUse, JoyUse, NoneUse, XUse, XYUse

LEMMA JoyItems ==
  /\ Len(Joystick) = 24
  /\ Joystick[1] = Item("page", "desktop") /\ Joystick[2] = Item("usage", "joystick")
  /\ Joystick[3] = Item("collection", 0) /\ Joystick[4] = Item("collection", 0)
  /\ Joystick[5] = Item("page", "button") /\ Joystick[6] = Item("umin", 1)
  /\ Joystick[7] = Item("umax", 8) /\ Joystick[8] = Item("lmin", 0)
  /\ Joystick[9] = Item("lmax", 1) /\ Joystick[10] = Item("count", 8)
  /\ Joystick[11] = Item("size", 1) /\ Joystick[12] = Item("input", 0)
  /\ Joystick[13] = Item("end", 0) /\ Joystick[14] = Item("collection", 0)
  /\ Joystick[15] = Item("page", "desktop") /\ Joystick[16] = Item("usage", "X")
  /\ Joystick[17] = Item("usage", "Y") /\ Joystick[18] = Item("lmin", Byte(-127))
  /\ Joystick[19] = Item("lmax", 127) /\ Joystick[20] = Item("size", 8)
  /\ Joystick[21] = Item("count", 2) /\ Joystick[22] = Item("input", 0)
  /\ Joystick[23] = Item("end", 0) /\ Joystick[24] = Item("end", 0)
BY DEF Joystick

\* Item by item.
LEMMA JoySteps == \A n \in 1 .. 24 : Taken(JoyAt(n - 1), Joystick[n]) = JoyAt(n)
<1>1. Taken(JoyAt(0), Joystick[1]) = JoyAt(1)
  BY TakesGlobal, JoyItems DEF JoyAt
<1>2. Taken(JoyAt(1), Joystick[2]) = JoyAt(2)
  BY TakesUsage, Usages, JoyItems DEF JoyAt
<1>3. Taken(JoyAt(2), Joystick[3]) = JoyAt(3)
  <2>1. UsageOf(JoyAt(2), 1) = "joystick"
    BY DEF UsageOf, St, JoyAt, JoyUse
  <2> QED BY <2>1, TakesOuter, JoyItems DEF JoyAt
<1>4. Taken(JoyAt(3), Joystick[4]) = JoyAt(4)
  BY TakesInner, JoyItems DEF JoyAt
<1>5. Taken(JoyAt(4), Joystick[5]) = JoyAt(5)
  BY TakesGlobal, JoyItems DEF JoyAt
<1>6. Taken(JoyAt(5), Joystick[6]) = JoyAt(6)
  BY TakesLocal, JoyItems DEF JoyAt
<1>7. Taken(JoyAt(6), Joystick[7]) = JoyAt(7)
  BY TakesLocal, JoyItems DEF JoyAt
<1>8. Taken(JoyAt(7), Joystick[8]) = JoyAt(8)
  BY TakesGlobal, Signs, JoyItems DEF JoyAt
<1>9. Taken(JoyAt(8), Joystick[9]) = JoyAt(9)
  BY TakesGlobal, Signs, JoyItems DEF JoyAt
<1>10. Taken(JoyAt(9), Joystick[10]) = JoyAt(10)
  BY TakesGlobal, JoyItems DEF JoyAt
<1>11. Taken(JoyAt(10), Joystick[11]) = JoyAt(11)
  BY TakesGlobal, JoyItems DEF JoyAt
<1>12. Taken(JoyAt(11), Joystick[12]) = JoyAt(12)
  <2>1. ButtonFields = {} \cup InputFields(JoyAt(11))
    <3>1. InputFields(JoyAt(11)) = ButtonFields
      BY DEF ButtonFields, JoyAt
    <3> QED  BY <3>1
  <2>2. JoyAt(11) = St("button", NoUse, 1, 8, 0, 1, 1, 8, 2, "joystick", {}, 0)
    BY DEF JoyAt
  <2>3. Taken(JoyAt(11), Item("input", 0))
          = St("button", NoUse, 0, 0, 0, 1, 1, 8, 2, "joystick", ButtonFields, 0 + 8 * 1)
    BY <2>1, <2>2, TakesInput
  <2> QED  BY <2>3, JoyItems DEF JoyAt
<1>13. Taken(JoyAt(12), Joystick[13]) = JoyAt(13)
  BY TakesEnd, JoyItems DEF JoyAt
<1>14. Taken(JoyAt(13), Joystick[14]) = JoyAt(14)
  BY TakesInner, JoyItems DEF JoyAt
<1>15. Taken(JoyAt(14), Joystick[15]) = JoyAt(15)
  BY TakesGlobal, JoyItems DEF JoyAt
<1>16. Taken(JoyAt(15), Joystick[16]) = JoyAt(16)
  BY TakesUsage, Usages, JoyItems DEF JoyAt
<1>17. Taken(JoyAt(16), Joystick[17]) = JoyAt(17)
  BY TakesUsage, Usages, JoyItems DEF JoyAt
<1>18. Taken(JoyAt(17), Joystick[18]) = JoyAt(18)
  BY TakesGlobal, Signs, JoyItems DEF JoyAt
<1>19. Taken(JoyAt(18), Joystick[19]) = JoyAt(19)
  BY TakesGlobal, Signs, JoyItems DEF JoyAt
<1>20. Taken(JoyAt(19), Joystick[20]) = JoyAt(20)
  BY TakesGlobal, JoyItems DEF JoyAt
<1>21. Taken(JoyAt(20), Joystick[21]) = JoyAt(21)
  BY TakesGlobal, JoyItems DEF JoyAt
<1>22. Taken(JoyAt(21), Joystick[22]) = JoyAt(22)
  <2>1. AllFields = ButtonFields \cup InputFields(JoyAt(21))
    BY DEF AxisFields, AllFields, JoyAt
  <2> QED  BY <2>1, TakesInput, JoyItems DEF JoyAt
<1>23. Taken(JoyAt(22), Joystick[23]) = JoyAt(23)
  BY TakesEnd, JoyItems DEF JoyAt
<1>24. Taken(JoyAt(23), Joystick[24]) = JoyAt(24)
  BY TakesEnd, JoyItems DEF JoyAt
<1> QED  BY <1>1, <1>2, <1>3, <1>4, <1>5, <1>6, <1>7, <1>8, <1>9, <1>10, <1>11, <1>12, <1>13,
            <1>14, <1>15, <1>16, <1>17, <1>18, <1>19, <1>20, <1>21, <1>22, <1>23, <1>24

\* The numbers in their order, which has a least element in every set.
Before == {p \in Nat \X Nat : p[1] < p[2]}

\* Two functions that agree at 0, and at k when they agree at k - 1, agree.
LEMMA Determined ==
  ASSUME NEW L \in Nat, NEW f, NEW g, f[0] = g[0],
         \A k \in 1 .. L : f[k - 1] = g[k - 1] => f[k] = g[k]
  PROVE  f[L] = g[L]
<1> DEFINE T == {k \in 0 .. L : f[k] # g[k]}
<1> SUFFICES ASSUME T # {} PROVE FALSE
  OBVIOUS
<1>1. IsWellFoundedOn(Before, Nat)
  BY NatLessThanWellFounded DEF OpToRel, Before
<1>2. T \subseteq Nat
  OBVIOUS
<1>3. PICK k \in T : \A j \in T : ~ (<<j, k>> \in Before)
  BY <1>1, <1>2, WFMin
<1>4. k \in 1 .. L /\ k - 1 \in 0 .. L /\ <<k - 1, k>> \in Before
  BY <1>3 DEF Before
<1>5. f[k - 1] = g[k - 1]
  BY <1>3, <1>4
<1> QED  BY <1>3, <1>4, <1>5

\* A function that obeys the parser's equation is what it knows after each item.
LEMMA Parses ==
  ASSUME NEW d, Len(d) \in Nat, NEW T, NEW t \in [0 .. Len(d) -> T],
         t[0] = Fresh, \A n \in 1 .. Len(d) : t[n] = Taken(t[n - 1], d[n])
  PROVE  Parsed(d)[Len(d)] = t[Len(d)]
<1> DEFINE Turn(f) == [n \in 0 .. Len(d) |-> IF n = 0 THEN Fresh ELSE Taken(f[n - 1], d[n])]
           parsed == CHOOSE f : f = Turn(f)
<1>1. Parsed(d) = parsed
  BY DEF Parsed
<1>2. t = Turn(t)
  OBVIOUS
<1>3. parsed = Turn(parsed)
  BY <1>2
<1> HIDE DEF parsed
<1>4. \A n \in 0 .. Len(d) : parsed[n] = IF n = 0 THEN Fresh ELSE Taken(parsed[n - 1], d[n])
  BY <1>3
<1>5. parsed[0] = t[0] /\ \A n \in 1 .. Len(d) : parsed[n - 1] = t[n - 1] => parsed[n] = t[n]
  BY <1>4
<1>6. parsed[Len(d)] = t[Len(d)]
  BY <1>5, Determined
<1> QED  BY <1>1, <1>6

LEMMA JoystickParsed == Parsed(Joystick)[24] = JoyAt(24)
<1> DEFINE t == [n \in 0 .. 24 |-> JoyAt(n)]
<1>1. t[0] = Fresh
  BY DEF JoyAt, St, Fresh, NoUse
<1>2. \A n \in 1 .. 24 : t[n] = Taken(t[n - 1], Joystick[n])
  BY JoySteps
<1>3. t \in [0 .. 24 -> {JoyAt(n) : n \in 0 .. 24}] /\ t[24] = JoyAt(24)
  OBVIOUS
<1>4. Len(Joystick) = 24 /\ 24 \in Nat
  BY JoyItems
<1> HIDE DEF t
<1>5. Parsed(Joystick)[Len(Joystick)] = t[Len(Joystick)]
  BY <1>1, <1>2, <1>3, <1>4, Parses
<1> QED  BY <1>3, <1>4, <1>5

\* Digits: what division leaves.
LEMMA Powers ==
  /\ 2 ^ 0 = 1 /\ 2 ^ 1 = 2 /\ 2 ^ 2 = 4 /\ 2 ^ 3 = 8 /\ 2 ^ 4 = 16 /\ 2 ^ 5 = 32
  /\ 2 ^ 6 = 64 /\ 2 ^ 7 = 128 /\ 2 ^ 8 = 256 /\ 2 ^ 16 = 65536
OBVIOUS

LEMMA Quotients ==
  ASSUME NEW q \in Nat, NEW r \in Nat
  PROVE  /\ r < 2 => (2 * q + r) \div 2 = q
         /\ r < 4 => (4 * q + r) \div 4 = q
         /\ r < 8 => (8 * q + r) \div 8 = q
         /\ r < 16 => (16 * q + r) \div 16 = q
         /\ r < 32 => (32 * q + r) \div 32 = q
         /\ r < 64 => (64 * q + r) \div 64 = q
         /\ r < 128 => (128 * q + r) \div 128 = q
         /\ r < 256 => (256 * q + r) \div 256 = q
         /\ r < 65536 => (65536 * q + r) \div 65536 = q
<1>1. r < 2 => (2 * q + r) \div 2 = q
  OBVIOUS
<1>2. r < 4 => (4 * q + r) \div 4 = q
  OBVIOUS
<1>3. r < 8 => (8 * q + r) \div 8 = q
  OBVIOUS
<1>4. r < 16 => (16 * q + r) \div 16 = q
  OBVIOUS
<1>5. r < 32 => (32 * q + r) \div 32 = q
  OBVIOUS
<1>6. r < 64 => (64 * q + r) \div 64 = q
  OBVIOUS
<1>7. r < 128 => (128 * q + r) \div 128 = q
  OBVIOUS
<1>8. r < 256 => (256 * q + r) \div 256 = q
  OBVIOUS
<1>9. r < 65536 => (65536 * q + r) \div 65536 = q
  OBVIOUS
<1> QED  BY <1>1, <1>2, <1>3, <1>4, <1>5, <1>6, <1>7, <1>8, <1>9

LEMMA Remainders ==
  ASSUME NEW q \in Nat, NEW r \in Nat
  PROVE  (r < 2 => (2 * q + r) % 2 = r) /\ (r < 256 => (256 * q + r) % 256 = r)
OBVIOUS

\* The configuration's descriptor declares no field.
ConfigAt(n) ==
  St(IF n = 0 THEN "none" ELSE "device", IF n \in {2, 8} THEN NoneUse ELSE NoUse,
     0, 0, 0, IF n < 5 THEN 0 ELSE -1, IF n < 6 THEN 0 ELSE 8, IF n < 7 THEN 0 ELSE 64,
     IF n \in 3 .. 8 THEN 1 ELSE 0, IF n < 3 THEN "none" ELSE "undefined", {}, 0)

LEMMA ConfigItems ==
  /\ Len(Config) = 9
  /\ Config[1] = Item("page", "device") /\ Config[2] = Item("usage", "undefined")
  /\ Config[3] = Item("collection", 0) /\ Config[4] = Item("lmin", 0)
  /\ Config[5] = Item("lmax", 255) /\ Config[6] = Item("size", 8)
  /\ Config[7] = Item("count", 64) /\ Config[8] = Item("usage", "undefined")
  /\ Config[9] = Item("end", 0)
BY DEF Config

LEMMA ConfigSteps == \A n \in 1 .. 9 : Taken(ConfigAt(n - 1), Config[n]) = ConfigAt(n)
<1>1. Taken(ConfigAt(0), Config[1]) = ConfigAt(1)
  BY TakesGlobal, ConfigItems DEF ConfigAt
<1>2. Taken(ConfigAt(1), Config[2]) = ConfigAt(2)
  BY TakesUsage, Usages, ConfigItems DEF ConfigAt
<1>3. Taken(ConfigAt(2), Config[3]) = ConfigAt(3)
  <2>1. UsageOf(ConfigAt(2), 1) = "undefined"
    BY DEF UsageOf, St, ConfigAt, NoneUse
  <2> QED  BY <2>1, TakesOuter, ConfigItems DEF ConfigAt
<1>4. Taken(ConfigAt(3), Config[4]) = ConfigAt(4)
  BY TakesGlobal, Signs, ConfigItems DEF ConfigAt
<1>5. Taken(ConfigAt(4), Config[5]) = ConfigAt(5)
  BY TakesGlobal, Signs, ConfigItems DEF ConfigAt
<1>6. Taken(ConfigAt(5), Config[6]) = ConfigAt(6)
  BY TakesGlobal, ConfigItems DEF ConfigAt
<1>7. Taken(ConfigAt(6), Config[7]) = ConfigAt(7)
  BY TakesGlobal, ConfigItems DEF ConfigAt
<1>8. Taken(ConfigAt(7), Config[8]) = ConfigAt(8)
  BY TakesUsage, Usages, ConfigItems DEF ConfigAt
<1>9. Taken(ConfigAt(8), Config[9]) = ConfigAt(9)
  BY TakesEnd, ConfigItems DEF ConfigAt
<1> QED  BY <1>1, <1>2, <1>3, <1>4, <1>5, <1>6, <1>7, <1>8, <1>9

LEMMA ConfigParsed == Parsed(Config)[9] = ConfigAt(9)
<1> DEFINE t == [n \in 0 .. 9 |-> ConfigAt(n)]
<1>1. t[0] = Fresh
  BY DEF ConfigAt, St, Fresh, NoUse
<1>2. \A n \in 1 .. 9 : t[n] = Taken(t[n - 1], Config[n])
  BY ConfigSteps
<1>3. t \in [0 .. 9 -> {ConfigAt(n) : n \in 0 .. 9}] /\ t[9] = ConfigAt(9)
  OBVIOUS
<1>4. Len(Config) = 9 /\ 9 \in Nat
  BY ConfigItems
<1> HIDE DEF t
<1>5. Parsed(Config)[Len(Config)] = t[Len(Config)]
  BY <1>1, <1>2, <1>3, <1>4, Parses
<1> QED  BY <1>3, <1>4, <1>5

\* All that the host needs to know of the interfaces.
LEMMA HostKnows ==
  /\ \A i \in Pads : Known(i) = JoyAt(24)
  /\ Known(4) = ConfigAt(9)
<1>1. ASSUME NEW i \in Pads PROVE Known(i) = JoyAt(24)
  <2>1. ReportDescriptor(i) = Joystick
    BY DEF Pads, ReportDescriptor
  <2>2. Known(i) = Parsed(Joystick)[Len(Joystick)]
    BY <2>1 DEF Known
  <2> QED  BY <2>2, JoystickParsed, JoyItems
<1>2. Known(4) = ConfigAt(9)
  <2>1. ReportDescriptor(4) = Config
    BY DEF ReportDescriptor
  <2>2. Known(4) = Parsed(Config)[Len(Config)]
    BY <2>1 DEF Known
  <2> QED  BY <2>2, ConfigParsed, ConfigItems
<1> QED  BY <1>1, <1>2

Field(page, usage, at, size, signed) ==
  [page |-> page, usage |-> usage, at |-> at, size |-> size, signed |-> signed]

\* Where the fields are in the report.
LEMMA FieldsAre ==
  /\ ButtonFields = {Field("button", k, k - 1, 1, FALSE) : k \in 1 .. 8}
  /\ AxisFields = {Field("desktop", "X", 8, 8, TRUE), Field("desktop", "Y", 16, 8, TRUE)}
<1>1. ButtonFields = {Field("button", k, k - 1, 1, FALSE) : k \in 1 .. 8}
  <2> DEFINE st == St("button", NoUse, 1, 8, 0, 1, 1, 8, 2, "joystick", {}, 0)
  <2>1. \A k \in 1 .. 8 : UsageOf(st, k) = k
    BY DEF UsageOf, St, NoUse
  <2>2. /\ st.page = "button" /\ st.bits = 0 /\ st.size = 1 /\ st.lmin = 0
        /\ (0 < 0) = FALSE /\ \A k \in 1 .. 8 : 0 + (k - 1) * 1 = k - 1
    BY DEF St
  <2>3. \A k \in 1 .. 8 :
          [page |-> st.page, usage |-> UsageOf(st, k), at |-> st.bits + (k - 1) * st.size,
           size |-> st.size, signed |-> st.lmin < 0] = Field("button", k, k - 1, 1, FALSE)
    <3> HIDE DEF st
    <3> QED  BY <2>1, <2>2 DEF Field
  <2>4. st.count = 8
    BY DEF St
  <2> HIDE DEF st
  <2>5. InputFields(st) = {Field("button", k, k - 1, 1, FALSE) : k \in 1 .. 8}
    BY <2>3, <2>4 DEF InputFields
  <2> QED  BY <2>5 DEF st, ButtonFields
<1>2. AxisFields = {Field("desktop", "X", 8, 8, TRUE), Field("desktop", "Y", 16, 8, TRUE)}
  <2> DEFINE st == St("desktop", XYUse, 0, 0, -127, 127, 8, 2, 2, "joystick", ButtonFields, 8)
             F(k) == [page |-> st.page, usage |-> UsageOf(st, k),
                      at |-> st.bits + (k - 1) * st.size, size |-> st.size, signed |-> st.lmin < 0]
  <2>1. UsageOf(st, 1) = "X" /\ UsageOf(st, 2) = "Y"
    BY DEF UsageOf, St, XYUse
  <2>2. /\ st.page = "desktop" /\ st.bits = 8 /\ st.size = 8 /\ st.lmin = -127
        /\ (-127 < 0) = TRUE /\ 8 + (1 - 1) * 8 = 8 /\ 8 + (2 - 1) * 8 = 16
    BY DEF St
  <2>3. F(1) = Field("desktop", "X", 8, 8, TRUE) /\ F(2) = Field("desktop", "Y", 16, 8, TRUE)
    <3> HIDE DEF st
    <3> QED  BY <2>1, <2>2 DEF Field
  <2>4. st.count = 2
    BY DEF St
  <2>5. InputFields(st) = {F(k) : k \in 1 .. 2}
    BY <2>4 DEF InputFields
  <2> HIDE DEF F
  <2>6. {F(k) : k \in 1 .. 2} = {F(1), F(2)}
    OBVIOUS
  <2> QED  BY <2>3, <2>5, <2>6 DEF AxisFields
<1> QED  BY <1>1, <1>2

\* What the bits of the report are worth, one after the other.
LEMMA Bits ==
  /\ DOMAIN Bit = {"A", "B", "C", "X", "Y", "Z", "START", "MODE"}
  /\ Bit["A"] = 0 /\ Bit["B"] = 1 /\ Bit["C"] = 2 /\ Bit["X"] = 3
  /\ Bit["Y"] = 4 /\ Bit["Z"] = 5 /\ Bit["START"] = 6 /\ Bit["MODE"] = 7
BY DEF Bit

\* The report as one number, from the buttons.
Number(S) ==
  Does(S, "A") + 2 * Does(S, "B") + 4 * Does(S, "C") + 8 * Does(S, "X") + 16 * Does(S, "Y")
    + 32 * Does(S, "Z") + 64 * Does(S, "START") + 128 * Does(S, "MODE")
    + 256 * Byte(Macros!ReportOf(S).x) + 65536 * Byte(Macros!ReportOf(S).y)

\* It is the number that the host makes of the bytes.
LEMMA NumberIs ==
  ASSUME NEW S
  PROVE  Whole(Bytes(Macros!ReportOf(S))) = Number(S)
<1> DEFINE r == Macros!ReportOf(S)
           V(b) == IF b \in r.buttons THEN 2 ^ Bit[b] ELSE 0
<1>1. \A b \in DOMAIN Bit : b \in r.buttons <=> b \in S
  BY Bits DEF Macros!ReportOf
<1>2. /\ V("A") = Does(S, "A") /\ V("B") = 2 * Does(S, "B") /\ V("C") = 4 * Does(S, "C")
      /\ V("X") = 8 * Does(S, "X") /\ V("Y") = 16 * Does(S, "Y") /\ V("Z") = 32 * Does(S, "Z")
      /\ V("START") = 64 * Does(S, "START") /\ V("MODE") = 128 * Does(S, "MODE")
  BY <1>1, Bits, Powers DEF Does
<1>3. /\ Bytes(r)[1] = V("A") + V("B") + V("C") + V("X") + V("Y") + V("Z") + V("START") + V("MODE")
      /\ Bytes(r)[2] = Byte(r.x) /\ Bytes(r)[3] = Byte(r.y)
  BY DEF Bytes
<1>4. Byte(r.x) \in Int /\ Byte(r.y) \in Int
  BY DEF Byte, Macros!ReportOf, Macros!AxisX, Macros!AxisY
<1>5. \A b : Does(S, b) \in Nat
  BY DEF Does
<1> HIDE DEF r, V
<1> QED  BY <1>2, <1>3, <1>4, <1>5 DEF Number, Whole, r

\* Two's complement there and back.
LEMMA Axes ==
  ASSUME NEW S
  PROVE  LET r == Macros!ReportOf(S)
             x == IF "LEFT" \in S THEN -1 ELSE Does(S, "RIGHT")
             y == IF "UP" \in S THEN -1 ELSE Does(S, "DOWN")
         IN  /\ Byte(r.x) \in 0 .. 255 /\ Byte(r.y) \in 0 .. 255
             /\ SByte(Byte(r.x)) = 127 * x /\ SByte(Byte(r.y)) = 127 * y
<1>1. /\ Byte(-127) = 129 /\ Byte(127) = 127 /\ Byte(0) = 0
      /\ SByte(129) = -127 /\ SByte(127) = 127 /\ SByte(0) = 0
  BY DEF Byte, SByte
<1>2. CASE "LEFT" \in S
  BY <1>1, <1>2 DEF Macros!ReportOf, Macros!AxisX, Macros!AxisY, Does
<1>3. CASE "LEFT" \notin S
  BY <1>1, <1>3 DEF Macros!ReportOf, Macros!AxisX, Macros!AxisY, Does
<1> QED  BY <1>2, <1>3

\* Each bit and byte of the number.
LEMMA Digits ==
  ASSUME NEW S
  PROVE  LET n == Number(S)
         IN  /\ (n \div 1) % 2 = Does(S, "A") /\ (n \div 2) % 2 = Does(S, "B")
             /\ (n \div 4) % 2 = Does(S, "C") /\ (n \div 8) % 2 = Does(S, "X")
             /\ (n \div 16) % 2 = Does(S, "Y") /\ (n \div 32) % 2 = Does(S, "Z")
             /\ (n \div 64) % 2 = Does(S, "START") /\ (n \div 128) % 2 = Does(S, "MODE")
             /\ (n \div 256) % 256 = Byte(Macros!ReportOf(S).x)
             /\ (n \div 65536) % 256 = Byte(Macros!ReportOf(S).y)
<1> DEFINE n == Number(S)
           b0 == Does(S, "A")
           b1 == Does(S, "B")
           b2 == Does(S, "C")
           b3 == Does(S, "X")
           b4 == Does(S, "Y")
           b5 == Does(S, "Z")
           b6 == Does(S, "START")
           b7 == Does(S, "MODE")
           x == Byte(Macros!ReportOf(S).x)
           y == Byte(Macros!ReportOf(S).y)
           q8 == x + 256 * y
           q7 == b7 + 2 * q8
           q6 == b6 + 2 * q7
           q5 == b5 + 2 * q6
           q4 == b4 + 2 * q5
           q3 == b3 + 2 * q4
           q2 == b2 + 2 * q3
           q1 == b1 + 2 * q2
           q0 == b0 + 2 * q1
<1>1. \A b : Does(S, b) \in Nat /\ Does(S, b) < 2
  BY DEF Does
<1>2. x \in Nat /\ x < 256 /\ y \in Nat /\ y < 256
  BY Axes
<1>3. n = b0 + 2 * b1 + 4 * b2 + 8 * b3 + 16 * b4 + 32 * b5 + 64 * b6 + 128 * b7
            + 256 * x + 65536 * y
  BY DEF Number
<1>4. /\ b0 \in Nat /\ b0 < 2 /\ b1 \in Nat /\ b1 < 2 /\ b2 \in Nat /\ b2 < 2
      /\ b3 \in Nat /\ b3 < 2 /\ b4 \in Nat /\ b4 < 2 /\ b5 \in Nat /\ b5 < 2
      /\ b6 \in Nat /\ b6 < 2 /\ b7 \in Nat /\ b7 < 2
  BY <1>1
<1> HIDE DEF n, b0, b1, b2, b3, b4, b5, b6, b7, x, y
<1>5. n = q0 /\ n \in Nat /\ n \div 1 = n
  BY <1>2, <1>3, <1>4
<1>6. (n \div 1) % 2 = b0
  <2>1. n = 2 * q1 + b0 /\ q1 \in Nat /\ b0 \in Nat /\ b0 < 2
    BY <1>2, <1>3, <1>4
  <2> HIDE DEF q1
  <2> QED  BY <1>5, <2>1, Remainders
<1>7. (n \div 2) % 2 = b1
  <2> DEFINE r == 0 + 1 * b0
  <2>1. n = 2 * q1 + r /\ q1 \in Nat /\ r \in Nat /\ r < 2
    BY <1>2, <1>3, <1>4
  <2>2. q1 = 2 * q2 + b1 /\ q2 \in Nat /\ b1 \in Nat /\ b1 < 2
    BY <1>2, <1>3, <1>4
  <2> HIDE DEF q1, q2, r
  <2>3. n \div 2 = q1
    BY <2>1, Quotients
  <2> QED  BY <2>2, <2>3, Remainders
<1>8. (n \div 4) % 2 = b2
  <2> DEFINE r == 0 + 1 * b0 + 2 * b1
  <2>1. n = 4 * q2 + r /\ q2 \in Nat /\ r \in Nat /\ r < 4
    BY <1>2, <1>3, <1>4
  <2>2. q2 = 2 * q3 + b2 /\ q3 \in Nat /\ b2 \in Nat /\ b2 < 2
    BY <1>2, <1>3, <1>4
  <2> HIDE DEF q2, q3, r
  <2>3. n \div 4 = q2
    BY <2>1, Quotients
  <2> QED  BY <2>2, <2>3, Remainders
<1>9. (n \div 8) % 2 = b3
  <2> DEFINE r == 0 + 1 * b0 + 2 * b1 + 4 * b2
  <2>1. n = 8 * q3 + r /\ q3 \in Nat /\ r \in Nat /\ r < 8
    BY <1>2, <1>3, <1>4
  <2>2. q3 = 2 * q4 + b3 /\ q4 \in Nat /\ b3 \in Nat /\ b3 < 2
    BY <1>2, <1>3, <1>4
  <2> HIDE DEF q3, q4, r
  <2>3. n \div 8 = q3
    BY <2>1, Quotients
  <2> QED  BY <2>2, <2>3, Remainders
<1>10. (n \div 16) % 2 = b4
  <2> DEFINE r == 0 + 1 * b0 + 2 * b1 + 4 * b2 + 8 * b3
  <2>1. n = 16 * q4 + r /\ q4 \in Nat /\ r \in Nat /\ r < 16
    BY <1>2, <1>3, <1>4
  <2>2. q4 = 2 * q5 + b4 /\ q5 \in Nat /\ b4 \in Nat /\ b4 < 2
    BY <1>2, <1>3, <1>4
  <2> HIDE DEF q4, q5, r
  <2>3. n \div 16 = q4
    BY <2>1, Quotients
  <2> QED  BY <2>2, <2>3, Remainders
<1>11. (n \div 32) % 2 = b5
  <2> DEFINE r == 0 + 1 * b0 + 2 * b1 + 4 * b2 + 8 * b3 + 16 * b4
  <2>1. n = 32 * q5 + r /\ q5 \in Nat /\ r \in Nat /\ r < 32
    BY <1>2, <1>3, <1>4
  <2>2. q5 = 2 * q6 + b5 /\ q6 \in Nat /\ b5 \in Nat /\ b5 < 2
    BY <1>2, <1>3, <1>4
  <2> HIDE DEF q5, q6, r
  <2>3. n \div 32 = q5
    BY <2>1, Quotients
  <2> QED  BY <2>2, <2>3, Remainders
<1>12. (n \div 64) % 2 = b6
  <2> DEFINE r == 0 + 1 * b0 + 2 * b1 + 4 * b2 + 8 * b3 + 16 * b4 + 32 * b5
  <2>1. n = 64 * q6 + r /\ q6 \in Nat /\ r \in Nat /\ r < 64
    BY <1>2, <1>3, <1>4
  <2>2. q6 = 2 * q7 + b6 /\ q7 \in Nat /\ b6 \in Nat /\ b6 < 2
    BY <1>2, <1>3, <1>4
  <2> HIDE DEF q6, q7, r
  <2>3. n \div 64 = q6
    BY <2>1, Quotients
  <2> QED  BY <2>2, <2>3, Remainders
<1>13. (n \div 128) % 2 = b7
  <2> DEFINE r == 0 + 1 * b0 + 2 * b1 + 4 * b2 + 8 * b3 + 16 * b4 + 32 * b5 + 64 * b6
  <2>1. n = 128 * q7 + r /\ q7 \in Nat /\ r \in Nat /\ r < 128
    BY <1>2, <1>3, <1>4
  <2>2. q7 = 2 * q8 + b7 /\ q8 \in Nat /\ b7 \in Nat /\ b7 < 2
    BY <1>2, <1>3, <1>4
  <2> HIDE DEF q7, q8, r
  <2>3. n \div 128 = q7
    BY <2>1, Quotients
  <2> QED  BY <2>2, <2>3, Remainders
<1>14. (n \div 256) % 256 = x
  <2> DEFINE r == b0 + 2 * b1 + 4 * b2 + 8 * b3 + 16 * b4 + 32 * b5 + 64 * b6 + 128 * b7
  <2>1. n = 256 * q8 + r /\ q8 \in Nat /\ r \in Nat /\ r < 256
    BY <1>2, <1>3, <1>4
  <2>2. q8 = 256 * y + x /\ x \in Nat /\ x < 256 /\ y \in Nat
    BY <1>2, <1>3, <1>4
  <2> HIDE DEF q8, r
  <2>3. n \div 256 = q8
    BY <2>1, Quotients
  <2> QED  BY <2>2, <2>3, Remainders
<1>15. (n \div 65536) % 256 = y
  <2> DEFINE r == b0 + 2 * b1 + 4 * b2 + 8 * b3 + 16 * b4 + 32 * b5 + 64 * b6 + 128 * b7 + 256 * x
  <2>1. n = 65536 * y + r /\ y \in Nat /\ y < 256 /\ r \in Nat /\ r < 65536
    BY <1>2, <1>3, <1>4
  <2>2. y = 256 * 0 + y
    BY <1>2, <1>3, <1>4
  <2> HIDE DEF r
  <2>3. n \div 65536 = y
    BY <2>1, Quotients
  <2> QED  BY <2>1, <2>2, <2>3, Remainders
<1> QED  BY <1>6, <1>7, <1>8, <1>9, <1>10, <1>11, <1>12, <1>13, <1>14, <1>15
         DEF n, b0, b1, b2, b3, b4, b5, b6, b7, x, y

\* The value of a field, by where it is.
LEMMA BitValues ==
  ASSUME NEW n, NEW f, f.size = 1, f.signed = FALSE
  PROVE  /\ f.at = 0 => Value(n, f) = (n \div 1) % 2
         /\ f.at = 1 => Value(n, f) = (n \div 2) % 2
         /\ f.at = 2 => Value(n, f) = (n \div 4) % 2
         /\ f.at = 3 => Value(n, f) = (n \div 8) % 2
         /\ f.at = 4 => Value(n, f) = (n \div 16) % 2
         /\ f.at = 5 => Value(n, f) = (n \div 32) % 2
         /\ f.at = 6 => Value(n, f) = (n \div 64) % 2
         /\ f.at = 7 => Value(n, f) = (n \div 128) % 2
<1>0. f.at = 0 => Value(n, f) = (n \div 1) % 2
  BY DEF Value
<1>1. f.at = 1 => Value(n, f) = (n \div 2) % 2
  BY DEF Value
<1>2. f.at = 2 => Value(n, f) = (n \div 4) % 2
  BY DEF Value
<1>3. f.at = 3 => Value(n, f) = (n \div 8) % 2
  BY DEF Value
<1>4. f.at = 4 => Value(n, f) = (n \div 16) % 2
  BY DEF Value
<1>5. f.at = 5 => Value(n, f) = (n \div 32) % 2
  BY DEF Value
<1>6. f.at = 6 => Value(n, f) = (n \div 64) % 2
  BY DEF Value
<1>7. f.at = 7 => Value(n, f) = (n \div 128) % 2
  BY DEF Value
<1> QED  BY <1>0, <1>1, <1>2, <1>3, <1>4, <1>5, <1>6, <1>7

\* What the host finds in each field.
LEMMA ValuesAre ==
  ASSUME NEW S
  PROVE  LET n == Number(S)
             V(k) == Value(n, Field("button", k, k - 1, 1, FALSE))
         IN  /\ V(1) = Does(S, "A") /\ V(2) = Does(S, "B") /\ V(3) = Does(S, "C")
             /\ V(4) = Does(S, "X") /\ V(5) = Does(S, "Y") /\ V(6) = Does(S, "Z")
             /\ V(7) = Does(S, "START") /\ V(8) = Does(S, "MODE")
             /\ Value(n, Field("desktop", "X", 8, 8, TRUE))
                  = 127 * (IF "LEFT" \in S THEN -1 ELSE Does(S, "RIGHT"))
             /\ Value(n, Field("desktop", "Y", 16, 8, TRUE))
                  = 127 * (IF "UP" \in S THEN -1 ELSE Does(S, "DOWN"))
<1> DEFINE n == Number(S)
           B(k) == Field("button", k, k - 1, 1, FALSE)
           X == Field("desktop", "X", 8, 8, TRUE)
           Y == Field("desktop", "Y", 16, 8, TRUE)
<1>2. \A k \in 1 .. 8 : B(k).at = k - 1 /\ B(k).size = 1 /\ B(k).signed = FALSE
  BY DEF Field
<1>3. /\ X.at = 8 /\ X.size = 8 /\ X.signed = TRUE
      /\ Y.at = 16 /\ Y.size = 8 /\ Y.signed = TRUE
  BY DEF Field
<1> HIDE DEF n, B, X, Y
<1>4. Value(n, B(1)) = Does(S, "A")
  <2>1. B(1).at = 0 /\ B(1).size = 1 /\ B(1).signed = FALSE
    BY <1>2
  <2>2. Value(n, B(1)) = (n \div 1) % 2
    BY <2>1, BitValues, Zenon
  <2> QED  BY <2>2, Digits DEF n
<1>5. Value(n, B(2)) = Does(S, "B")
  <2>1. B(2).at = 1 /\ B(2).size = 1 /\ B(2).signed = FALSE
    BY <1>2
  <2>2. Value(n, B(2)) = (n \div 2) % 2
    BY <2>1, BitValues, Zenon
  <2> QED  BY <2>2, Digits DEF n
<1>6. Value(n, B(3)) = Does(S, "C")
  <2>1. B(3).at = 2 /\ B(3).size = 1 /\ B(3).signed = FALSE
    BY <1>2
  <2>2. Value(n, B(3)) = (n \div 4) % 2
    BY <2>1, BitValues, Zenon
  <2> QED  BY <2>2, Digits DEF n
<1>7. Value(n, B(4)) = Does(S, "X")
  <2>1. B(4).at = 3 /\ B(4).size = 1 /\ B(4).signed = FALSE
    BY <1>2
  <2>2. Value(n, B(4)) = (n \div 8) % 2
    BY <2>1, BitValues, Zenon
  <2> QED  BY <2>2, Digits DEF n
<1>8. Value(n, B(5)) = Does(S, "Y")
  <2>1. B(5).at = 4 /\ B(5).size = 1 /\ B(5).signed = FALSE
    BY <1>2
  <2>2. Value(n, B(5)) = (n \div 16) % 2
    BY <2>1, BitValues, Zenon
  <2> QED  BY <2>2, Digits DEF n
<1>9. Value(n, B(6)) = Does(S, "Z")
  <2>1. B(6).at = 5 /\ B(6).size = 1 /\ B(6).signed = FALSE
    BY <1>2
  <2>2. Value(n, B(6)) = (n \div 32) % 2
    BY <2>1, BitValues, Zenon
  <2> QED  BY <2>2, Digits DEF n
<1>10. Value(n, B(7)) = Does(S, "START")
  <2>1. B(7).at = 6 /\ B(7).size = 1 /\ B(7).signed = FALSE
    BY <1>2
  <2>2. Value(n, B(7)) = (n \div 64) % 2
    BY <2>1, BitValues, Zenon
  <2> QED  BY <2>2, Digits DEF n
<1>11. Value(n, B(8)) = Does(S, "MODE")
  <2>1. B(8).at = 7 /\ B(8).size = 1 /\ B(8).signed = FALSE
    BY <1>2
  <2>2. Value(n, B(8)) = (n \div 128) % 2
    BY <2>1, BitValues, Zenon
  <2> QED  BY <2>2, Digits DEF n
<1>12. Value(n, X) = SByte(Byte(Macros!ReportOf(S).x))
  <2>1. X.at = 8 /\ X.size = 8 /\ X.signed = TRUE
    BY <1>3
  <2>2. Value(n, X) = SByte((n \div 256) % 256)
    BY <2>1, SMT DEF Value, SByte
  <2> QED  BY <2>2, Digits DEF n
<1>13. Value(n, Y) = SByte(Byte(Macros!ReportOf(S).y))
  <2>1. Y.at = 16 /\ Y.size = 8 /\ Y.signed = TRUE
    BY <1>3
  <2>2. Value(n, Y) = SByte((n \div 65536) % 256)
    BY <2>1, SMT DEF Value, SByte
  <2> QED  BY <2>2, Digits DEF n
<1> QED  BY <1>4, <1>5, <1>6, <1>7, <1>8, <1>9, <1>10, <1>11, <1>12, <1>13, Axes DEF n, B, X, Y

\* The host takes from a joystick's report what the player means.
LEMMA JoystickSeen ==
  ASSUME NEW S, NEW i \in Pads
  PROVE  Decoded(i, Bytes(Macros!ReportOf(S))) = Meant(S)
<1> DEFINE bytes == Bytes(Macros!ReportOf(S))
           n == Number(S)
           V(f) == <<f.page, f.usage, Value(n, f)>>
           B(k) == Field("button", k, k - 1, 1, FALSE)
           X == Field("desktop", "X", 8, 8, TRUE)
           Y == Field("desktop", "Y", 16, 8, TRUE)
<1>1. /\ Known(i).is = "joystick" /\ Known(i).depth = 0 /\ Known(i).bits = 24
      /\ Known(i).fields = AllFields
  BY HostKnows DEF JoyAt, St
<1>2. Decoded(i, bytes) = {V(f) : f \in AllFields}
  BY <1>1, NumberIs DEF Decoded, MaxPacket
<1>3. AllFields = {B(1), B(2), B(3), B(4), B(5), B(6), B(7), B(8), X, Y}
  <2>1. ButtonFields = {B(k) : k \in 1 .. 8}
    BY FieldsAre
  <2> HIDE DEF B
  <2>2. {B(k) : k \in 1 .. 8} = {B(1), B(2), B(3), B(4), B(5), B(6), B(7), B(8)}
    <3>1. \A k \in 1 .. 8 : k \in {1, 2, 3, 4, 5, 6, 7, 8}
      OBVIOUS
    <3> QED  BY <3>1
  <2> QED  BY <2>1, <2>2, FieldsAre DEF AllFields
<1>4. \A k \in 1 .. 8 : V(B(k)) = <<"button", k, Value(n, B(k))>>
  BY DEF Field
<1>5. V(X) = <<"desktop", "X", Value(n, X)>> /\ V(Y) = <<"desktop", "Y", Value(n, Y)>>
  BY DEF Field
<1>6. /\ Value(n, B(1)) = Does(S, "A") /\ Value(n, B(2)) = Does(S, "B")
      /\ Value(n, B(3)) = Does(S, "C") /\ Value(n, B(4)) = Does(S, "X")
      /\ Value(n, B(5)) = Does(S, "Y") /\ Value(n, B(6)) = Does(S, "Z")
      /\ Value(n, B(7)) = Does(S, "START") /\ Value(n, B(8)) = Does(S, "MODE")
      /\ Value(n, X) = 127 * (IF "LEFT" \in S THEN -1 ELSE Does(S, "RIGHT"))
      /\ Value(n, Y) = 127 * (IF "UP" \in S THEN -1 ELSE Does(S, "DOWN"))
  BY ValuesAre
<1> HIDE DEF B, X, Y, V, bytes, n
<1>7. {V(f) : f \in AllFields}
        = {V(B(1)), V(B(2)), V(B(3)), V(B(4)), V(B(5)), V(B(6)), V(B(7)), V(B(8)), V(X), V(Y)}
  BY <1>3
<1>8. /\ V(B(1)) = <<"button", 1, Does(S, "A")>> /\ V(B(2)) = <<"button", 2, Does(S, "B")>>
      /\ V(B(3)) = <<"button", 3, Does(S, "C")>> /\ V(B(4)) = <<"button", 4, Does(S, "X")>>
      /\ V(B(5)) = <<"button", 5, Does(S, "Y")>> /\ V(B(6)) = <<"button", 6, Does(S, "Z")>>
      /\ V(B(7)) = <<"button", 7, Does(S, "START")>> /\ V(B(8)) = <<"button", 8, Does(S, "MODE")>>
  BY <1>4, <1>6
<1>9. Meant(S) = {<<"button", 1, Does(S, "A")>>, <<"button", 2, Does(S, "B")>>,
                  <<"button", 3, Does(S, "C")>>, <<"button", 4, Does(S, "X")>>,
                  <<"button", 5, Does(S, "Y")>>, <<"button", 6, Does(S, "Z")>>,
                  <<"button", 7, Does(S, "START")>>, <<"button", 8, Does(S, "MODE")>>,
                  V(X), V(Y)}
  <2> DEFINE M(b) == <<"button", Bit[b] + 1, Does(S, b)>>
  <2>1. {M(b) : b \in DOMAIN Bit}
          = {M("A"), M("B"), M("C"), M("X"), M("Y"), M("Z"), M("START"), M("MODE")}
    <3> HIDE DEF M
    <3> QED  BY Bits
  <2>2. /\ M("A") = <<"button", 1, Does(S, "A")>> /\ M("B") = <<"button", 2, Does(S, "B")>>
        /\ M("C") = <<"button", 3, Does(S, "C")>> /\ M("X") = <<"button", 4, Does(S, "X")>>
        /\ M("Y") = <<"button", 5, Does(S, "Y")>> /\ M("Z") = <<"button", 6, Does(S, "Z")>>
        /\ M("START") = <<"button", 7, Does(S, "START")>>
        /\ M("MODE") = <<"button", 8, Does(S, "MODE")>>
    BY Bits
  <2>3. Meant(S) = {M(b) : b \in DOMAIN Bit} \cup {V(X), V(Y)}
    BY <1>5, <1>6 DEF Meant
  <2> HIDE DEF M
  <2> QED  BY <2>1, <2>2, <2>3
<1> QED  BY <1>2, <1>7, <1>8, <1>9 DEF bytes

\* The host sees any set of buttons for what it is, whether pads or macros made it:
\* descriptor, report and pad agree with each other.
THEOREM EverythingSeen == \A S \in SUBSET Btn : Seen(S)
<1> SUFFICES ASSUME NEW S, NEW i \in Ifaces
             PROVE  IF i \in Pads THEN Received(i, S) = [pad |-> i, does |-> Meant(S)]
                    ELSE Received(i, S).does = {}
  BY DEF Seen
<1>1. CASE i \in Pads
  <2>1. PadOf(EndpointOf(i)) = i
    BY <1>1 DEF Pads, PadOf, EndpointOf
  <2> QED  BY <1>1, <2>1, JoystickSeen DEF Received
<1>2. CASE i \notin Pads
  <2>1. i = 4
    BY <1>2 DEF Ifaces, Pads
  <2>2. Known(4).is = "undefined"
    BY HostKnows DEF ConfigAt, St
  <2>3. Decoded(4, Bytes(Macros!ReportOf(S))) = {}
    BY <2>2 DEF Decoded
  <2> QED  BY <1>2, <2>1, <2>3 DEF Received
<1> QED  BY <1>1, <1>2

\* So what gamepad_read() samples reaches the player's computer as what it is.
THEOREM SamplesSeen == Spec => []HostSeesSamples
<1>1. TypeOK => HostSeesSamples
  BY EverythingSeen DEF TypeOK, HostSeesSamples
<1> QED  BY <1>1, Types, PTL
=============================================================================
