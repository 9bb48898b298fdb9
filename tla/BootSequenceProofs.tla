-------------------------- MODULE BootSequenceProofs --------------------------
(***************************************************************************)
(* The delays, for a counter of any width and delays of any length that    *)
(* leave room for the longest gap; and the start-up they are parts of, for *)
(* every such delay and whenever the interrupt comes.                      *)
(***************************************************************************)
EXTENDS BootSequence, SequenceTheorems, TLAPS

\* While a caller waits, the difference of the two counts is the true time since
\* the call, and nothing has overflowed.
CountsElapsed ==
  waiting => /\ us_count_tic = wanted
             /\ wanted + MaxGap <= Wrap
             /\ elapsed < Wrap
             /\ cyccnt = IF t0 + elapsed < Wrap THEN t0 + elapsed ELSE t0 + elapsed - Wrap

IInv == TypeOK /\ CountsElapsed /\ NeverLate

LEMMA SmallRemainder ==
  ASSUME NEW n \in Nat, n < Wrap
  PROVE  n % Wrap = n
BY DelayAssumption

\* The difference of two counts that lie less than one turn apart.
LEMMA DeltaExact ==
  ASSUME NEW a \in Uint32, NEW e \in Nat, e < Wrap,
         NEW b, b = IF a + e < Wrap THEN a + e ELSE a + e - Wrap
  PROVE  Delta(a, b) = e
BY DelayAssumption DEF Delta, Uint32

LEMMA DeltaInNat ==
  ASSUME NEW a \in Uint32, NEW b \in Uint32
  PROVE  Delta(a, b) \in Nat
BY DelayAssumption DEF Delta, Uint32

LEMMA Counter ==
  ASSUME cyccnt \in Uint32, NEW g \in Nat, g <= Wrap
  PROVE  Advanced(g) \in Uint32
BY DelayAssumption DEF Advanced, Uint32

\* What both callers of the loop have in common.
LEMMA Called ==
  ASSUME TypeOK, NEW us \in Nat, us * TicksPerUs \in Nat, Short(us),
         Usleep(us), wanted' = us * TicksPerUs
  PROVE  IInv'
<1>1. us * TicksPerUs < Wrap /\ 0 < Wrap
  BY DelayAssumption DEF Short
<1>2. us_count_tic' = us * TicksPerUs
  BY <1>1, SmallRemainder DEF Usleep
<1>3. us_count_tic' \in Uint32
  BY <1>1, <1>2, DelayAssumption DEF Uint32
<1>4. TypeOK'
  BY <1>3 DEF TypeOK, Usleep
<1>5. t0 \in Uint32 /\ cyccnt \in Uint32 /\ cyccnt' = cyccnt /\ t0' = cyccnt /\ elapsed' = 0
  BY DEF TypeOK, Usleep
<1>6. CountsElapsed'
  BY <1>1, <1>2, <1>5, DelayAssumption DEF CountsElapsed, Short, Uint32
<1>7. NeverLate'
  BY <1>5 DEF NeverLate
<1> QED  BY <1>4, <1>6, <1>7 DEF IInv

\* One look: the loop goes on exactly as long as the time asked for is not over.
LEMMA Looked ==
  ASSUME IInv, NEW g \in Gaps, Look(g)
  PROVE  /\ IInv'
         /\ waiting' = (elapsed' < wanted)
<1>1. /\ g \in Nat /\ 0 < g /\ g <= MaxGap /\ MaxGap \in Nat
      /\ cyccnt \in Uint32 /\ t0 \in Uint32 /\ elapsed \in Nat /\ wanted \in Nat
      /\ Wrap \in Nat /\ waiting
  BY DelayAssumption DEF IInv, TypeOK, Gaps, Look
<1>2. /\ us_count_tic = wanted /\ wanted + MaxGap <= Wrap /\ elapsed < Wrap
      /\ cyccnt = IF t0 + elapsed < Wrap THEN t0 + elapsed ELSE t0 + elapsed - Wrap
      /\ elapsed = 0 \/ elapsed < wanted
  BY <1>1 DEF IInv, CountsElapsed, NeverLate
<1>3. elapsed + g <= Wrap /\ g <= Wrap
  BY <1>1, <1>2
<1>4. cyccnt' \in Uint32
  BY <1>1, <1>3, Counter DEF Look
<1>5. elapsed' = elapsed + g /\ elapsed' \in Nat
  BY <1>1, <1>3 DEF Look
<1>6. waiting' = (Delta(t0, cyccnt') < wanted) /\ Delta(t0, cyccnt') \in Nat
  <2>1. waiting' = (Delta(t0, cyccnt') < wanted)
    BY <1>2 DEF Look
  <2>2. Delta(t0, cyccnt') \in Nat
    BY <1>1, <1>4, DeltaInNat
  <2> QED  BY <2>1, <2>2
<1>7. elapsed' < Wrap => /\ Delta(t0, cyccnt') = elapsed'
                         /\ cyccnt' = IF t0 + elapsed' < Wrap THEN t0 + elapsed'
                                      ELSE t0 + elapsed' - Wrap
  <2> SUFFICES ASSUME elapsed' < Wrap
               PROVE  /\ Delta(t0, cyccnt') = elapsed'
                      /\ cyccnt' = IF t0 + elapsed' < Wrap THEN t0 + elapsed'
                                   ELSE t0 + elapsed' - Wrap
    OBVIOUS
  <2>1. cyccnt' = IF t0 + elapsed' < Wrap THEN t0 + elapsed' ELSE t0 + elapsed' - Wrap
    BY <1>1, <1>2, <1>5 DEF Look, Advanced, Uint32
  <2> QED  BY <1>1, <1>5, <2>1, DeltaExact
<1>8. wanted = 0 \/ elapsed' < Wrap
  BY <1>1, <1>2, <1>5
<1>9. waiting' = (elapsed' < wanted)
  <2>1. CASE wanted = 0
    <3>1. ~(Delta(t0, cyccnt') < wanted) /\ ~(elapsed' < wanted)
      BY <2>1, <1>5, <1>6
    <3> QED  BY <3>1, <1>6
  <2>2. CASE elapsed' < Wrap
    BY <2>2, <1>6, <1>7
  <2> QED  BY <1>8, <2>1, <2>2
<1>10. waiting' \in BOOLEAN
  BY <1>6
<1>11. TypeOK'
  BY <1>1, <1>4, <1>5, <1>10 DEF IInv, TypeOK, Look
<1>12. elapsed' < wanted => elapsed' < Wrap
  BY <1>1, <1>2, <1>5
<1>13. CountsElapsed'
  <2> SUFFICES ASSUME waiting' PROVE CountsElapsed'
    BY DEF CountsElapsed
  <2>1. elapsed' < Wrap
    BY <1>9, <1>12
  <2>2. us_count_tic' = us_count_tic /\ wanted' = wanted /\ t0' = t0
    BY DEF Look
  <2> QED  BY <1>2, <1>7, <2>1, <2>2 DEF CountsElapsed
<1>14. NeverLate'
  BY <1>9 DEF NeverLate, Look
<1> QED  BY <1>9, <1>11, <1>13, <1>14 DEF IInv

LEMMA Inductive == IInv /\ [Next]_vars => IInv'
<1> SUFFICES ASSUME IInv, [Next]_vars PROVE IInv'
  OBVIOUS
<1>1. ASSUME NEW us \in UsDelays, CallUsleep(us) PROVE IInv'
  <2>1. us \in Nat /\ us * TicksPerUs \in Nat /\ Short(us)
    BY DelayAssumption
  <2> QED  BY <1>1, <2>1, Called DEF IInv, CallUsleep
<1>2. ASSUME NEW ms \in MsDelays, CallMsleep(ms) PROVE IInv'
  <2> DEFINE us == ms * UsPerMs
  <2>1. us \in Nat /\ us < Wrap /\ us * TicksPerUs \in Nat /\ Short(us)
    BY DelayAssumption
  <2>2. us % Wrap = us
    BY <2>1, SmallRemainder
  <2>3. Usleep(us) /\ wanted' = us * TicksPerUs
    BY <1>2, <2>2 DEF CallMsleep
  <2> HIDE DEF us
  <2> QED  BY <2>1, <2>3, Called DEF IInv
<1>3. ASSUME NEW g \in Gaps, Look(g) PROVE IInv'
  BY <1>3, Looked
<1>4. ASSUME NEW g \in Gaps, Run(g) PROVE IInv'
  <2>1. Advanced(g) \in Uint32
    BY <1>4, Counter, DelayAssumption DEF Gaps, IInv, TypeOK, Run
  <2> QED  BY <1>4, <2>1 DEF IInv, TypeOK, CountsElapsed, NeverLate, Run
<1>5. CASE UNCHANGED vars
  BY <1>5 DEF IInv, TypeOK, CountsElapsed, NeverLate, vars
<1> QED
  BY <1>1, <1>2, <1>3, <1>4, <1>5 DEF Next

LEMMA Initial == Init => IInv
<1> SUFFICES ASSUME Init PROVE IInv
  OBVIOUS
<1>1. 0 \in Uint32
  BY DelayAssumption DEF Uint32
<1> QED  BY <1>1 DEF Init, IInv, TypeOK, CountsElapsed, NeverLate

LEMMA Invariant == Spec => []IInv
<1> QED  BY Initial, Inductive, PTL DEF Spec

\* While a caller waits its time is not over: the loop never misses the end, for
\* any width of the counter (init.c:34).
THEOREM NotLate == Spec => []NeverLate
<1>1. IInv => NeverLate
  BY DEF IInv
<1> QED  BY <1>1, Invariant, PTL

\* _usleep() and _msleep() never return early, wherever the counter stands when
\* they are called.
THEOREM NotShort == Spec => NeverShort
<1>1. IInv /\ [Next]_vars => [Return => elapsed' >= wanted]_vars
  <2> SUFFICES ASSUME IInv, Next, Return PROVE elapsed' >= wanted
    BY DEF vars, Return
  <2>1. PICK g \in Gaps : Look(g)
    BY DEF Next, Return, CallUsleep, CallMsleep, Usleep, Run
  <2>2. IInv' /\ ~(elapsed' < wanted)
    BY <2>1, Looked DEF Return
  <2> QED  BY <2>2 DEF IInv, TypeOK
<1> QED  BY <1>1, Invariant, PTL DEF Spec, NeverShort
-------------------------------------------------------------------------------
\* The counter moves by nothing but a delay's steps, in whatever order the start-up
\* and the interrupt call for one.
LEMMA OnlyDelays == BootNext => [Next]_vars
<1> SUFFICES ASSUME BootNext PROVE Next \/ UNCHANGED vars
  BY DEF vars
<1>1. CASE Main
  BY <1>1 DEF Main, Next, counter
<1>2. CASE SetConfig \/ AddStart \/ Store \/ Stopped
  BY <1>2 DEF SetConfig, AddStart, Store, Stopped, bootVars, counter, vars
<1>3. CASE ReadPad
  BY <1>3 DEF ReadPad, Next
<1>4. ASSUME NEW g \in Gaps, Wait(g) PROVE Next
  BY <1>4 DEF Wait, Next
<1>5. ASSUME NEW g \in Gaps, Meanwhile(g) PROVE Next
  BY <1>5 DEF Meanwhile, Next
<1> QED  BY <1>1, <1>2, <1>3, <1>4, <1>5 DEF BootNext

LEMMA DelaysOfBoot == BootSpec => Spec
<1>1. BootInit => Init
  BY DEF BootInit
<1>2. [BootNext]_bootVars => [Next]_vars
  BY OnlyDelays DEF bootVars, counter, vars
<1> QED  BY <1>1, <1>2, PTL DEF BootSpec, Spec

\* The delays of the start-up (usb.c:108, main.c:112) and of the interrupts that read
\* the pads afterwards never miss their end.
THEOREM BootNotLate == BootSpec => []NeverLate
<1> QED  BY DelaysOfBoot, NotLate, PTL

\* ... and are never cut short.
THEOREM BootNotShort == BootSpec => NeverShort
<1> QED  BY DelaysOfBoot, NotShort, PTL
-------------------------------------------------------------------------------
(* The start-up itself.  First, what is where in Program. *)

Tuple(s, n) == s = [k \in 1 .. n |-> s[k]]

\* \o under another name, of which the provers see only what Joined says.
Cat(s, t) == s \o t

LEMMA Joined ==
  \A s, t : \A m, n \in Nat :
    Tuple(s, m) /\ Tuple(t, n) =>
      /\ Tuple(Cat(s, t), m + n)
      /\ \A k \in 1 .. m : Cat(s, t)[k] = s[k]
      /\ \A k \in 1 .. n : Cat(s, t)[m + k] = t[k]
<1> SUFFICES ASSUME NEW s, NEW t, NEW m \in Nat, NEW n \in Nat, Tuple(s, m), Tuple(t, n)
             PROVE  /\ Tuple(Cat(s, t), m + n)
                    /\ \A k \in 1 .. m : Cat(s, t)[k] = s[k]
                    /\ \A k \in 1 .. n : Cat(s, t)[m + k] = t[k]
  OBVIOUS
<1> DEFINE S == {s[k] : k \in 1 .. m} \cup {t[k] : k \in 1 .. n}
<1>1. [k \in 1 .. m |-> s[k]] \in Seq(S) /\ [k \in 1 .. n |-> t[k]] \in Seq(S)
  OBVIOUS
<1>2. s \in Seq(S) /\ t \in Seq(S)
  BY <1>1 DEF Tuple
<1>3. Len(s) = m /\ Len(t) = n
  BY <1>2 DEF Tuple
<1> HIDE DEF S
<1>4. /\ s \o t \in Seq(S) /\ Len(s \o t) = m + n
      /\ \A k \in 1 .. m : (s \o t)[k] = s[k]
      /\ \A k \in 1 .. n : (s \o t)[m + k] = t[k]
  BY <1>2, <1>3
<1>5. /\ Cat(s, t) \in Seq(S) /\ Len(Cat(s, t)) = m + n
      /\ \A k \in 1 .. m : Cat(s, t)[k] = s[k]
      /\ \A k \in 1 .. n : Cat(s, t)[m + k] = t[k]
  BY <1>4, Zenon DEF Cat
<1>6. Tuple(Cat(s, t), m + n)
  BY <1>5, LenProperties DEF Tuple
<1> QED  BY <1>5, <1>6

LEMMA Pieces ==
  /\ Tuple(DwtInit, 1) /\ Tuple(UartInit, 7) /\ Tuple(LedInit, 3) /\ Tuple(UsbInit, 10)
  /\ Tuple(Blink, 4) /\ Tuple(<< Debugf >>, 1) /\ Tuple(<< List >>, 1)
  /\ \A x : Tuple(Malloc(x), 2)
<1>1. /\ Tuple(DwtInit, 1) /\ Tuple(LedInit, 3) /\ Tuple(Blink, 4)
      /\ Tuple(<< Debugf >>, 1) /\ Tuple(<< List >>, 1)
  BY DEF Tuple, DwtInit, LedInit, Blink
<1>2. Tuple(UartInit, 7)
  BY DEF Tuple, UartInit
<1>3. Tuple(UsbInit, 10)
  BY DEF Tuple, UsbInit
<1>4. \A x : Tuple(Malloc(x), 2)
  BY DEF Tuple, Malloc
<1> QED  BY <1>1, <1>2, <1>3, <1>4

LEMMA PadPiece == \A i \in Pads : Tuple(PadInit(i), 14)
<1> SUFFICES ASSUME NEW i \in Pads PROVE Tuple(PadInit(i), 14)
  OBVIOUS
<1> DEFINE clk == [k \in 1 .. 6 |-> Clock(Data[i][k][1])]
           inp == [k \in 1 .. 6 |-> Mode(Data[i][k], "in")]
           cls == << Clock(Select[i][1]) >>
           out == << Mode(Select[i], "out") >>
<1>1. Tuple(clk, 6) /\ Tuple(inp, 6) /\ Tuple(cls, 1) /\ Tuple(out, 1)
  BY DEF Tuple
<1>2. PadInit(i) = Cat(Cat(Cat(clk, cls), inp), out)
  BY Zenon DEF InitPorts, PadInit, Cat
<1> HIDE DEF clk, inp, cls, out
<1> QED  BY <1>1, <1>2, Joined

LEMMA OfPad ==
  \A i \in Pads :
    /\ \A k \in 1 .. 6 : /\ PadInit(i)[k] = Clock(Data[i][k][1])
                         /\ PadInit(i)[7 + k] = Mode(Data[i][k], "in")
    /\ PadInit(i)[7] = Clock(Select[i][1]) /\ PadInit(i)[14] = Mode(Select[i], "out")
BY DEF PadInit, InitPorts

LEMMA OfGamepads ==
  /\ Tuple(GamepadsInit, 60)
  /\ \A k \in 1 .. 2 : /\ GamepadsInit[k] = Malloc("buttons")[k]
                       /\ GamepadsInit[2 + k] = Malloc("macros")[k]
  /\ \A i \in Pads, k \in 1 .. 14 : GamepadsInit[14 * i - 10 + k] = PadInit(i)[k]
<1> DEFINE s2 == Cat(Malloc("buttons"), Malloc("macros"))
           s3 == Cat(s2, PadInit(1))
           s4 == Cat(s3, PadInit(2))
           s5 == Cat(s4, PadInit(3))
<1>1. GamepadsInit = Cat(s5, PadInit(4))
  BY Zenon DEF GamepadsInit, Cat
<1>2. \A i \in 1 .. 4 : Tuple(PadInit(i), 14)
  BY PadPiece DEF Pads
<1>3. /\ Tuple(s2, 4)
      /\ \A k \in 1 .. 2 : s2[k] = Malloc("buttons")[k] /\ s2[2 + k] = Malloc("macros")[k]
  BY Pieces, Joined
<1> HIDE DEF s2
<1>4. /\ Tuple(s3, 18) /\ \A k \in 1 .. 4 : s3[k] = s2[k]
      /\ \A k \in 1 .. 14 : s3[4 + k] = PadInit(1)[k]
  BY <1>2, <1>3, Joined
<1> HIDE DEF s3
<1>5. /\ Tuple(s4, 32) /\ \A k \in 1 .. 18 : s4[k] = s3[k]
      /\ \A k \in 1 .. 14 : s4[18 + k] = PadInit(2)[k]
  BY <1>2, <1>4, Joined
<1> HIDE DEF s4
<1>6. /\ Tuple(s5, 46) /\ \A k \in 1 .. 32 : s5[k] = s4[k]
      /\ \A k \in 1 .. 14 : s5[32 + k] = PadInit(3)[k]
  BY <1>2, <1>5, Joined
<1> HIDE DEF s5
<1>7. /\ Tuple(GamepadsInit, 60) /\ \A k \in 1 .. 46 : GamepadsInit[k] = s5[k]
      /\ \A k \in 1 .. 14 : GamepadsInit[46 + k] = PadInit(4)[k]
  BY <1>1, <1>2, <1>6, Joined
<1>8. \A k \in 1 .. 4 : GamepadsInit[k] = s2[k]
  BY <1>4, <1>5, <1>6, <1>7
<1>9. \A k \in 1 .. 14 : /\ GamepadsInit[4 + k] = PadInit(1)[k]
                         /\ GamepadsInit[18 + k] = PadInit(2)[k]
                         /\ GamepadsInit[32 + k] = PadInit(3)[k]
  BY <1>4, <1>5, <1>6, <1>7
<1>10. \A i \in Pads, k \in 1 .. 14 : GamepadsInit[14 * i - 10 + k] = PadInit(i)[k]
  <2> SUFFICES ASSUME NEW i \in 1 .. 4, NEW k \in 1 .. 14
               PROVE  GamepadsInit[14 * i - 10 + k] = PadInit(i)[k]
    BY DEF Pads
  <2>1. CASE i = 1
    BY <2>1, <1>9
  <2>2. CASE i = 2
    BY <2>2, <1>9
  <2>3. CASE i = 3
    BY <2>3, <1>9
  <2>4. CASE i = 4
    BY <2>4, <1>7
  <2> QED  BY <2>1, <2>2, <2>3, <2>4
<1> QED  BY <1>3, <1>7, <1>8, <1>10

LEMMA OfBlinking ==
  /\ Tuple(Blinking, 20)
  /\ \A j \in 1 .. 20 : \E k \in 1 .. 4 : Blinking[j] = Blink[k]
<1> DEFINE s2 == Cat(Blink, Blink)
           s3 == Cat(s2, Blink)
           s4 == Cat(s3, Blink)
<1>1. Blinking = Cat(s4, Blink)
  BY Zenon DEF Blinking, Cat
<1>2. Tuple(s2, 8) /\ \A k \in 1 .. 4 : s2[k] = Blink[k] /\ s2[4 + k] = Blink[k]
  BY Pieces, Joined
<1> HIDE DEF s2
<1>3. Tuple(s3, 12) /\ (\A k \in 1 .. 8 : s3[k] = s2[k]) /\ \A k \in 1 .. 4 : s3[8 + k] = Blink[k]
  BY <1>2, Pieces, Joined
<1> HIDE DEF s3
<1>4. Tuple(s4, 16) /\ (\A k \in 1 .. 12 : s4[k] = s3[k]) /\ \A k \in 1 .. 4 : s4[12 + k] = Blink[k]
  BY <1>3, Pieces, Joined
<1> HIDE DEF s4
<1>5. /\ Tuple(Blinking, 20) /\ \A k \in 1 .. 16 : Blinking[k] = s4[k]
      /\ \A k \in 1 .. 4 : Blinking[16 + k] = Blink[k]
  BY <1>1, <1>4, Pieces, Joined
<1>6. \A k \in 1 .. 4 : /\ Blinking[k] = Blink[k] /\ Blinking[4 + k] = Blink[k]
                        /\ Blinking[8 + k] = Blink[k] /\ Blinking[12 + k] = Blink[k]
                        /\ Blinking[16 + k] = Blink[k]
  BY <1>2, <1>3, <1>4, <1>5
<1>7. ASSUME NEW j \in 1 .. 20 PROVE \E k \in 1 .. 4 : Blinking[j] = Blink[k]
  <2>1. CASE j \in 1 .. 4
    BY <2>1, <1>6
  <2>2. CASE j \in 5 .. 8
    <3>1. j - 4 \in 1 .. 4 /\ j = 4 + (j - 4)
      BY <2>2
    <3> QED  BY <3>1, <1>6
  <2>3. CASE j \in 9 .. 12
    <3>1. j - 8 \in 1 .. 4 /\ j = 8 + (j - 8)
      BY <2>3
    <3> QED  BY <3>1, <1>6
  <2>4. CASE j \in 13 .. 16
    <3>1. j - 12 \in 1 .. 4 /\ j = 12 + (j - 12)
      BY <2>4
    <3> QED  BY <3>1, <1>6
  <2>5. CASE j \in 17 .. 20
    <3>1. j - 16 \in 1 .. 4 /\ j = 16 + (j - 16)
      BY <2>5
    <3> QED  BY <3>1, <1>6
  <2> QED  BY <2>1, <2>2, <2>3, <2>4, <2>5
<1> QED  BY <1>5, <1>7

LEMMA Layout ==
  /\ Len(Program) = 108
  /\ Program[1] = DwtInit[1]
  /\ \A k \in 1 .. 7 : Program[1 + k] = UartInit[k]
  /\ \A k \in 1 .. 3 : Program[8 + k] = LedInit[k]
  /\ \A k \in 1 .. 10 : Program[11 + k] = UsbInit[k]
  /\ Program[22] = Debugf
  /\ \A k \in 1 .. 20 : Program[22 + k] = Blinking[k]
  /\ Program[43] = Debugf
  /\ \A k \in 1 .. 60 : Program[43 + k] = GamepadsInit[k]
  /\ Program[104] = Debugf
  /\ \A k \in 1 .. 2 : Program[104 + k] = StorageInit[k]
  /\ Program[107] = List
  /\ Program[108] = Reset(<<"B", 8>>)
<1> DEFINE p2 == Cat(DwtInit, UartInit)
           p3 == Cat(p2, LedInit)
           p4 == Cat(p3, UsbInit)
           p5 == Cat(p4, << Debugf >>)
           p6 == Cat(p5, Blinking)
           p7 == Cat(p6, << Debugf >>)
           p8 == Cat(p7, GamepadsInit)
           p9 == Cat(p8, << Debugf >>)
           p10 == Cat(p9, StorageInit)
           p11 == Cat(p10, << List >>)
<1>1. Program = Cat(p11, GamepadsEn)
  BY Zenon DEF Program, Cat
<1>2. /\ << Debugf >>[1] = Debugf /\ << List >>[1] = List
      /\ Tuple(<< Debugf >>, 1) /\ Tuple(<< List >>, 1) /\ Tuple(StorageInit, 2)
      /\ Tuple(GamepadsEn, 1) /\ GamepadsEn[1] = Reset(<<"B", 8>>)
  BY Pieces DEF StorageInit, GamepadsEn, Tuple
<1> DEFINE d == << Debugf >>
           l == << List >>
<1>a. /\ d[1] = Debugf /\ l[1] = List /\ Tuple(d, 1) /\ Tuple(l, 1)
      /\ p5 = Cat(p4, d) /\ p7 = Cat(p6, d) /\ p9 = Cat(p8, d) /\ p11 = Cat(p10, l)
  BY <1>1, <1>2
<1> HIDE DEF d, l
<1>3. /\ Tuple(p2, 8) /\ p2[1] = DwtInit[1] /\ \A k \in 1 .. 7 : p2[1 + k] = UartInit[k]
  BY Pieces, Joined
<1> HIDE DEF p2
<1>4. /\ Tuple(p3, 11) /\ (\A k \in 1 .. 8 : p3[k] = p2[k]) /\ \A k \in 1 .. 3 : p3[8 + k] = LedInit[k]
  BY <1>3, Pieces, Joined
<1> HIDE DEF p3
<1>5. /\ Tuple(p4, 21) /\ (\A k \in 1 .. 11 : p4[k] = p3[k]) /\ \A k \in 1 .. 10 : p4[11 + k] = UsbInit[k]
  BY <1>4, Pieces, Joined
<1> HIDE DEF p4, p5, p7, p9, p11
<1>6. /\ Tuple(p5, 22) /\ (\A k \in 1 .. 21 : p5[k] = p4[k]) /\ p5[21 + 1] = d[1]
  BY <1>5, <1>a, Joined
<1>7. /\ Tuple(p6, 42) /\ (\A k \in 1 .. 22 : p6[k] = p5[k]) /\ \A k \in 1 .. 20 : p6[22 + k] = Blinking[k]
  BY <1>6, OfBlinking, Joined
<1> HIDE DEF p6
<1>8. /\ Tuple(p7, 43) /\ (\A k \in 1 .. 42 : p7[k] = p6[k]) /\ p7[42 + 1] = d[1]
  BY <1>7, <1>a, Joined
<1>9. /\ Tuple(p8, 103) /\ (\A k \in 1 .. 43 : p8[k] = p7[k]) /\ \A k \in 1 .. 60 : p8[43 + k] = GamepadsInit[k]
  BY <1>8, OfGamepads, Joined
<1> HIDE DEF p8
<1>10. /\ Tuple(p9, 104) /\ (\A k \in 1 .. 103 : p9[k] = p8[k]) /\ p9[103 + 1] = d[1]
  BY <1>9, <1>a, Joined
<1>11. /\ Tuple(p10, 106) /\ (\A k \in 1 .. 104 : p10[k] = p9[k]) /\ \A k \in 1 .. 2 : p10[104 + k] = StorageInit[k]
  BY <1>2, <1>10, Joined
<1> HIDE DEF p10
<1>12. /\ Tuple(p11, 107) /\ (\A k \in 1 .. 106 : p11[k] = p10[k]) /\ p11[106 + 1] = l[1]
  BY <1>a, <1>11, Joined
<1>b. /\ Tuple(Program, 108) /\ (\A k \in 1 .. 107 : Program[k] = p11[k])
      /\ Program[107 + 1] = GamepadsEn[1]
  BY <1>1, <1>2, <1>12, Joined
<1>13. Len(Program) = 108
  <2> DEFINE q == [k \in 1 .. 108 |-> Program[k]]
  <2>1. Len(q) = 108
    OBVIOUS
  <2>2. Program = q
    BY <1>b DEF Tuple
  <2> HIDE DEF q
  <2> QED  BY <2>1, <2>2
<1>14. \A k \in 1 .. 8 : Program[k] = p2[k]
  BY <1>4, <1>5, <1>6, <1>7, <1>8, <1>9, <1>10, <1>11, <1>12, <1>b
<1>15. \A k \in 1 .. 3 : Program[8 + k] = LedInit[k]
  BY <1>4, <1>5, <1>6, <1>7, <1>8, <1>9, <1>10, <1>11, <1>12, <1>b
<1>16. \A k \in 1 .. 10 : Program[11 + k] = UsbInit[k]
  BY <1>5, <1>6, <1>7, <1>8, <1>9, <1>10, <1>11, <1>12, <1>b
<1>17. \A k \in 1 .. 20 : Program[22 + k] = Blinking[k]
  BY <1>7, <1>8, <1>9, <1>10, <1>11, <1>12, <1>b
<1>18. \A k \in 1 .. 60 : Program[43 + k] = GamepadsInit[k]
  BY <1>9, <1>10, <1>11, <1>12, <1>b
<1>19. Program[22] = Debugf /\ Program[43] = Debugf /\ Program[104] = Debugf
       /\ Program[107] = List /\ Program[108] = Reset(<<"B", 8>>)
  BY <1>2, <1>a, <1>6, <1>7, <1>8, <1>9, <1>10, <1>11, <1>12, <1>b
<1>20. \A k \in 1 .. 2 : Program[104 + k] = StorageInit[k]
  BY <1>11, <1>12, <1>b
<1> QED  BY <1>3, <1>13, <1>14, <1>15, <1>16, <1>17, <1>18, <1>19, <1>20

\* What each pin is for.
Role(p) ==
  CASE p[1] # "B"      -> "in"
    [] p = <<"B", 6>>  -> "tx"
    [] p = <<"B", 7>>  -> "rx"
    [] OTHER           -> "out"

LEMMA DataLine ==
  ASSUME NEW i \in Pads, NEW k \in 1 .. 6
  PROVE  Data[i][k] \in Pin \ {<<"B", 8>>} /\ Data[i][k][1] # "B" /\ Role(Data[i][k]) = "in"
<1>1. i = 1 \/ i = 2 \/ i = 3 \/ i = 4
  BY DEF Pads
<1>2. k = 1 \/ k = 2 \/ k = 3 \/ k = 4 \/ k = 5 \/ k = 6
  OBVIOUS
<1>3. Data[i][k] \in Pin /\ Data[i][k][1] # "B"
  BY <1>1, <1>2 DEF Data, Pin
<1>4. Data[i][k] # <<"B", 8>>
  BY <1>3
<1> QED  BY <1>3, <1>4 DEF Role

LEMMA SelectLine ==
  ASSUME NEW i \in Pads
  PROVE  Select[i] = <<"B", i - 1>> /\ Select[i] \in Pin \ {<<"B", 8>>} /\ Role(Select[i]) = "out"
<1>1. Select[i] = <<"B", i - 1>> /\ i - 1 \in 0 .. 3
  BY DEF Select, Pads
<1> QED  BY <1>1 DEF Pin, Role

LEMMA OtherLines ==
  /\ {<<"B", 4>>, <<"B", 6>>, <<"B", 7>>, <<"B", 9>>, <<"B", 10>>} \subseteq Pin \ {<<"B", 8>>}
  /\ Role(<<"B", 4>>) = "out" /\ Role(<<"B", 6>>) = "tx" /\ Role(<<"B", 7>>) = "rx"
  /\ Role(<<"B", 9>>) = "out" /\ Role(<<"B", 10>>) = "out"
BY DEF Pin, Role

LEMMA LinesDiffer ==
  ASSUME NEW i \in Pads, NEW j \in Pads
  PROVE  /\ Select[i] = Select[j] => i = j
         /\ \A k, l \in 1 .. 6 : Data[i][k] = Data[j][l] => i = j /\ k = l
<1>1. Select[i] = Select[j] => i = j
  BY SelectLine DEF Pads
<1>2. ASSUME NEW k \in 1 .. 6, NEW l \in 1 .. 6, Data[i][k] = Data[j][l]
      PROVE  i = j /\ k = l
  <2>1. (i = 1 \/ i = 2 \/ i = 3 \/ i = 4) /\ (j = 1 \/ j = 2 \/ j = 3 \/ j = 4)
    BY DEF Pads
  <2>2. /\ k = 1 \/ k = 2 \/ k = 3 \/ k = 4 \/ k = 5 \/ k = 6
        /\ l = 1 \/ l = 2 \/ l = 3 \/ l = 4 \/ l = 5 \/ l = 6
    OBVIOUS
  <2> QED  BY <1>2, <2>1, <2>2 DEF Data
<1> QED  BY <1>1, <1>2

\* Program, operation by operation.
LEMMA Beginning ==
  /\ Program[1] = Ready("dwt") /\ Program[2] = Clock("B") /\ Program[3] = Clock("USART1")
  /\ Program[4] = Clock("AFIO") /\ Program[5] = Ready("remap")
  /\ Program[6] = Mode(<<"B", 6>>, "tx") /\ Program[7] = Mode(<<"B", 7>>, "rx")
  /\ Program[8] = Ready("uart") /\ Program[9] = Clock("B")
  /\ Program[10] = Mode(<<"B", 9>>, "out") /\ Program[11] = Mode(<<"B", 10>>, "out")
  /\ Program[12] = Clock("A") /\ Program[13] = Clock("B") /\ Program[14] = Clock("USB")
  /\ Program[15] = Mode(<<"B", 4>>, "out") /\ Program[16] = Set(<<"B", 4>>)
  /\ Program[17] = Sleep(UnplugMs) /\ Program[18] = Reset(<<"B", 4>>)
  /\ Program[19] = Ready("usbd_dev") /\ Program[20] = Ready("irq")
  /\ Program[21] = Ready("set_config") /\ Program[22] = Debugf
<1>1. /\ Program[1] = DwtInit[1] /\ Program[22] = Debugf
      /\ Program[1 + 1] = UartInit[1] /\ Program[1 + 2] = UartInit[2] /\ Program[1 + 3] = UartInit[3]
      /\ Program[1 + 4] = UartInit[4] /\ Program[1 + 5] = UartInit[5]
      /\ Program[1 + 6] = UartInit[6] /\ Program[1 + 7] = UartInit[7]
  BY Layout
<1>2. /\ Program[8 + 1] = LedInit[1] /\ Program[8 + 2] = LedInit[2] /\ Program[8 + 3] = LedInit[3]
  BY Layout
<1>3. /\ Program[11 + 1] = UsbInit[1] /\ Program[11 + 2] = UsbInit[2] /\ Program[11 + 3] = UsbInit[3]
      /\ Program[11 + 4] = UsbInit[4] /\ Program[11 + 5] = UsbInit[5] /\ Program[11 + 6] = UsbInit[6]
      /\ Program[11 + 7] = UsbInit[7] /\ Program[11 + 8] = UsbInit[8] /\ Program[11 + 9] = UsbInit[9]
      /\ Program[11 + 10] = UsbInit[10]
  BY Layout
<1>4. /\ DwtInit[1] = Ready("dwt")
      /\ UartInit[1] = Clock("B") /\ UartInit[2] = Clock("USART1") /\ UartInit[3] = Clock("AFIO")
      /\ UartInit[4] = Ready("remap") /\ UartInit[5] = Mode(<<"B", 6>>, "tx")
      /\ UartInit[6] = Mode(<<"B", 7>>, "rx") /\ UartInit[7] = Ready("uart")
  BY DEF DwtInit, UartInit
<1>5. /\ LedInit[1] = Clock("B") /\ LedInit[2] = Mode(<<"B", 9>>, "out")
      /\ LedInit[3] = Mode(<<"B", 10>>, "out")
  BY DEF LedInit
<1>6. /\ UsbInit[1] = Clock("A") /\ UsbInit[2] = Clock("B") /\ UsbInit[3] = Clock("USB")
      /\ UsbInit[4] = Mode(<<"B", 4>>, "out") /\ UsbInit[5] = Set(<<"B", 4>>)
      /\ UsbInit[6] = Sleep(UnplugMs) /\ UsbInit[7] = Reset(<<"B", 4>>)
      /\ UsbInit[8] = Ready("usbd_dev") /\ UsbInit[9] = Ready("irq")
      /\ UsbInit[10] = Ready("set_config")
  BY DEF UsbInit
<1> QED  BY <1>1, <1>2, <1>3, <1>4, <1>5, <1>6

LEMMA Blinks ==
  ASSUME NEW j \in 23 .. 42
  PROVE  Program[j] \in {Set(<<"B", 10>>), Sleep(BlinkMs), Reset(<<"B", 10>>)}
<1>1. j - 22 \in 1 .. 20 /\ j = 22 + (j - 22)
  OBVIOUS
<1>2. PICK k \in 1 .. 4 : Program[j] = Blink[k]
  BY <1>1, Layout, OfBlinking
<1>3. k = 1 \/ k = 2 \/ k = 3 \/ k = 4
  OBVIOUS
<1> QED  BY <1>2, <1>3 DEF Blink

LEMMA Mallocs ==
  /\ Program[43] = Debugf
  /\ Program[44] = [op |-> "malloc", arg |-> "buttons"] /\ Program[45] = Ready("buttons")
  /\ Program[46] = [op |-> "malloc", arg |-> "macros"] /\ Program[47] = Ready("macros")
  /\ Program[104] = Debugf
  /\ Program[105] = [op |-> "malloc", arg |-> "buf"] /\ Program[106] = Ready("buf")
  /\ Program[107] = List /\ Program[108] = Reset(<<"B", 8>>)
<1>1. /\ Program[43 + 1] = GamepadsInit[1] /\ Program[43 + 2] = GamepadsInit[2]
      /\ Program[43 + 3] = GamepadsInit[2 + 1] /\ Program[43 + 4] = GamepadsInit[2 + 2]
      /\ Program[104 + 1] = StorageInit[1] /\ Program[104 + 2] = StorageInit[2]
  BY Layout
<1>2. /\ GamepadsInit[1] = Malloc("buttons")[1] /\ GamepadsInit[2] = Malloc("buttons")[2]
      /\ GamepadsInit[2 + 1] = Malloc("macros")[1] /\ GamepadsInit[2 + 2] = Malloc("macros")[2]
  BY OfGamepads
<1>3. /\ Malloc("buttons")[1] = [op |-> "malloc", arg |-> "buttons"]
      /\ Malloc("macros")[1] = [op |-> "malloc", arg |-> "macros"]
      /\ Malloc("buttons")[2] = Ready("buttons") /\ Malloc("macros")[2] = Ready("macros")
  BY DEF Malloc
<1>4. StorageInit[1] = [op |-> "malloc", arg |-> "buf"] /\ StorageInit[2] = Ready("buf")
  BY DEF StorageInit, Malloc
<1> QED  BY <1>1, <1>2, <1>3, <1>4, Layout

\* Where gamepads_init() is at pad i.
LEMMA Ports ==
  \A i \in Pads :
    /\ \A k \in 1 .. 6 : /\ Program[33 + 14 * i + k] = Clock(Data[i][k][1])
                         /\ Program[40 + 14 * i + k] = Mode(Data[i][k], "in")
    /\ Program[40 + 14 * i] = Clock(Select[i][1]) /\ Program[47 + 14 * i] = Mode(Select[i], "out")
<1>1. ASSUME NEW i \in Pads, NEW k \in 1 .. 14
      PROVE  Program[33 + 14 * i + k] = PadInit(i)[k]
  <2>1. 14 * i - 10 + k \in 1 .. 60 /\ 43 + (14 * i - 10 + k) = 33 + 14 * i + k
    BY DEF Pads
  <2>2. Program[43 + (14 * i - 10 + k)] = GamepadsInit[14 * i - 10 + k]
    BY <2>1, Layout
  <2> QED  BY <2>1, <2>2, OfGamepads
<1> SUFFICES ASSUME NEW i \in Pads
             PROVE  /\ \A k \in 1 .. 6 : /\ Program[33 + 14 * i + k] = Clock(Data[i][k][1])
                                         /\ Program[40 + 14 * i + k] = Mode(Data[i][k], "in")
                    /\ Program[40 + 14 * i] = Clock(Select[i][1])
                    /\ Program[47 + 14 * i] = Mode(Select[i], "out")
  OBVIOUS
<1>2. ASSUME NEW k \in 1 .. 6
      PROVE  /\ Program[33 + 14 * i + k] = Clock(Data[i][k][1])
             /\ Program[40 + 14 * i + k] = Mode(Data[i][k], "in")
  <2>1. 33 + 14 * i + (7 + k) = 40 + 14 * i + k /\ k \in 1 .. 14 /\ 7 + k \in 1 .. 14
    BY DEF Pads
  <2>2. Program[33 + 14 * i + k] = PadInit(i)[k] /\ Program[33 + 14 * i + (7 + k)] = PadInit(i)[7 + k]
    BY <2>1, <1>1
  <2> QED  BY <2>1, <2>2, OfPad
<1>3. 33 + 14 * i + 7 = 40 + 14 * i /\ 33 + 14 * i + 14 = 47 + 14 * i
  BY DEF Pads
<1>4. Program[33 + 14 * i + 7] = PadInit(i)[7] /\ Program[33 + 14 * i + 14] = PadInit(i)[14]
  <2>1. 7 \in 1 .. 14 /\ 14 \in 1 .. 14
    OBVIOUS
  <2> QED  BY <2>1, <1>1
<1> QED  BY <1>2, <1>3, <1>4, OfPad

LEMMA Places ==
  ASSUME NEW j \in 1 .. 108
  PROVE  \/ j \in 1 .. 22 \/ j \in 23 .. 42 \/ j \in 43 .. 47 \/ j \in 104 .. 108
         \/ \E i \in Pads : \/ j = 40 + 14 * i \/ j = 47 + 14 * i
                            \/ \E k \in 1 .. 6 : j = 33 + 14 * i + k \/ j = 40 + 14 * i + k
<1>1. ASSUME NEW i \in Pads, j \in 34 + 14 * i .. 47 + 14 * i
      PROVE  \/ j = 40 + 14 * i \/ j = 47 + 14 * i
             \/ \E k \in 1 .. 6 : j = 33 + 14 * i + k \/ j = 40 + 14 * i + k
  <2> DEFINE k == j - (33 + 14 * i)
  <2>1. i \in Nat /\ k \in 1 .. 14 /\ j = 33 + 14 * i + k
    BY <1>1 DEF Pads
  <2>2. CASE k \in 1 .. 6
    BY <2>1, <2>2
  <2>3. CASE k \in 8 .. 13
    <3>1. k - 7 \in 1 .. 6 /\ j = 40 + 14 * i + (k - 7)
      BY <2>1, <2>3
    <3> QED  BY <3>1
  <2>4. CASE k = 7 \/ k = 14
    BY <2>1, <2>4
  <2> QED  BY <2>1, <2>2, <2>3, <2>4
<1>2. 1 \in Pads /\ 2 \in Pads /\ 3 \in Pads /\ 4 \in Pads
  BY DEF Pads
<1>3. CASE j \in 48 .. 61
  <2>1. j \in 34 + 14 * 1 .. 47 + 14 * 1
    BY <1>3
  <2> QED  BY <1>1, <1>2, <2>1
<1>4. CASE j \in 62 .. 75
  <2>1. j \in 34 + 14 * 2 .. 47 + 14 * 2
    BY <1>4
  <2> QED  BY <1>1, <1>2, <2>1
<1>5. CASE j \in 76 .. 89
  <2>1. j \in 34 + 14 * 3 .. 47 + 14 * 3
    BY <1>5
  <2> QED  BY <1>1, <1>2, <2>1
<1>6. CASE j \in 90 .. 103
  <2>1. j \in 34 + 14 * 4 .. 47 + 14 * 4
    BY <1>6
  <2> QED  BY <1>1, <1>2, <2>1
<1> QED  BY <1>3, <1>4, <1>5, <1>6

\* What the pads' part is made of.
LEMMA InPorts ==
  ASSUME NEW j \in 48 .. 103
  PROVE  \/ \E x : Program[j] = Clock(x)
         \/ \E i \in Pads, k \in 1 .. 6 : j = 40 + 14 * i + k /\ Program[j] = Mode(Data[i][k], "in")
         \/ \E i \in Pads : j = 47 + 14 * i /\ Program[j] = Mode(Select[i], "out")
BY Places, Ports

LEMMA PortOps ==
  ASSUME NEW j \in 48 .. 103
  PROVE  Program[j].op = "clock" \/ Program[j].op = "mode"
<1>1. (\A y : Clock(y).op = "clock") /\ \A p, m : Mode(p, m).op = "mode"
  BY DEF Clock, Mode
<1>2. (\E y : Program[j] = Clock(y)) \/ \E p, m : Program[j] = Mode(p, m)
  BY InPorts, Zenon
<1> QED  BY <1>1, <1>2, Zenon

\* The operations that matter below are at one place each.
LEMMA Once ==
  ASSUME NEW j \in 1 .. 108
  PROVE  /\ Program[j] = Ready("macros") => j = 47
         /\ Program[j] = Ready("buf") => j = 106
         /\ Program[j] = Ready("irq") => j = 20
         /\ Program[j].op = "malloc" => j < 106
         /\ Program[j].op = "list" => j = 107
         /\ Program[j].op = "set" /\ Program[j].arg = <<"B", 4>> => j = 16
         /\ Program[j].op \in {"set", "clear"} =>
              Program[j].arg \in {<<"B", 4>>, <<"B", 8>>, <<"B", 10>>}
<1> USE DEF Ready, Clock, Mode, Set, Sleep, Reset, Debugf, List
<1>1. CASE j \in 1 .. 22
  <2>1. \/ j = 1 \/ j = 2 \/ j = 3 \/ j = 4 \/ j = 5 \/ j = 6 \/ j = 7 \/ j = 8
        \/ j = 9 \/ j = 10 \/ j = 11 \/ j = 12 \/ j = 13 \/ j = 14 \/ j = 15 \/ j = 16
        \/ j = 17 \/ j = 18 \/ j = 19 \/ j = 20 \/ j = 21 \/ j = 22
    BY <1>1
  <2> QED  BY <2>1, Beginning
<1>2. CASE j \in 23 .. 42
  BY <1>2, Blinks
<1>3. CASE j \in 43 .. 47 \cup 104 .. 108
  <2>1. \/ j = 43 \/ j = 44 \/ j = 45 \/ j = 46 \/ j = 47
        \/ j = 104 \/ j = 105 \/ j = 106 \/ j = 107 \/ j = 108
    BY <1>3
  <2> QED  BY <2>1, Mallocs
<1>4. CASE j \in 48 .. 103
  <2>2. Program[j].op = "clock" \/ Program[j].op = "mode"
    BY <1>4, PortOps
  <2> QED  BY <1>4, <2>2
<1> QED  BY <1>1, <1>2, <1>3, <1>4

LEMMA ReadyForm ==
  ASSUME NEW j \in 1 .. 108, Program[j].op = "ready"
  PROVE  Program[j] = Ready(Program[j].arg)
<1> USE DEF Ready, Clock, Mode, Set, Sleep, Reset, Debugf, List
<1>1. CASE j \in 1 .. 22
  <2>1. \/ j = 1 \/ j = 2 \/ j = 3 \/ j = 4 \/ j = 5 \/ j = 6 \/ j = 7 \/ j = 8
        \/ j = 9 \/ j = 10 \/ j = 11 \/ j = 12 \/ j = 13 \/ j = 14 \/ j = 15 \/ j = 16
        \/ j = 17 \/ j = 18 \/ j = 19 \/ j = 20 \/ j = 21 \/ j = 22
    BY <1>1
  <2> QED  BY <2>1, Beginning
<1>2. CASE j \in 23 .. 42
  BY <1>2, Blinks
<1>3. CASE j \in 43 .. 47 \cup 104 .. 108
  <2>1. \/ j = 43 \/ j = 44 \/ j = 45 \/ j = 46 \/ j = 47
        \/ j = 104 \/ j = 105 \/ j = 106 \/ j = 107 \/ j = 108
    BY <1>3
  <2> QED  BY <2>1, Mallocs
<1>4. CASE j \in 48 .. 103
  BY <1>4, PortOps
<1> QED  BY <1>1, <1>2, <1>3, <1>4

\* A pin is set up for its role, when its port has a clock.
LEMMA ModesFit ==
  ASSUME NEW j \in 1 .. 108, Program[j].op = "mode"
  PROVE  /\ Program[j].arg \in Pin \ {<<"B", 8>>} /\ Program[j].as = Role(Program[j].arg)
         /\ \E i \in 1 .. j - 1 : Program[i] = Clock(Program[j].arg[1])
<1> USE DEF Ready, Clock, Mode, Set, Sleep, Reset, Debugf, List
<1>1. CASE j \in 1 .. 22
  <2>1. \/ j = 1 \/ j = 2 \/ j = 3 \/ j = 4 \/ j = 5 \/ j = 6 \/ j = 7 \/ j = 8
        \/ j = 9 \/ j = 10 \/ j = 11 \/ j = 12 \/ j = 13 \/ j = 14 \/ j = 15 \/ j = 16
        \/ j = 17 \/ j = 18 \/ j = 19 \/ j = 20 \/ j = 21 \/ j = 22
    BY <1>1
  <2>2. j = 6 \/ j = 7 \/ j = 10 \/ j = 11 \/ j = 15
    BY <2>1, Beginning
  <2>3. 2 \in 1 .. j - 1 /\ Program[2] = Clock("B")
    BY <2>2, Beginning
  <2>4. Program[j].arg[1] = "B" /\ Program[j].arg \in Pin \ {<<"B", 8>>} /\ Program[j].as = Role(Program[j].arg)
    BY <2>2, Beginning, OtherLines
  <2> QED  BY <2>3, <2>4
<1>2. CASE j \in 23 .. 42
  BY <1>2, Blinks
<1>3. CASE j \in 43 .. 47 \cup 104 .. 108
  <2>1. \/ j = 43 \/ j = 44 \/ j = 45 \/ j = 46 \/ j = 47
        \/ j = 104 \/ j = 105 \/ j = 106 \/ j = 107 \/ j = 108
    BY <1>3
  <2> QED  BY <2>1, Mallocs
<1>4. ASSUME NEW i \in Pads, NEW k \in 1 .. 6,
             j = 40 + 14 * i + k, Program[j] = Mode(Data[i][k], "in")
      PROVE  /\ Program[j].arg \in Pin \ {<<"B", 8>>} /\ Program[j].as = Role(Program[j].arg)
             /\ \E n \in 1 .. j - 1 : Program[n] = Clock(Program[j].arg[1])
  <2>1. 33 + 14 * i + k \in 1 .. j - 1
    BY <1>4 DEF Pads
  <2>2. Program[33 + 14 * i + k] = Clock(Data[i][k][1])
    BY Ports
  <2> QED  BY <1>4, <2>1, <2>2, DataLine
<1>5. ASSUME NEW i \in Pads, j = 47 + 14 * i, Program[j] = Mode(Select[i], "out")
      PROVE  /\ Program[j].arg \in Pin \ {<<"B", 8>>} /\ Program[j].as = Role(Program[j].arg)
             /\ \E n \in 1 .. j - 1 : Program[n] = Clock(Program[j].arg[1])
  <2>1. 40 + 14 * i \in 1 .. j - 1
    BY <1>5 DEF Pads
  <2>2. Program[40 + 14 * i] = Clock(Select[i][1])
    BY Ports
  <2> QED  BY <1>5, <2>1, <2>2, SelectLine
<1>6. CASE j \in 48 .. 103
  <2>1. \A y : Program[j] # Clock(y)
    OBVIOUS
  <2> HIDE DEF Clock, Mode
  <2> QED  BY <1>4, <1>5, <1>6, <2>1, InPorts
<1> QED  BY <1>1, <1>2, <1>3, <1>6

-------------------------------------------------------------------------------
(* What the operations behind pc have done, ... *)
Done ==
  /\ pc \in 1 .. 109 /\ pin \in [Pin -> {"reset", "in", "out", "tx", "rx"}]
  /\ \A j \in 1 .. pc - 1 :
       /\ Program[j].op = "ready" => Program[j].arg \in ready
       /\ Program[j].op = "clock" => Program[j].arg \in clocked
       /\ Program[j].op = "mode" => pin[Program[j].arg] = Program[j].as
  /\ \A x \in ready : \E j \in 1 .. pc - 1 : Program[j] = Ready(x)
  /\ pin[<<"B", 8>>] = "reset"

\* ... where the pull-up is, which the 10 ms with PB4 set have to come before, ...
PulledUp ==
  /\ pc \in 17 .. 18 => <<"B", 4>> \in high
  /\ pc > 18 => <<"B", 4>> \notin high /\ replugged
  /\ pc = 18 => waiting \/ replugged

\* ... and who is to blame when the device does not work.
BootInv == Done /\ PulledUp /\ OnlyEarlyFaults

LEMMA BootInitial == BootInit => BootInv
<1> SUFFICES ASSUME BootInit PROVE BootInv
  OBVIOUS
<1>1. pin \in [Pin -> {"reset", "in", "out", "tx", "rx"}]
  BY DEF BootInit
<1>2. pc = 1 /\ ready = {} /\ mode = "up" /\ pin[<<"B", 8>>] = "reset"
  BY DEF BootInit, Pin
<1> QED  BY <1>1, <1>2 DEF BootInv, Done, PulledUp, OnlyEarlyFaults

\* The next operation.
LEMMA Stepped ==
  ASSUME Done, Main
  PROVE  /\ pc \in 1 .. 108 /\ pc' = pc + 1
         /\ Program[pc].op = "mode" => Program[pc].arg[1] \in clocked
<1>1. pc \in 1 .. 108 /\ pc' = pc + 1
  BY Layout DEF Done, Main, Booted
<1>2. ASSUME Program[pc].op = "mode" PROVE Program[pc].arg[1] \in clocked
  <2>1. PICK i \in 1 .. pc - 1 : Program[i] = Clock(Program[pc].arg[1])
    BY <1>1, <1>2, ModesFit
  <2> QED  BY <2>1 DEF Done, Clock
<1> QED  BY <1>1, <1>2

LEMMA MainDone ==
  ASSUME Done, Main
  PROVE  Done'
<1> DEFINE o == Program[pc]
<1>1. /\ pc \in 1 .. 108 /\ pc' = pc + 1 /\ pc' - 1 = pc /\ pc' \in 1 .. 109
      /\ \A j \in 1 .. pc' - 1 : j \in 1 .. pc - 1 \/ j = pc
  BY Stepped
<1>2. clocked' = IF o.op = "clock" THEN clocked \cup {o.arg} ELSE clocked
  BY DEF Main
<1>3. ready' = IF o.op = "ready" THEN ready \cup {o.arg} ELSE ready
  BY DEF Main
<1>4. /\ o.op # "mode" => pin' = pin
      /\ o.op = "mode" => /\ pin' = [pin EXCEPT ![o.arg] = o.as]
                          /\ o.arg \in Pin \ {<<"B", 8>>} /\ o.as = Role(o.arg)
  BY <1>1, Stepped, ModesFit DEF Main
<1>5. \A p : Role(p) \in {"in", "out", "tx", "rx"}
  BY DEF Role
<1>6. pin' \in [Pin -> {"reset", "in", "out", "tx", "rx"}]
  BY <1>4, <1>5 DEF Done
<1>7. ASSUME NEW j \in 1 .. pc' - 1, Program[j].op = "mode"
      PROVE  pin'[Program[j].arg] = Program[j].as
  <2>1. Program[j].arg \in Pin /\ Program[j].as = Role(Program[j].arg)
    <3>1. j \in 1 .. 108
      BY <1>1
    <3> QED  BY <1>7, <3>1, ModesFit
  <2>2. CASE j \in 1 .. pc - 1
    <3>1. pin[Program[j].arg] = Program[j].as
      BY <1>7, <2>2 DEF Done
    <3> QED  BY <1>4, <2>1, <3>1 DEF Done
  <2>3. CASE j = pc
    BY <1>4, <1>7, <2>1, <2>3 DEF Done
  <2> QED  BY <1>1, <2>2, <2>3
<1>8. ASSUME NEW j \in 1 .. pc' - 1
      PROVE  /\ Program[j].op = "ready" => Program[j].arg \in ready'
             /\ Program[j].op = "clock" => Program[j].arg \in clocked'
  BY <1>1, <1>2, <1>3 DEF Done
<1>9. ASSUME NEW x \in ready' PROVE \E j \in 1 .. pc' - 1 : Program[j] = Ready(x)
  <2>1. CASE x \in ready
    <3>1. PICK j \in 1 .. pc - 1 : Program[j] = Ready(x)
      BY <2>1 DEF Done
    <3> QED  BY <1>1, <3>1
  <2>2. CASE x \notin ready
    <3>1. o.op = "ready" /\ x = o.arg /\ pc \in 1 .. pc' - 1
      BY <1>1, <1>3, <2>2
    <3>2. o = Ready(o.arg)
      BY <1>1, <3>1, ReadyForm
    <3> QED  BY <3>1, <3>2
  <2> QED  BY <2>1, <2>2
<1>10. pin'[<<"B", 8>>] = "reset"
  <2> DEFINE b8 == <<"B", 8>>
  <2>1. b8 \in Pin /\ pin[b8] = "reset" /\ pin \in [Pin -> {"reset", "in", "out", "tx", "rx"}]
    BY DEF Pin, Done
  <2>2. CASE o.op # "mode"
    BY <1>4, <2>1, <2>2
  <2>3. CASE o.op = "mode"
    <3>1. pin' = [pin EXCEPT ![o.arg] = o.as] /\ o.arg # b8
      BY <1>4, <2>3
    <3> HIDE DEF b8, o
    <3>2. pin'[b8] = pin[b8]
      BY <2>1, <3>1
    <3> QED  BY <2>1, <3>2 DEF b8
  <2> QED  BY <2>2, <2>3
<1> QED  BY <1>1, <1>6, <1>7, <1>8, <1>9, <1>10 DEF Done

\* Who finds something not ready finds it before its place.
LEMMA NotYet ==
  ASSUME Done
  PROVE  /\ "buf" \in ready => pc > 106
         /\ pc > 106 => {"buf", "macros"} \subseteq ready
         /\ "irq" \in ready => pc > 20
         /\ pc > 5 => "remap" \in ready
<1>1. pc \in 1 .. 109
  BY DEF Done
<1>2. ASSUME "buf" \in ready PROVE pc > 106
  <2>1. PICK j \in 1 .. pc - 1 : Program[j] = Ready("buf")
    BY <1>2 DEF Done
  <2>2. j \in 1 .. 108
    BY <1>1
  <2>3. j = 106
    BY <2>1, <2>2, Once
  <2> QED  BY <1>1, <2>3
<1>3. ASSUME "irq" \in ready PROVE pc > 20
  <2>1. PICK j \in 1 .. pc - 1 : Program[j] = Ready("irq")
    BY <1>3 DEF Done
  <2>2. j \in 1 .. 108
    BY <1>1
  <2>3. j = 20
    BY <2>1, <2>2, Once
  <2> QED  BY <1>1, <2>3
<1>4. ASSUME pc > 106 PROVE {"buf", "macros"} \subseteq ready
  <2>1. 106 \in 1 .. pc - 1 /\ 47 \in 1 .. pc - 1
    BY <1>1, <1>4
  <2>2. Program[106].op = "ready" /\ Program[47].op = "ready"
        /\ Program[106].arg = "buf" /\ Program[47].arg = "macros"
    BY Mallocs DEF Ready
  <2> QED  BY <2>1, <2>2 DEF Done
<1>5. ASSUME pc > 5 PROVE "remap" \in ready
  <2>1. 5 \in 1 .. pc - 1
    BY <1>1, <1>5
  <2>2. Program[5].op = "ready" /\ Program[5].arg = "remap"
    BY Beginning DEF Ready
  <2> QED  BY <2>1, <2>2 DEF Done
<1> QED  BY <1>2, <1>3, <1>4, <1>5

LEMMA MainPulledUp ==
  ASSUME Done, PulledUp, Main
  PROVE  PulledUp'
<1> DEFINE o == Program[pc]
           b4 == <<"B", 4>>
<1>1. pc \in 1 .. 108 /\ pc' = pc + 1
  BY Stepped
<1>2. /\ o.op = "set" => high' = high \cup {o.arg}
      /\ o.op = "clear" => high' = high \ {o.arg}
      /\ o.op \notin {"set", "clear"} => high' = high
      /\ replugged' = replugged /\ ~waiting
  BY DEF Main
<1>3. CASE pc < 16
  BY <1>1, <1>3 DEF PulledUp
<1>4. CASE pc = 16
  <2>1. o.op = "set" /\ o.arg = b4
    BY <1>4, Beginning DEF Set
  <2> QED  BY <1>1, <1>2, <1>4, <2>1 DEF PulledUp
<1>5. CASE pc = 17
  <2>1. o.op = "sleep"
    BY <1>5, Beginning DEF Sleep
  <2>2. waiting'
    BY <2>1 DEF Main, CallMsleep, Usleep
  <2>3. high' = high /\ b4 \in high
    BY <1>2, <1>5, <2>1 DEF PulledUp
  <2> QED  BY <1>1, <1>5, <2>2, <2>3 DEF PulledUp
<1>6. CASE pc = 18
  <2>1. o.op = "clear" /\ o.arg = b4
    BY <1>6, Beginning DEF Reset
  <2>2. replugged' /\ b4 \notin high'
    BY <1>2, <1>6, <2>1 DEF PulledUp
  <2> QED  BY <1>1, <1>6, <2>2 DEF PulledUp
<1>7. CASE pc > 18
  <2>1. ~(o.op = "set" /\ o.arg = b4)
    <3>1. o.op = "set" /\ o.arg = b4 => pc = 16
      BY <1>1, Once
    <3> QED  BY <1>7, <3>1
  <2>2. b4 \notin high /\ replugged
    BY <1>7 DEF PulledUp
  <2>3. b4 \notin high' /\ replugged'
    BY <1>2, <2>1, <2>2
  <2> QED  BY <1>1, <1>7, <2>3 DEF PulledUp
<1> QED  BY <1>1, <1>3, <1>4, <1>5, <1>6, <1>7

\* The only fault that main() itself could meet is storage_init() not being through.
LEMMA MainUp ==
  ASSUME Done, Main
  PROVE  mode' = "up"
<1>1. pc \in 1 .. 108
  BY Stepped
<1>2. ASSUME Program[pc].op = "list" PROVE Program[pc].arg \in ready
  <2>1. pc = 107
    BY <1>1, <1>2, Once
  <2>2. Program[pc].arg = "buf"
    BY <2>1, Mallocs DEF List
  <2> QED  BY <2>1, <2>2, NotYet
<1> QED  BY <1>2 DEF Main

LEMMA WaitInv ==
  ASSUME IInv, BootInv, NEW g \in Gaps, Wait(g)
  PROVE  BootInv'
<1>1. pc' = pc /\ pin' = pin /\ clocked' = clocked /\ ready' = ready /\ high' = high
      /\ mode' = mode /\ early' = early
  BY DEF Wait, chip
<1>2. Done' /\ OnlyEarlyFaults'
  BY <1>1 DEF BootInv, Done, OnlyEarlyFaults
<1>3. replugged => replugged'
  BY DEF Wait
<1>4. ASSUME pc = 18, ~waiting' PROVE replugged'
  <2>1. elapsed' >= wanted
    <3>1. waiting' = (elapsed' < wanted) /\ IInv'
      BY Looked DEF Wait
    <3>2. wanted' = wanted
      BY DEF Wait, Look
    <3>3. elapsed' \in Nat /\ wanted' \in Nat
      BY <3>1 DEF IInv, TypeOK
    <3>4. ~(elapsed' < wanted)
      BY <1>4, <3>1
    <3> QED  BY <3>2, <3>3, <3>4
  <2>2. Does(<<"B", 4>>, "out")
    <3>1. 15 \in 1 .. pc - 1 /\ Program[15].op = "mode"
          /\ Program[15].arg = <<"B", 4>> /\ Program[15].as = "out"
      BY <1>4, Beginning DEF Mode
    <3>2. pin[<<"B", 4>>] = "out"
      BY <3>1 DEF BootInv, Done
    <3>3. "remap" \in ready
      BY <1>4, NotYet DEF BootInv
    <3> QED  BY <3>2, <3>3 DEF Does, Free
  <2>3. <<"B", 4>> \in high
    BY <1>4 DEF BootInv, PulledUp
  <2> QED  BY <1>4, <2>1, <2>2, <2>3 DEF Wait
<1>5. PulledUp'
  BY <1>1, <1>3, <1>4 DEF BootInv, PulledUp
<1> QED  BY <1>2, <1>5 DEF BootInv

\* A command finds the heap busy, or the storage not there, only before storage_init()
\* is through.
LEMMA CommandFault ==
  ASSUME BootInv, AddStart \/ Store
  PROVE  OnlyEarlyFaults'
<1>1. early => early'
  BY DEF AddStart, Store
<1>2. CASE AddStart
  <2>1. CASE ~Booted /\ pc > 1 /\ Program[pc - 1].op = "malloc"
    <3>1. pc - 1 \in 1 .. 108 /\ pc \in 1 .. 109
      BY <2>1 DEF BootInv, Done
    <3>2. pc - 1 < 106
      BY <2>1, <3>1, Once
    <3>3. "buf" \notin ready
      BY <3>1, <3>2, NotYet DEF BootInv
    <3> QED  BY <1>2, <3>3 DEF AddStart, OnlyEarlyFaults
  <2>2. CASE ~(~Booted /\ pc > 1 /\ Program[pc - 1].op = "malloc")
    BY <1>1, <1>2, <2>2 DEF AddStart, BootInv, OnlyEarlyFaults
  <2> QED  BY <2>1, <2>2
<1>3. CASE Store
  <2>1. "buf" \in ready => {"buf", "macros"} \subseteq ready
    BY NotYet DEF BootInv
  <2> QED  BY <1>1, <1>3, <2>1 DEF Store, BootInv, OnlyEarlyFaults
<1> QED  BY <1>2, <1>3

LEMMA BootInductive == IInv /\ BootInv /\ [BootNext]_bootVars => BootInv'
<1> SUFFICES ASSUME IInv, BootInv, [BootNext]_bootVars PROVE BootInv'
  OBVIOUS
<1> USE DEF chip
<1>1. CASE Main
  <2>1. Done' /\ PulledUp' /\ mode' = "up"
    BY <1>1, MainDone, MainPulledUp, MainUp DEF BootInv
  <2> QED  BY <2>1 DEF BootInv, OnlyEarlyFaults
<1>2. CASE SetConfig
  BY <1>2 DEF SetConfig, counter, vars, BootInv, Done, PulledUp, OnlyEarlyFaults
<1>3. CASE AddStart \/ Store
  <2>1. OnlyEarlyFaults'
    BY <1>3, CommandFault
  <2>2. UNCHANGED <<pc, clocked, pin, high, ready, replugged, waiting>>
    BY <1>3 DEF AddStart, Store, Interrupted, counter, vars
  <2> QED  BY <2>1, <2>2 DEF BootInv, Done, PulledUp
<1>4. CASE ReadPad
  <2>1. UNCHANGED <<pc, clocked, pin, high, ready, replugged, early, mode>> /\ pc > 108
    BY <1>4, Layout DEF ReadPad, Interrupted, Booted
  <2> QED  BY <2>1 DEF BootInv, Done, PulledUp, OnlyEarlyFaults
<1>5. ASSUME NEW g \in Gaps, Wait(g) PROVE BootInv'
  BY <1>5, WaitInv
<1>6. ASSUME NEW g \in Gaps, Meanwhile(g) PROVE BootInv'
  BY <1>6 DEF Meanwhile, Run, BootInv, Done, PulledUp, OnlyEarlyFaults
<1>7. CASE Stopped \/ UNCHANGED bootVars
  BY <1>7 DEF Stopped, bootVars, counter, vars, BootInv, Done, PulledUp, OnlyEarlyFaults
<1> QED  BY <1>1, <1>2, <1>3, <1>4, <1>5, <1>6, <1>7 DEF BootNext

LEMMA BootInvariant == BootSpec => [](IInv /\ BootInv)
<1>1. BootSpec => []IInv
  BY DelaysOfBoot, Invariant, PTL
<1> QED  BY <1>1, BootInitial, BootInductive, PTL DEF BootSpec

\* main.c and usb.c:96: the device stops working only when the host sent a command before
\* storage_init() was through, for any delays and whenever the interrupt comes.
THEOREM FaultsAreEarly == BootSpec => []OnlyEarlyFaults
<1>1. BootInv => OnlyEarlyFaults
  BY DEF BootInv
<1> QED  BY <1>1, BootInvariant, PTL

\* usb.c:105: before the USB interrupt is on the host has seen the device go: the delay
\* with PB4 set was as long as asked for, and PB4 was the pin's, not JTAG's.
THEOREM HostSawItGo == BootSpec => []SeenToGo
<1>1. BootInv => SeenToGo
  BY NotYet DEF BootInv, PulledUp, SeenToGo, Done
<1> QED  BY <1>1, BootInvariant, PTL

\* When the loop of main() begins, every line of the pads, the serial port, the LEDs and
\* the pull-up does what the board has it for, and every pin that main() drives is an
\* output, but PB8: gamepads_en() (main.c:127) clears a pin that nobody set up.
THEOREM AllWired == BootSpec => []WiredUp
<1>1. ASSUME BootInv, Booted PROVE WiredUp
  <2>1. pc > 108 /\ pc \in 1 .. 109
    BY <1>1, Layout DEF Booted, BootInv, Done
  <2>2. "remap" \in ready /\ <<"B", 4>> \notin high
    BY <1>1, <2>1, NotYet DEF BootInv, PulledUp
  <2>3. ASSUME NEW j \in 1 .. 108, NEW p, NEW m, Program[j] = Mode(p, m)
        PROVE  Does(p, m)
    <3>1. j \in 1 .. pc - 1 /\ Program[j].op = "mode" /\ Program[j].arg = p /\ Program[j].as = m
      BY <2>1, <2>3 DEF Mode
    <3>2. pin[p] = m
      BY <1>1, <3>1 DEF BootInv, Done
    <3> QED  BY <2>2, <3>2 DEF Does, Free
  <2>4. \A i \in Pads : Does(Select[i], "out") /\ \A k \in 1 .. 6 : Does(Data[i][k], "in")
    <3> SUFFICES ASSUME NEW i \in Pads
                 PROVE  Does(Select[i], "out") /\ \A k \in 1 .. 6 : Does(Data[i][k], "in")
      OBVIOUS
    <3>1. 47 + 14 * i \in 1 .. 108 /\ \A k \in 1 .. 6 : 40 + 14 * i + k \in 1 .. 108
      BY DEF Pads
    <3>2. Program[47 + 14 * i] = Mode(Select[i], "out")
      BY Ports
    <3>3. Does(Select[i], "out")
      BY <3>1, <3>2, <2>3
    <3>4. ASSUME NEW k \in 1 .. 6 PROVE Does(Data[i][k], "in")
      <4>1. Program[40 + 14 * i + k] = Mode(Data[i][k], "in")
        BY Ports
      <4> QED  BY <3>1, <4>1, <2>3
    <3> QED  BY <3>3, <3>4
  <2>5. /\ Does(<<"B", 6>>, "tx") /\ Does(<<"B", 7>>, "rx") /\ Does(<<"B", 9>>, "out")
        /\ Does(<<"B", 10>>, "out") /\ Does(<<"B", 4>>, "out")
    <3>1. 6 \in 1 .. 108 /\ 7 \in 1 .. 108 /\ 10 \in 1 .. 108 /\ 11 \in 1 .. 108 /\ 15 \in 1 .. 108
      OBVIOUS
    <3> QED  BY <3>1, <2>3, Beginning
  <2>6. ASSUME NEW n \in 1 .. Len(Program), Program[n].op \in {"set", "clear"}
        PROVE  Does(Program[n].arg, IF Program[n].arg = <<"B", 8>> THEN "reset" ELSE "out")
    <3>1. Program[n].arg \in {<<"B", 4>>, <<"B", 8>>, <<"B", 10>>}
      BY <2>6, Layout, Once
    <3>2. Does(<<"B", 8>>, "reset")
      BY <1>1 DEF BootInv, Done, Does, Free, JTAG
    <3> QED  BY <2>5, <3>1, <3>2
  <2> QED  BY <2>2, <2>4, <2>5, <2>6, LinesDiffer DEF WiredUp
<1>2. BootInv => WiredUp
  BY <1>1 DEF WiredUp
<1> QED  BY <1>2, BootInvariant, PTL
===============================================================================
