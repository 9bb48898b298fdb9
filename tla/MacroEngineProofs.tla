-------------------------- MODULE MacroEngineProofs --------------------------
(***************************************************************************)
(* For all programs, delays and press times: the counters of gamepad.c     *)
(* stay within 16 bits and on the timeline, so that gamepads_macro_accept()*)
(* implements MacroTimeline.                                               *)
(***************************************************************************)
EXTENDS MacroEngine, TLAPS

LEMMA Elements ==
  ASSUME NEW S, NEW s \in Seq(S)
  PROVE  DOMAIN s = 1 .. Len(s) /\ Len(s) \in Nat /\ \A k \in DOMAIN s : s[k] \in S
  OBVIOUS

LEMMA ProgramType ==
  ASSUME NEW l \in Programs
  PROVE  /\ DOMAIN l = 1 .. Len(l) /\ Len(l) \in Nat
         /\ \A i \in DOMAIN l : l[i].press \in Seq(Press)
<1> DEFINE M == [act : Seq(Act), press : Seq(Press)]
<1>1. l \in Seq(M)
  BY ProgramsAssumption
<1>2. \A m \in M : m.press \in Seq(Press)
  OBVIOUS
<1> HIDE DEF M
<1> QED  BY <1>1, <1>2, Elements

LEMMA EntryType ==
  ASSUME NEW l \in Programs, NEW i \in DOMAIN l, NEW j \in DOMAIN l[i].press
  PROVE  /\ l[i].press[j].keep \in BOOLEAN
         /\ l[i].press[j].delay \in 0 .. MaxTime
         /\ l[i].press[j].press \in 0 .. MaxTime
         /\ l[i].press[j].delay + l[i].press[j].press <= MaxHeld
<1>1. l[i].press[j] \in Press
  BY ProgramType, Elements
<1> QED
  BY <1>1, TimeAssumption, TimelineAssumption DEF Press

LEMMA EntriesDomain ==
  ASSUME NEW l
  PROVE  \A i, j : <<i, j>> \in Entries(l) <=> i \in DOMAIN l /\ j \in DOMAIN l[i].press
  BY DEF Entries

LEMMA EntriesPairs ==
  ASSUME NEW l, NEW x \in Entries(l)
  PROVE  /\ x = <<x[1], x[2]>>
         /\ x[1] \in DOMAIN l
         /\ x[2] \in DOMAIN l[x[1]].press
  BY DEF Entries

LEMMA AfterType ==
  ASSUME NEW m, NEW b \in SUBSET Btn, NEW e
  PROVE  After(m, b, e) \in SUBSET Btn
  BY DEF After

LEMMA CountedType ==
  ASSUME NEW e, NEW c \in Counters
  PROVE  Counted(e, c) \in Counters
  BY TimeAssumption DEF Counted, Counters

\* Four facts about the counters of one entry: rewinding puts them at the start
\* of the timeline, counting moves them along it and leaves them at its end, and
\* what they make of the button is what the timeline schedules.
LEMMA OneEntry ==
  ASSUME NEW e, e.keep \in BOOLEAN, e.delay \in 0 .. MaxTime, e.press \in 0 .. MaxTime,
         e.delay + e.press <= MaxHeld
  PROVE  /\ OnTime(e, Full(e), 0)
         /\ \A c \in Counters, n \in 0 .. MaxHeld : OnTime(e, c, n) =>
              /\ OnTime(e, Counted(e, c), n + 1)
              /\ n = MaxHeld => OnTime(e, Counted(e, c), n)
              /\ Effect(e, c) = Scheduled(e, n + 1)
<1>0. MaxTime \in Nat /\ MaxHeld \in Nat
  BY TimeAssumption, TimelineAssumption
<1>1. OnTime(e, Full(e), 0)
  BY <1>0 DEF OnTime, Full
<1>2. ASSUME NEW c \in Counters, NEW n \in 0 .. MaxHeld, OnTime(e, c, n)
      PROVE  /\ OnTime(e, Counted(e, c), n + 1)
             /\ n = MaxHeld => OnTime(e, Counted(e, c), n)
             /\ Effect(e, c) = Scheduled(e, n + 1)
  <2>1. CASE n < e.delay
    BY <1>0, <1>2, <2>1 DEF OnTime, Counted, Effect, Scheduled, Counters
  <2>2. CASE n >= e.delay /\ e.keep
    BY <1>0, <1>2, <2>2 DEF OnTime, Counted, Effect, Scheduled, Counters
  <2>3. CASE n >= e.delay /\ ~e.keep
    BY <1>0, <1>2, <2>3 DEF OnTime, Counted, Effect, Scheduled, Counters
  <2> QED  BY <1>0, <2>1, <2>2, <2>3
<1> QED  BY <1>1, <1>2
------------------------------------------------------------------------------
IInv == TypeOK /\ CountersOnTime

LEMMA HeldNextType ==
  ASSUME TypeOK, NEW i \in DOMAIN macros
  PROVE  HeldNext(i) \in 0 .. MaxHeld \cup {UNARMED}
  BY TimelineAssumption DEF HeldNext, TypeOK

LEMMA TypeStep == TypeOK /\ [Next]_vars => TypeOK'
<1> SUFFICES ASSUME TypeOK, [Next]_vars PROVE TypeOK'
  OBVIOUS
<1> USE DEF TypeOK
<1>1. ASSUME NEW l \in Programs, InstallMacros(l) PROVE TypeOK'
  <2>1. left' \in [Entries(macros') -> Counters]
    BY <1>1, TimeAssumption DEF InstallMacros, Counters
  <2> QED  BY <1>1, <2>1, ProgramType DEF InstallMacros
<1>2. ASSUME NEW p \in SUBSET Btn, Sample(p) PROVE TypeOK'
  BY <1>2, ProgramType DEF Sample, ReadPad
<1>3. ASSUME NEW i \in DOMAIN macros, Accept(i) PROVE TypeOK'
  <2>1. left' \in [Entries(macros) -> Counters]
    <3>1. \A x \in Entries(macros) :
            Full(macros[x[1]].press[x[2]]) \in Counters
      BY EntriesPairs, EntryType DEF Full, Counters
    <3>2. \A x \in Entries(macros) : left[x] \in Counters
      OBVIOUS
    <3> QED  BY <1>3, <3>1, <3>2, CountedType DEF Accept
  <2>2. buttons' \subseteq Btn
    <3> DEFINE effect == [j \in DOMAIN macros[i].press |->
                            IF Active(macros[i], buttons)
                            THEN Effect(macros[i].press[j], left[<<i, j>>]) ELSE "leave"]
    <3>1. buttons' = After(macros[i], buttons, effect)
      BY <1>3 DEF Accept
    <3> HIDE DEF effect
    <3> QED  BY <3>1, AfterType
  <2>3. held' \in [DOMAIN macros -> 0 .. MaxHeld \cup {UNARMED}]
    BY <1>3, HeldNextType DEF Accept
  <2>4. macros' = macros /\ pad' = pad /\ at' = i + 1
    BY <1>3 DEF Accept
  <2>5. at' \in 0 .. Len(macros) + 1
    BY <2>4, ProgramType
  <2> QED  BY <2>1, <2>2, <2>3, <2>4, <2>5
<1>4. CASE Report
  BY <1>4, ProgramType DEF Report, Send
<1>5. CASE UNCHANGED vars
  BY <1>5 DEF vars
<1> QED  BY <1>1, <1>2, <1>3, <1>4, <1>5 DEF Next

\* Every variable keeps its type: no counter leaves the range of a uint16_t,
\* though gamepads_macro_accept() decrements them in place.
THEOREM TypeCorrect == Spec => []TypeOK
<1>1. Init => TypeOK
  <2>1. Entries(<<>>) = {}
    BY DEF Entries
  <2> QED  BY <2>1, ProgramsAssumption DEF Init, TimelineInit, TypeOK
<1> QED  BY <1>1, TypeStep, PTL DEF Spec

LEMMA TimeStep == TypeOK /\ CountersOnTime /\ [Next]_vars => CountersOnTime'
<1> SUFFICES ASSUME TypeOK, CountersOnTime, [Next]_vars PROVE CountersOnTime'
  OBVIOUS
<1> USE DEF CountersOnTime
<1>1. ASSUME NEW l \in Programs, InstallMacros(l) PROVE CountersOnTime'
  BY <1>1 DEF InstallMacros
<1>2. ASSUME NEW p \in SUBSET Btn, Sample(p) PROVE CountersOnTime'
  BY <1>2 DEF Sample, ReadPad
<1>3. ASSUME NEW i \in DOMAIN macros, Accept(i) PROVE CountersOnTime'
  <2> DEFINE active == Active(macros[i], buttons)
  <2>1. /\ macros' = macros
        /\ held' = [held EXCEPT ![i] = HeldNext(i)]
        /\ left' = [x \in Entries(macros) |->
               IF x[1] # i THEN left[x]
               ELSE IF active THEN Counted(macros[i].press[x[2]], left[x])
               ELSE Full(macros[i].press[x[2]])]
    BY <1>3 DEF Accept
  <2> SUFFICES ASSUME NEW k \in DOMAIN macros, held'[k] # UNARMED,
                      NEW j \in DOMAIN macros[k].press
               PROVE  OnTime(macros[k].press[j], left'[<<k, j>>], held'[k])
    BY <2>1
  <2> DEFINE e == macros[k].press[j]
             c == left[<<k, j>>]
  <2>2. <<k, j>> \in Entries(macros)
    BY EntriesDomain
  <2>3. c \in Counters /\ held \in [DOMAIN macros -> 0 .. MaxHeld \cup {UNARMED}]
    BY <2>2 DEF TypeOK
  <2>4. CASE k # i
    BY <2>1, <2>2, <2>3, <2>4
  <2>5. CASE k = i /\ ~active
    <3>1. held'[k] = 0 /\ left'[<<k, j>>] = Full(e)
      BY <2>1, <2>2, <2>3, <2>5 DEF HeldNext
    <3>2. OnTime(e, Full(e), 0)
      BY OneEntry, EntryType DEF TypeOK
    <3> QED  BY <3>1, <3>2
  <2>6. CASE k = i /\ active
    <3>1. held'[k] = HeldNext(k) /\ left'[<<k, j>>] = Counted(e, c)
      BY <2>1, <2>2, <2>3, <2>6
    <3>2. held[k] # UNARMED /\ held[k] \in 0 .. MaxHeld
      BY <2>3, <2>6, <3>1 DEF HeldNext
    <3>3. OnTime(e, c, held[k])
      BY <3>2
    <3>4. /\ OnTime(e, Counted(e, c), held[k] + 1)
          /\ held[k] = MaxHeld => OnTime(e, Counted(e, c), held[k])
      <4> HIDE DEF e, c
      <4>1. e.keep \in BOOLEAN /\ e.delay \in 0 .. MaxTime /\ e.press \in 0 .. MaxTime
            /\ e.delay + e.press <= MaxHeld
        BY EntryType DEF e, TypeOK
      <4> QED  BY <2>3, <3>2, <3>3, <4>1, OneEntry
    <3> QED  BY <2>6, <3>1, <3>2, <3>4 DEF HeldNext
  <2> QED  BY <2>4, <2>5, <2>6
<1>4. CASE Report
  BY <1>4 DEF Report, Send
<1>5. CASE UNCHANGED vars
  BY <1>5 DEF vars
<1> QED  BY <1>1, <1>2, <1>3, <1>4, <1>5 DEF Next

LEMMA Invariant == Spec => []IInv
<1>1. Init => IInv
  <2>1. Entries(<<>>) = {}
    BY DEF Entries
  <2> QED  BY <2>1, ProgramsAssumption DEF Init, TimelineInit, IInv, TypeOK, CountersOnTime
<1> QED  BY <1>1, TypeStep, TimeStep, PTL DEF Spec, IInv

\* Once armed, the counters of every press entry are where its timeline is.
THEOREM TimeKept == Spec => []CountersOnTime
<1>1. IInv => CountersOnTime
  BY DEF IInv
<1> QED  BY <1>1, Invariant, PTL

LEMMA AcceptRefines ==
  ASSUME IInv, NEW i \in DOMAIN macros, Accept(i)
  PROVE  Apply(i)
<1> USE DEF IInv
<1> DEFINE m == macros[i]
           active == Active(m, buttons)
           effect == [j \in DOMAIN m.press |->
                        IF active THEN Effect(m.press[j], left[<<i, j>>]) ELSE "leave"]
<1>1. effect \in [DOMAIN macros[i].press -> Effects]
  BY DEF Effect, Effects
<1>2. buttons' = After(macros[i], buttons, effect)
  BY DEF Accept
<1>3. Promised(i, effect)
  <2>1. CASE ~active
    BY <2>1 DEF Promised
  <2>2. CASE active /\ held[i] = UNARMED
    BY <2>2 DEF Promised
  <2>3. CASE active /\ held[i] # UNARMED
    <3>1. ASSUME NEW j \in DOMAIN m.press
          PROVE  effect[j] = Scheduled(m.press[j], held[i] + 1)
      <4> DEFINE e == m.press[j]
                 c == left[<<i, j>>]
      <4>1. c \in Counters /\ held[i] \in 0 .. MaxHeld
        BY <2>3, EntriesDomain DEF TypeOK
      <4>2. OnTime(e, c, held[i])
        BY <2>3 DEF CountersOnTime
      <4>3. effect[j] = Effect(e, c)
        BY <2>3
      <4>4. e.keep \in BOOLEAN /\ e.delay \in 0 .. MaxTime /\ e.press \in 0 .. MaxTime
            /\ e.delay + e.press <= MaxHeld
        BY EntryType DEF TypeOK
      <4> HIDE DEF e, c
      <4>5. Effect(e, c) = Scheduled(e, held[i] + 1)
        BY <4>1, <4>2, <4>4, OneEntry
      <4> QED  BY <4>3, <4>5 DEF e
    <3> QED  BY <2>3, <3>1 DEF Promised
  <2> QED  BY <2>1, <2>2, <2>3
<1> HIDE DEF effect
<1> QED  BY <1>1, <1>2, <1>3 DEF Accept, Apply

\* gamepad.c implements MacroTimeline: every press entry presses its button in
\* exactly the reads its delay and press times say, counted from the completion
\* of the combination, for every list of macros.
THEOREM ImplementsTimeline == Spec => RefinesTimeline
<1>1. Init => TimelineInit
  BY DEF Init
<1>2. IInv /\ [Next]_vars => [TimelineNext]_tvars
  <2> SUFFICES ASSUME IInv, [Next]_vars PROVE [TimelineNext]_tvars
    OBVIOUS
  <2>1. ASSUME NEW l \in Programs, InstallMacros(l) PROVE Install(l)
    BY <2>1 DEF InstallMacros, Install
  <2> QED
    BY <2>1, AcceptRefines DEF Next, TimelineNext, Sample, Report, vars, tvars
<1> QED  BY <1>1, <1>2, Invariant, PTL DEF RefinesTimeline, TimelineSpec, Spec
------------------------------------------------------------------------------
Quiet == at # 0 /\ pad = {} => buttons = {}

LEMMA QuietStep == TypeOK /\ Quiet /\ [Next]_vars => Quiet'
<1> SUFFICES ASSUME TypeOK, Quiet, [Next]_vars PROVE Quiet'
  OBVIOUS
<1> USE DEF Quiet
<1>1. ASSUME NEW i \in DOMAIN macros, Accept(i) PROVE Quiet'
  <2> SUFFICES ASSUME pad' = {} PROVE buttons' = {}
    OBVIOUS
  <2> DEFINE effect == [j \in DOMAIN macros[i].press |->
                          IF Active(macros[i], buttons)
                          THEN Effect(macros[i].press[j], left[<<i, j>>]) ELSE "leave"]
  <2>1. at # 0
    BY <1>1, ProgramType DEF Accept, TypeOK
  <2>2. buttons = {}
    BY <1>1, <2>1 DEF Accept
  <2>3. ~Active(macros[i], buttons)
    BY <2>2 DEF Active
  <2>4. \A j \in DOMAIN macros[i].press : effect[j] = "leave"
    BY <2>3
  <2>5. buttons' = After(macros[i], buttons, effect)
    BY <1>1 DEF Accept
  <2> HIDE DEF effect
  <2> QED  BY <2>2, <2>4, <2>5 DEF After
<1>2. CASE UNCHANGED vars
  BY <1>2 DEF vars
<1> QED  BY <1>1, <1>2 DEF Next, InstallMacros, Sample, ReadPad, Report, Send

\* A pad with no button pressed is reported as neutral, whatever is installed
\* and whatever the counters hold.
THEOREM NothingStuck == Spec => NothingPressedNothingSent
<1>1. Init => Quiet
  BY DEF Init, TimelineInit, Quiet
<1>2. Quiet /\ TypeOK /\ [Next]_vars
        => [at # 0 /\ at' = 0 /\ pad = {} => report' = ReportOf({})]_vars
  <2> SUFFICES ASSUME Quiet, TypeOK, Next, at # 0, at' = 0, pad = {}
               PROVE  report' = ReportOf({})
    OBVIOUS
  <2>1. ASSUME NEW i \in DOMAIN macros, Accept(i) PROVE FALSE
    BY <2>1, ProgramType DEF Accept, TypeOK
  <2>2. Report
    BY <2>1 DEF Next, InstallMacros, Sample, ReadPad
  <2> QED  BY <2>2 DEF Report, Send, Quiet
<1> QED
  BY <1>1, <1>2, QuietStep, TypeCorrect, PTL DEF NothingPressedNothingSent, Spec
==============================================================================
