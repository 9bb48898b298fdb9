---------------------------- MODULE ConfigProofs ----------------------------
(***************************************************************************)
(* The configuration endpoint, for every number of blocks, all headers,    *)
(* buttons and heap sizes: device and host agree on the macro that is      *)
(* being sent, an accepted stop stores that macro and nothing else, the    *)
(* installed macros are the stored ones, and nothing on the heap is lost.  *)
(*                                                                         *)
(* The second part is about the host of ConfigLink.  For macros of any     *)
(* size, and any number of time-outs, bus resets and power cycles, the     *)
(* storage takes the macro the host wants or none.                         *)
(***************************************************************************)
EXTENDS ConfigLink, FiniteSetTheorems, WellFoundedInduction, TLAPS

\* A scan that has a free block to find finds a first one.
Before == {ss \in Nat \X Nat : ss[1] < ss[2]}

LEMMA BeforeWellFounded == IsWellFoundedOn(Before, Nat)
  BY NatLessThanWellFounded DEF OpToRel, Before

LEMMA FirstExists ==
  ASSUME NEW S \in SUBSET Block, S # {}
  PROVE  \E b \in S : FirstOf(b, S)
<1>1. S \subseteq Nat
  BY BlocksAssumption DEF Block
<1>2. PICK b \in S : \A c \in S : ~ (<<c, b>> \in Before)
  BY <1>1, BeforeWellFounded, WFMin
<1>3. \A c \in S : ~ (c < b)
  BY <1>1, <1>2 DEF Before
<1> QED  BY <1>1, <1>3 DEF FirstOf

LEMMA FirstIsUnique ==
  ASSUME NEW S \in SUBSET Block, NEW b, NEW c, FirstOf(b, S), FirstOf(c, S)
  PROVE  b = c
  BY BlocksAssumption DEF FirstOf, Block
-------------------------------------------------------------------------------
\* The types that StagedAsTold needs to be inductive.
StagedTypes ==
  /\ macro_new \in {"null", "live", "freed"}
  /\ macro_new = "live" =>
       /\ hdr \in Header /\ hdr.acts # 0 /\ hdr.press # 0
       /\ host \in [hdr : Header, act : Seq(Button), press : Seq(Button)]
       /\ acts \in [1 .. hdr.acts -> Button \cup {JUNK}] \cup {NULL}
       /\ press \in [1 .. hdr.press -> Button \cup {JUNK}] \cup {NULL}

SInv == StagedTypes /\ StagedAsTold

LEMMA Counts ==
  \A h \in Header : /\ h.acts \in 0 .. MaxCount /\ h.press \in 0 .. MaxCount
                    /\ h.acts \in Nat /\ h.press \in Nat
  BY SessionAssumption

LEMMA NoArrayIsNull ==
  ASSUME NEW n \in 0 .. MaxCount, NEW array \in [1 .. n -> Button \cup {JUNK}]
  PROVE  array # NULL
  BY SessionAssumption

\* malloc() makes an array of which nothing is written, or none, ...
LEMMA UnwrittenTaken ==
  ASSUME NEW n \in 0 .. MaxCount, NEW used, NEW array \in Malloc(n, used)
  PROVE  /\ array \in [1 .. n -> Button \cup {JUNK}] \cup {NULL}
         /\ Taken(array, 0, n, <<>>)
<1>1. n \in Nat
  BY SessionAssumption
<1>2. CASE array = Unwritten(n)
  BY <1>1, <1>2 DEF Unwritten, Filled, Taken
<1>3. CASE array = NULL
  BY <1>3 DEF Taken
<1> QED  BY <1>2, <1>3 DEF Malloc

\* ... and an ACT or a PRESS that is not refused writes one element more.
LEMMA OneMoreTaken ==
  ASSUME NEW size \in 0 .. MaxCount, NEW n, n # size, NEW b \in Button,
         NEW told \in Seq(Button), NEW array \in [1 .. size -> Button \cup {JUNK}] \cup {NULL},
         array # NULL, Taken(array, n, size, told)
  PROVE  /\ [array EXCEPT ![n + 1] = b] \in [1 .. size -> Button \cup {JUNK}]
         /\ Append(told, b) \in Seq(Button)
         /\ Taken([array EXCEPT ![n + 1] = b], n + 1, size, Append(told, b))
<1>1. /\ array \in [1 .. size -> Button \cup {JUNK}] /\ Filled(array, n, size, told)
      /\ size \in Nat
  BY SessionAssumption DEF Taken
<1>2. n \in Nat /\ n + 1 \in 1 .. size /\ Len(told) = n
  BY <1>1 DEF Filled
<1>3. Append(told, b) \in Seq(Button) /\ Len(Append(told, b)) = n + 1
  BY <1>2
<1>4. \A k \in 1 .. n + 1 : Append(told, b)[k] = IF k <= n THEN told[k] ELSE b
  BY <1>2
<1>5. ASSUME NEW k \in 1 .. size
      PROVE  [array EXCEPT ![n + 1] = b][k] = IF k <= n + 1 THEN Append(told, b)[k] ELSE JUNK
  BY <1>1, <1>2, <1>4 DEF Filled
<1>6. [array EXCEPT ![n + 1] = b] \in [1 .. size -> Button \cup {JUNK}]
  BY <1>1
<1>7. [array EXCEPT ![n + 1] = b] # NULL
  BY <1>6, NoArrayIsNull
<1>8. Filled([array EXCEPT ![n + 1] = b], n + 1, size, Append(told, b))
  BY <1>1, <1>2, <1>3, <1>5 DEF Filled
<1> QED  BY <1>3, <1>6, <1>7, <1>8 DEF Taken

LEMMA StagedInit == Init => SInv
  BY DEF Init, SInv, StagedTypes, StagedAsTold

LEMMA StagedKept == SInv /\ UNCHANGED <<staging, host>> => SInv'
  BY DEF SInv, StagedTypes, StagedAsTold, staging, Taken, Filled

LEMMA StagedGone ==
  ASSUME macro_new' \in {"null", "freed"}, acts' = NULL, press' = NULL, host' = NULL
  PROVE  SInv'
  BY DEF SInv, StagedTypes, StagedAsTold

LEMMA StagedByStart ==
  ASSUME NEW h \in Header, AddStart(h)
  PROVE  SInv'
<1>1. /\ h.acts \in 0 .. MaxCount /\ h.press \in 0 .. MaxCount
      /\ h.acts # 0 /\ h.press # 0
  BY Counts DEF AddStart
<1>2. \E used : acts' \in Malloc(h.acts, used)
  BY DEF AddStart, NewArrays
<1>3. \E used : press' \in Malloc(h.press, used)
  BY DEF AddStart, NewArrays
<1>4. /\ acts' \in [1 .. h.acts -> Button \cup {JUNK}] \cup {NULL}
      /\ Taken(acts', 0, h.acts, <<>>)
  BY <1>1, <1>2, UnwrittenTaken
<1>5. /\ press' \in [1 .. h.press -> Button \cup {JUNK}] \cup {NULL}
      /\ Taken(press', 0, h.press, <<>>)
  BY <1>1, <1>3, UnwrittenTaken
<1>6. /\ macro_new' = "live" /\ hdr' = h /\ acts_ptr' = 0 /\ press_ptr' = 0
      /\ host' = [hdr |-> h, act |-> <<>>, press |-> <<>>]
  BY DEF AddStart
<1> QED  BY <1>1, <1>4, <1>5, <1>6 DEF SInv, StagedTypes, StagedAsTold

LEMMA StagedByAct ==
  ASSUME SInv, NEW b \in Button, Act(b)
  PROVE  SInv'
<1>1. macro_new = "live"
  BY DEF SInv, StagedTypes, StagedAsTold, Act
<1>2. /\ hdr.acts \in 0 .. MaxCount /\ acts_ptr # hdr.acts /\ host.act \in Seq(Button)
      /\ acts \in [1 .. hdr.acts -> Button \cup {JUNK}] \cup {NULL} /\ acts # NULL
      /\ Taken(acts, acts_ptr, hdr.acts, host.act)
  BY <1>1, Counts DEF SInv, StagedTypes, StagedAsTold, Act
<1>3. /\ acts' \in [1 .. hdr.acts -> Button \cup {JUNK}]
      /\ Append(host.act, b) \in Seq(Button)
      /\ Taken(acts', acts_ptr + 1, hdr.acts, Append(host.act, b))
  BY <1>2, OneMoreTaken DEF Act
<1>4. /\ macro_new' = "live" /\ hdr' = hdr /\ press' = press /\ press_ptr' = press_ptr
      /\ acts_ptr' = acts_ptr + 1 /\ host' = [host EXCEPT !.act = Append(@, b)]
  BY <1>1 DEF Act
<1>5. /\ host' \in [hdr : Header, act : Seq(Button), press : Seq(Button)]
      /\ host'.hdr = host.hdr /\ host'.act = Append(host.act, b) /\ host'.press = host.press
  BY <1>1, <1>3, <1>4 DEF SInv, StagedTypes
<1> QED  BY <1>1, <1>3, <1>4, <1>5 DEF SInv, StagedTypes, StagedAsTold

LEMMA StagedByPress ==
  ASSUME SInv, NEW b \in Button, Press(b)
  PROVE  SInv'
<1>1. macro_new = "live"
  BY DEF SInv, StagedTypes, StagedAsTold, Press
<1>2. /\ hdr.press \in 0 .. MaxCount /\ press_ptr # hdr.press /\ host.press \in Seq(Button)
      /\ press \in [1 .. hdr.press -> Button \cup {JUNK}] \cup {NULL} /\ press # NULL
      /\ Taken(press, press_ptr, hdr.press, host.press)
  BY <1>1, Counts DEF SInv, StagedTypes, StagedAsTold, Press
<1>3. /\ press' \in [1 .. hdr.press -> Button \cup {JUNK}]
      /\ Append(host.press, b) \in Seq(Button)
      /\ Taken(press', press_ptr + 1, hdr.press, Append(host.press, b))
  BY <1>2, OneMoreTaken DEF Press
<1>4. /\ macro_new' = "live" /\ hdr' = hdr /\ acts' = acts /\ acts_ptr' = acts_ptr
      /\ press_ptr' = press_ptr + 1 /\ host' = [host EXCEPT !.press = Append(@, b)]
  BY <1>1 DEF Press
<1>5. /\ host' \in [hdr : Header, act : Seq(Button), press : Seq(Button)]
      /\ host'.hdr = host.hdr /\ host'.press = Append(host.press, b) /\ host'.act = host.act
  BY <1>1, <1>3, <1>4 DEF SInv, StagedTypes
<1> QED  BY <1>1, <1>3, <1>4, <1>5 DEF SInv, StagedTypes, StagedAsTold

LEMMA StagedStep == SInv /\ [Next]_vars => SInv'
<1> SUFFICES ASSUME SInv, [Next]_vars PROVE SInv'
  OBVIOUS
<1>1. ASSUME NEW h \in Header, AddStart(h) PROVE SInv'
  BY <1>1, StagedByStart
<1>2. ASSUME NEW h \in Header, AddStartRefused(h) PROVE SInv'
  BY <1>2, StagedGone DEF AddStartRefused
<1>3. ASSUME NEW b \in Button, Act(b) PROVE SInv'
  BY <1>3, StagedByAct
<1>4. ASSUME NEW b \in Button, Press(b) PROVE SInv'
  BY <1>4, StagedByPress
<1>5. CASE AddStop
  BY <1>5, StagedGone DEF AddStop
<1>6. CASE Boot
  BY <1>6, StagedGone DEF Boot
<1>7. CASE \/ ActRefused \/ PressRefused \/ AddStopRefused
           \/ AddStartNoRoom \/ AddStartDoubleFree \/ AddStopDoubleFree
           \/ Clear \/ ReadMacros \/ UnknownCommand \/ UNCHANGED vars
  BY <1>7, StagedKept DEF ActRefused, PressRefused, AddStopRefused, AddStartNoRoom,
     AddStartDoubleFree, AddStopDoubleFree, Clear, ReadMacros, UnknownCommand, vars, staging
<1> QED
  BY <1>1, <1>2, <1>3, <1>4, <1>5, <1>6, <1>7
     DEF Next, PowerCycle, PowerCutInStop, PowerCutInClear

LEMMA Staging == Spec => []SInv
  BY StagedInit, StagedStep, PTL DEF Spec

\* Device and host agree on the macro that is being sent: config_endpoint_out_callback()
\* keeps its pointer, its two arrays and its two counters in step.
THEOREM Agreed == Spec => []StagedAsTold
<1>1. SInv => StagedAsTold
  BY DEF SInv
<1> QED  BY <1>1, Staging, PTL
-------------------------------------------------------------------------------
\* The storage holds contents; what a stop adds is one.
TInv == table \in [Block -> Content]

\* What a complete array holds is what the host was told it does.
LEMMA AllFilled ==
  ASSUME NEW size \in Nat, NEW told \in Seq(Button),
         NEW array \in [1 .. size -> Button \cup {JUNK}], Filled(array, size, size, told)
  PROVE  array = told /\ array \in Tuples(size)
<1>1. told \in [1 .. size -> Button]
  BY DEF Filled
<1>2. \A k \in 1 .. size : array[k] = told[k]
  BY DEF Filled
<1> QED  BY <1>1, <1>2 DEF Tuples

LEMMA StopComplete ==
  ASSUME SInv, macro_new = "live", NEW h \in Pointee, Complete(h)
  PROVE  /\ acts = host.act /\ press = host.press /\ hdr = host.hdr
         /\ Len(host.act) = hdr.acts /\ Len(host.press) = hdr.press
         /\ [hdr |-> hdr, act |-> acts, press |-> press] \in Macro
<1>1. h = hdr /\ acts_ptr = hdr.acts /\ press_ptr = hdr.press
  BY DEF Pointee, Complete
<1>2. /\ hdr \in Header /\ hdr.acts \in Nat \ {0} /\ hdr.press \in Nat \ {0}
      /\ host.act \in Seq(Button) /\ host.press \in Seq(Button)
      /\ acts \in [1 .. hdr.acts -> Button \cup {JUNK}] \cup {NULL}
      /\ press \in [1 .. hdr.press -> Button \cup {JUNK}] \cup {NULL}
  BY Counts DEF SInv, StagedTypes
<1>3. /\ acts # NULL /\ Filled(acts, hdr.acts, hdr.acts, host.act)
      /\ press # NULL /\ Filled(press, hdr.press, hdr.press, host.press)
      /\ hdr = host.hdr
  BY <1>1, <1>2 DEF SInv, StagedAsTold, Taken
<1>4. acts = host.act /\ acts \in Tuples(hdr.acts)
  BY <1>2, <1>3, AllFilled
<1>5. press = host.press /\ press \in Tuples(hdr.press)
  BY <1>2, <1>3, AllFilled
<1>6. [hdr |-> hdr, act |-> acts, press |-> press] \in MacrosWith(hdr)
  BY <1>4, <1>5 DEF MacrosWith
<1>7. [hdr |-> hdr, act |-> acts, press |-> press] \in Macro
  BY <1>2, <1>6, SessionAssumption
<1> QED  BY <1>3, <1>4, <1>5, <1>7 DEF Filled

LEMMA StagedContent ==
  ASSUME SInv, NEW h \in Pointee, Complete(h), NEW c \in Staged
  PROVE  c \in Content
<1>1. CASE macro_new = "live"
  BY <1>1, StopComplete DEF Staged, Content
<1>2. CASE macro_new # "live"
  BY <1>2 DEF Staged, Content, Damaged
<1> QED  BY <1>1, <1>2

LEMMA DamageType ==
  ASSUME NEW t \in [Block -> Content], NEW E, NEW T
  PROVE  Damage(t, E, T) \in [Block -> Content]
  BY DEF Damage, Content, Damaged

\* The actions of the table in the words of this module.
LEMMA CutIs ==
  ASSUME NEW p, Store!CutPage(p)
  PROVE  \E E, T \in SUBSET BlocksOf(p) : table' = Damage(table, E, T)
  BY DEF Store!CutPage, Store!Damage, Store!BlocksOf, Store!Block, Damage, BlocksOf, Block

LEMMA CutAddIs ==
  ASSUME NEW m, Store!CutAdd(m)
  PROVE  \E d \in Block : \E E, T \in SUBSET BlocksOf(PageOf[d]) :
           table' = Damage([table EXCEPT ![d] = m], E, T)
  BY DEF Store!CutAdd, Store!Damage, Store!BlocksOf, Store!Block, Damage, BlocksOf, Block

LEMMA AddIs ==
  ASSUME NEW m, NEW b \in Block, FirstOf(b, FreeIn(table)), table' = [table EXCEPT ![b] = m]
  PROVE  Store!Add(m)
  BY DEF Store!Add, Store!FirstOf, Store!FreeIn, Store!Block, FirstOf, FreeIn, Block

LEMMA TableInitially == Init => TInv
  BY DEF Init, TInv, Delivered, Content, Damaged

LEMMA TableStep == SInv /\ TInv /\ [Next]_vars => TInv'
<1> SUFFICES ASSUME SInv, TInv, [Next]_vars PROVE TInv'
  OBVIOUS
<1> USE DEF TInv
<1>1. CASE UNCHANGED table
  BY <1>1
<1>2. CASE AddStop \/ AddStopDoubleFree
  <2>1. PICK h \in Pointee : Complete(h)
    BY <1>2 DEF AddStop, AddStopDoubleFree
  <2>2. PICK c \in Staged :
          table' = [b \in Block |-> IF FirstOf(b, FreeIn(table)) THEN c ELSE table[b]]
    BY <1>2 DEF AddStop, AddStopDoubleFree
  <2> QED  BY <2>1, <2>2, StagedContent
<1>3. CASE Clear
  BY <1>3 DEF Clear, AllClean, Content
<1>4. CASE PowerCutInStop
  <2>1. PICK h \in Pointee : Complete(h)
    BY <1>4 DEF PowerCutInStop
  <2>2. PICK b \in Block : Store!CutPage(PageOf[b]) \/ \E c \in Staged : Store!CutAdd(c)
    BY <1>4 DEF PowerCutInStop
  <2>3. CASE Store!CutPage(PageOf[b])
    BY <2>3, CutIs, DamageType
  <2>4. ASSUME NEW c \in Staged, Store!CutAdd(c) PROVE TInv'
    <3>1. c \in Content
      BY <2>1, StagedContent
    <3>2. PICK d \in Block : \E E, T \in SUBSET BlocksOf(PageOf[d]) :
            table' = Damage([table EXCEPT ![d] = c], E, T)
      BY <2>4, CutAddIs
    <3>3. [table EXCEPT ![d] = c] \in [Block -> Content]
      BY <3>1
    <3>4. PICK E, T : table' = Damage([table EXCEPT ![d] = c], E, T)
      BY <3>2
    <3> QED  BY <3>3, <3>4, DamageType
  <2> QED  BY <2>2, <2>3, <2>4
<1>5. CASE PowerCutInClear
  <2>1. PICK p \in Page : \E upto \in {p, p + 1} :
          \E E \in SUBSET BlocksOf(p) : \E T \in SUBSET (BlocksOf(p) \ E) :
            table' = Damage([b \in Block |-> IF PageOf[b] < upto THEN CLEAN ELSE table[b]], E, T)
    BY <1>5 DEF PowerCutInClear
  <2>2. \A upto : [b \in Block |-> IF PageOf[b] < upto THEN CLEAN ELSE table[b]]
                    \in [Block -> Content]
    BY DEF Content
  <2> QED  BY <2>1, <2>2, DamageType
<1> QED
  BY <1>1, <1>2, <1>3, <1>4, <1>5
     DEF Next, AddStart, AddStartRefused, Act, Press, ActRefused, PressRefused,
         AddStopRefused, AddStartNoRoom, AddStartDoubleFree, ReadMacros, UnknownCommand,
         PowerCycle, vars

LEMMA SessionInvariant == Spec => [](SInv /\ TInv)
  BY StagedInit, TableInitially, StagedStep, TableStep, PTL DEF Spec

\* A stop that is answered OK, to a host that started a macro, stores exactly what that
\* host sent, in the first free block.
THEOREM StoresWhatWasSent == Spec => StoredAsSent
<1>1. SInv /\ TInv /\ [Next]_vars /\ StopAccepted =>
        /\ Len(host.act) = host.hdr.acts /\ Len(host.press) = host.hdr.press
        /\ Store!Add(HostMacro) \/ (FreeIn(table) = {} /\ table' = table)
  <2> SUFFICES ASSUME SInv, TInv, [Next]_vars, StopAccepted
               PROVE  /\ Len(host.act) = host.hdr.acts /\ Len(host.press) = host.hdr.press
                      /\ Store!Add(HostMacro) \/ (FreeIn(table) = {} /\ table' = table)
    OBVIOUS
  <2>1. macro_new = "live"
    BY DEF SInv, StagedAsTold, StopAccepted
  <2>2. AddStop
    BY DEF StopAccepted, Next, AddStart, AddStartRefused, Act, Press, ActRefused, PressRefused,
       AddStopRefused, AddStartNoRoom, AddStartDoubleFree, AddStopDoubleFree, Clear,
       ReadMacros, UnknownCommand, PowerCycle, PowerCutInStop, PowerCutInClear, Boot, Answered, vars
  <2>3. PICK h \in Pointee : Complete(h)
    BY <2>2 DEF AddStop
  <2>4. PICK c \in Staged :
          table' = [b \in Block |-> IF FirstOf(b, FreeIn(table)) THEN c ELSE table[b]]
    BY <2>2 DEF AddStop
  <2>5. c = HostMacro
    BY <2>1, <2>3, <2>4, StopComplete DEF Staged, HostMacro
  <2>6. CASE FreeIn(table) = {}
    BY <2>1, <2>3, <2>4, <2>6, StopComplete DEF FirstOf, TInv
  <2>7. CASE FreeIn(table) # {}
    <3>1. FreeIn(table) \in SUBSET Block
      BY DEF FreeIn
    <3>2. PICK b \in Block : FirstOf(b, FreeIn(table))
      BY <2>7, <3>1, FirstExists
    <3>3. \A d \in Block : FirstOf(d, FreeIn(table)) <=> d = b
      BY <3>1, <3>2, FirstIsUnique
    <3>4. table' = [table EXCEPT ![b] = HostMacro]
      BY <2>4, <2>5, <3>3 DEF TInv
    <3> QED  BY <2>1, <2>3, <3>2, <3>4, StopComplete, AddIs
  <2> QED  BY <2>6, <2>7
<1> QED  BY <1>1, SessionInvariant, PTL DEF Spec, StoredAsSent
-------------------------------------------------------------------------------
\* The installed macros, the heap and the faults.  What decides about them is what
\* update_gamepads_macro() read, which is the table when no block is damaged.

\* All that is on the heap is what is staged and the installed lists.
HeapOwned == mode = "up" => heap = StagedUse + HeapUse(installed)

IInv == HeapOwned /\ InstalledAsStored /\ OnlyStorageFillsHeap

LEMMA UseIsNatural == ASSUME NEW lists PROVE HeapUse(lists) \in Nat
<1>1. IsFiniteSet(Pad) /\ IsFiniteSet(Block) /\ IsFiniteSet(0 .. 2 * MaxCount)
  BY SessionAssumption, BlocksAssumption, FS_Interval DEF Block
<1>2. IsFiniteSet((Pad \X Block) \X (0 .. 2 * MaxCount))
  BY <1>1, FS_Product
<1> DEFINE units == {c \in (Pad \X Block) \X (0 .. 2 * MaxCount) :
                      LET m == lists[c[1][1]][c[1][2]] IN m # CLEAN /\ c[2] <= Entries(m)}
<1>3. IsFiniteSet(units)
  BY <1>2, FS_Subset
<1>4. Cardinality(units) \in Nat
  BY <1>3, FS_CardinalityType
<1> QED  BY <1>4 DEF HeapUse

LEMMA NoUse == HeapUse(NoMacros) = 0
<1>1. {c \in (Pad \X Block) \X (0 .. 2 * MaxCount) :
         LET m == NoMacros[c[1][1]][c[1][2]] IN m # CLEAN /\ c[2] <= Entries(m)} = {}
  BY DEF NoMacros
<1> QED  BY <1>1, FS_EmptySet DEF HeapUse

LEMMA StagedUseIsNatural == ASSUME SInv PROVE StagedUse \in Nat
  BY Counts DEF SInv, StagedTypes, StagedUse, Size

LEMMA ReadsTheTable ==
  ASSUME NEW t \in [Block -> Content], NEW r \in Readings(t),
         \A b \in Block : t[b] \notin Damaged
  PROVE  r = t
  BY DEF Readings, Damaged

LEMMA ReinstallKeeps ==
  ASSUME NEW used, NEW cmd \in {"stop", "clear"}, table' \in [Block -> Content],
         Reinstall(table', used, cmd), used = StagedUse', used = 0 \/ table' = AllClean
  PROVE  IInv'
<1>1. PICK r \in Readings(table') :
        \/ /\ mode' = "up" /\ installed' = Installation(r) /\ changed' = TRUE
           /\ heap' = used + HeapUse(Installation(r))
        \/ ~Fits(r, used) /\ mode' = "fault"
  BY DEF Reinstall, Answered
<1>2. HeapOwned'
  BY <1>1 DEF HeapOwned
<1>3. CASE ~Undamaged'
  BY <1>2, <1>3 DEF IInv, InstalledAsStored, OnlyStorageFillsHeap
<1>4. CASE Undamaged'
  <2>1. r = table'
    BY <1>1, <1>4, ReadsTheTable DEF Undamaged
  <2>2. table' = AllClean => Fits(table', used)
    BY DEF AllClean, Fits
  <2>3. ~Fits(r, used) => ~Fits(table', 0)
    BY <2>1, <2>2
  <2> QED  BY <1>1, <1>2, <2>1, <2>3 DEF IInv, InstalledAsStored, OnlyStorageFillsHeap
<1> QED  BY <1>3, <1>4

LEMMA BootKeeps == Boot => IInv'
<1> SUFFICES ASSUME Boot PROVE IInv'
  OBVIOUS
<1>1. mode' = "up" /\ installed' = NoMacros /\ heap' = 0 /\ macro_new' = "null" /\ ~changed'
  BY DEF Boot
<1>2. HeapOwned'
  BY <1>1, NoUse DEF HeapOwned, StagedUse
<1> QED  BY <1>1, <1>2 DEF IInv, InstalledAsStored, OnlyStorageFillsHeap

LEMMA InstalledInit == Init => IInv
  BY NoUse DEF Init, IInv, HeapOwned, StagedUse, InstalledAsStored, OnlyStorageFillsHeap

\* What is staged is freed before it is replaced.
LEMMA StartKeeps ==
  ASSUME SInv, IInv, NEW h \in Header, AddStart(h) \/ AddStartRefused(h)
  PROVE  IInv'
<1>1. StagedUse \in Nat /\ HeapUse(installed) \in Nat
  BY StagedUseIsNatural, UseIsNatural
<1>2. mode = "up" /\ UNCHANGED <<table, mode, installed, changed>>
  BY DEF AddStart, AddStartRefused, Answered
<1>3. heap - StagedUse = HeapUse(installed)
  BY <1>1, <1>2 DEF IInv, HeapOwned
<1>4. CASE AddStart(h)
  <2>1. h.acts \in Nat /\ h.press \in Nat
    BY Counts
  <2>2. /\ macro_new' = "live" /\ hdr' = h
        /\ heap' = HeapUse(installed) + 1 + Size(acts', h.acts) + Size(press', h.press)
    BY <1>3, <1>4 DEF AddStart, NewArrays
  <2>3. StagedUse' = 1 + Size(acts', h.acts) + Size(press', h.press)
    BY <2>2 DEF StagedUse
  <2>4. heap' = StagedUse' + HeapUse(installed)
    BY <1>1, <2>1, <2>2, <2>3 DEF Size
  <2>5. HeapOwned'
    BY <1>2, <2>4 DEF HeapOwned
  <2> QED  BY <1>2, <2>5 DEF IInv, InstalledAsStored, OnlyStorageFillsHeap, Undamaged
<1>5. CASE AddStartRefused(h)
  <2>1. heap' = HeapUse(installed) /\ StagedUse' = 0
    BY <1>3, <1>5 DEF AddStartRefused, StagedUse
  <2>2. HeapOwned'
    BY <1>1, <1>2, <2>1 DEF HeapOwned
  <2> QED  BY <1>2, <2>2 DEF IInv, InstalledAsStored, OnlyStorageFillsHeap, Undamaged
<1> QED  BY <1>4, <1>5

\* A header finds no room beside the installed lists only when those fill the heap.
LEMMA NoRoomKeeps ==
  ASSUME SInv, IInv, AddStartNoRoom
  PROVE  IInv'
<1>1. /\ mode = "up" /\ mode' = "fault" /\ heap - StagedUse + 1 > HeapRoom
      /\ UNCHANGED <<table, macro_new, installed, changed>>
  BY DEF AddStartNoRoom, staging
<1>2. HeapUse(installed) + 1 > HeapRoom
  BY <1>1, StagedUseIsNatural, UseIsNatural DEF IInv, HeapOwned
<1>3. Undamaged => installed = Installation(table)
  BY <1>1, <1>2, NoUse, SessionAssumption DEF IInv, InstalledAsStored
<1>4. Undamaged' => HeapUse(Installation(table)) + 1 > HeapRoom
  BY <1>1, <1>2, <1>3 DEF Undamaged
<1>5. OnlyStorageFillsHeap'
  BY <1>1, <1>4 DEF OnlyStorageFillsHeap
<1> QED  BY <1>1, <1>5 DEF IInv, HeapOwned, InstalledAsStored

LEMMA RebuildKeeps ==
  ASSUME SInv, IInv, TInv', AddStop \/ Clear
  PROVE  IInv'
<1>1. StagedUse \in Nat /\ HeapUse(installed) \in Nat
  BY StagedUseIsNatural, UseIsNatural
<1>2. CASE AddStop
  <2>1. /\ Reinstall(table', heap - StagedUse - HeapUse(installed), "stop")
        /\ mode = "up" /\ macro_new' = "null"
    BY <1>2 DEF AddStop
  <2>2. heap - StagedUse - HeapUse(installed) = 0 /\ StagedUse' = 0
    BY <1>1, <2>1 DEF IInv, HeapOwned, StagedUse
  <2> QED  BY <2>1, <2>2, ReinstallKeeps DEF TInv
<1>3. CASE Clear
  <2>1. /\ Reinstall(table', heap - HeapUse(installed), "clear") /\ table' = AllClean
        /\ mode = "up" /\ UNCHANGED staging
    BY <1>3 DEF Clear
  <2>2. heap - HeapUse(installed) = StagedUse /\ StagedUse' = StagedUse
    BY <1>1, <2>1 DEF IInv, HeapOwned, StagedUse, staging
  <2> QED  BY <2>1, <2>2, ReinstallKeeps DEF TInv
<1> QED  BY <1>2, <1>3

\* ACT and PRESS write to arrays that are there.
LEMMA ArrayWriteKeeps ==
  ASSUME SInv, IInv, NEW b \in Button, Act(b) \/ Press(b)
  PROVE  IInv'
<1>1. SInv'
  BY StagedByAct, StagedByPress
<1>2. macro_new = "live"
  BY DEF SInv, StagedTypes, StagedAsTold, Act, Press
<1>3. /\ mode = "up" /\ macro_new' = "live" /\ hdr' = hdr
      /\ UNCHANGED <<table, mode, installed, heap, changed>>
  BY <1>2 DEF Act, Press, Answered
<1>4. hdr \in Header
  BY <1>2 DEF SInv, StagedTypes
<1>5. (acts' = NULL <=> acts = NULL) /\ (press' = NULL <=> press = NULL)
  <2>1. CASE Act(b)
    <3>1. acts # NULL /\ acts' = [acts EXCEPT ![acts_ptr + 1] = b] /\ press' = press
      BY <2>1 DEF Act
    <3>2. acts \in [1 .. hdr.acts -> Button \cup {JUNK}]
      BY <1>2, <3>1 DEF SInv, StagedTypes
    <3>3. acts' \in [1 .. hdr.acts -> Button \cup {JUNK}]
      BY <3>1, <3>2
    <3> QED  BY <1>4, <3>1, <3>3, Counts, NoArrayIsNull
  <2>2. CASE Press(b)
    <3>1. press # NULL /\ press' = [press EXCEPT ![press_ptr + 1] = b] /\ acts' = acts
      BY <2>2 DEF Press
    <3>2. press \in [1 .. hdr.press -> Button \cup {JUNK}]
      BY <1>2, <3>1 DEF SInv, StagedTypes
    <3>3. press' \in [1 .. hdr.press -> Button \cup {JUNK}]
      BY <3>1, <3>2
    <3> QED  BY <1>4, <3>1, <3>3, Counts, NoArrayIsNull
  <2> QED  BY <2>1, <2>2
<1>6. StagedUse' = StagedUse
  BY <1>2, <1>3, <1>5 DEF StagedUse, Size
<1>7. HeapOwned'
  BY <1>3, <1>6 DEF IInv, HeapOwned
<1> QED  BY <1>3, <1>7 DEF IInv, InstalledAsStored, OnlyStorageFillsHeap, Undamaged

LEMMA InstalledStep == SInv /\ IInv /\ TInv' /\ [Next]_vars => IInv'
<1> SUFFICES ASSUME SInv, IInv, TInv', [Next]_vars PROVE IInv'
  OBVIOUS
<1>1. CASE AddStop \/ Clear
  BY <1>1, RebuildKeeps
<1>2. CASE Boot
  BY <1>2, BootKeeps
<1>3. ASSUME NEW h \in Header, AddStart(h) \/ AddStartRefused(h) PROVE IInv'
  BY <1>3, StartKeeps
<1>4. CASE AddStartNoRoom
  BY <1>4, NoRoomKeeps
<1>5. CASE AddStartDoubleFree \/ AddStopDoubleFree
  BY <1>5 DEF AddStartDoubleFree, AddStopDoubleFree, staging, IInv, HeapOwned,
     InstalledAsStored, OnlyStorageFillsHeap
<1>6. ASSUME NEW b \in Button, Act(b) \/ Press(b) PROVE IInv'
  BY <1>6, ArrayWriteKeeps
<1>7. ASSUME UNCHANGED <<table, mode, installed, heap, changed, staging>>,
             mode = "up" \/ UNCHANGED vars
      PROVE  IInv'
  BY <1>7 DEF vars, staging, IInv, HeapOwned, StagedUse, InstalledAsStored,
     OnlyStorageFillsHeap, Undamaged
<1>8. CASE ActRefused \/ PressRefused \/ AddStopRefused \/ ReadMacros \/ UnknownCommand
  BY <1>7, <1>8 DEF ActRefused, PressRefused, AddStopRefused, ReadMacros, UnknownCommand, Answered
<1>9. CASE UNCHANGED vars
  BY <1>7, <1>9 DEF vars, staging
<1> QED
  BY <1>1, <1>2, <1>3, <1>4, <1>5, <1>6, <1>8, <1>9
     DEF Next, PowerCycle, PowerCutInStop, PowerCutInClear

LEMMA InstalledInvariant == Spec => []IInv
<1>1. SInv /\ TInv /\ [Next]_vars => TInv'
  BY TableStep
<1> QED  BY <1>1, SessionInvariant, InstalledInit, InstalledStep, PTL DEF Spec

\* update_gamepads_macro() follows every change of the storage: unless a block is
\* unreadable, what is in force is what is stored, once a stop or a clear was answered OK
\* since the last boot, and nothing before that.
THEOREM InForce == Spec => []InstalledAsStored
<1>1. IInv => InstalledAsStored
  BY DEF IInv
<1> QED  BY <1>1, InstalledInvariant, PTL

\* What config_endpoint_out_callback() and update_gamepads_macro() allocated is staged or
\* installed: no session that is restarted, refused, stored or cleared away leaks.
THEOREM NothingLeaks == Spec => []HeapOwned
<1>1. IInv => HeapOwned
  BY DEF IInv
<1> QED  BY <1>1, InstalledInvariant, PTL

\* So the endpoint fails for want of memory only over stored macros that are too many
\* for an otherwise empty heap.
THEOREM OnlyStorageFaults == Spec => []OnlyStorageFillsHeap
<1>1. IInv => OnlyStorageFillsHeap
  BY DEF IInv
<1> QED  BY <1>1, InstalledInvariant, PTL
-------------------------------------------------------------------------------
\* With a host whose headers all have buttons, the counters that a stop leaves behind
\* are those of a complete macro.
Honest == \A h \in Header : h.acts # 0 /\ h.press # 0

NInv ==
  /\ macro_new \in {"null", "live"}
  /\ macro_new = "live" => hdr \in Header
  /\ macro_new = "null" => acts_ptr # 0 \/ press_ptr = 0

LEMMA NullCounts == NullHeader.acts = 0 /\ NullHeader.press # 0
  BY SessionAssumption

LEMMA NullStep == Honest /\ SInv /\ NInv /\ [Next]_vars => NInv'
<1> SUFFICES ASSUME Honest, SInv, NInv, [Next]_vars PROVE NInv'
  OBVIOUS
<1>1. ASSUME NEW h \in Header, AddStart(h) PROVE NInv'
  BY <1>1 DEF AddStart, NInv
<1>2. ASSUME NEW h \in Header, AddStartRefused(h) PROVE NInv'
  BY <1>2 DEF AddStartRefused, Honest
<1>3. ASSUME NEW b \in Button, Act(b) \/ Press(b) PROVE NInv'
  BY <1>3 DEF Act, Press, NInv
<1>4. CASE AddStop
  <2>1. PICK h \in Pointee : Complete(h)
    BY <1>4 DEF AddStop
  <2>2. macro_new = "live"
    BY <2>1, NullCounts DEF NInv, Pointee, Complete
  <2>3. acts_ptr # 0
    BY <2>1, <2>2 DEF Pointee, Complete, NInv, Honest
  <2> QED  BY <1>4, <2>3 DEF AddStop, NInv
<1>5. CASE Boot
  BY <1>5 DEF Boot, NInv
<1>6. CASE UNCHANGED staging
  BY <1>6 DEF staging, NInv
<1> QED
  BY <1>1, <1>2, <1>3, <1>4, <1>5, <1>6
     DEF Next, ActRefused, PressRefused, AddStopRefused, AddStartNoRoom, AddStartDoubleFree,
         AddStopDoubleFree,
         Clear, ReadMacros, UnknownCommand, PowerCycle, PowerCutInStop, PowerCutInClear,
         vars, staging

\* A stop without a start finds counts behind the null pointer that are not those of the
\* last session, whatever that was.
THEOREM NullRefused ==
  ASSUME Honest
  PROVE  Spec => []NullNeverComplete
<1>1. Init => NInv
  BY DEF Init, NInv
<1>2. SInv /\ NInv /\ [Next]_vars => NInv'
  BY NullStep
<1>3. NInv => NullNeverComplete
  BY NullCounts DEF NInv, NullNeverComplete, Complete
<1> QED  BY <1>1, <1>2, <1>3, Staging, PTL DEF Spec
-----------------------------------------------------------------------------

\* There was no room for one of the two arrays: the macro will not be complete, and
\* what was taken of it does not matter.
Starved == macro_new = "live" /\ (acts = NULL \/ press = NULL)

\* The device has taken the commands of the script up to position q, each once.
UpToCommand(q) ==
  IF q = StopAt THEN macro_new = "null"
  ELSE /\ macro_new = "live"
       /\ acts_ptr  = IF q <= Acts + 1 THEN q - 1 ELSE Acts
       /\ press_ptr = IF q <= Acts + 1 THEN 0 ELSE q - 1 - Acts
       /\ \A k \in 1 .. acts_ptr : acts[k] = Wanted.act[k]
       /\ \A k \in 1 .. press_ptr : press[k] = Wanted.press[k]

Prefix(q) == Starved \/ UpToCommand(q)

\* Command q may come next, ...
InOrderAt(q) == q = 1 \/ Prefix(q - 1)

\* ... or it has come before, or its macro is lost: the device will refuse it, or a
\* later one before the stop.
Beyond(q) ==
  /\ q # 1
  /\ \/ macro_new = "null"
     \/ q \in 2 .. Acts + 1 /\ acts_ptr >= q - 1
     \/ q \in Acts + 2 .. StopAt - 1 /\ press_ptr >= q - 1 - Acts

\* Only a host that never gave up waiting repeats commands, and then the answer it
\* gets is the one to its command.
Repeats(q) == timeouts = 0 /\ Beyond(q)

Understood ==
  \/ Prefix(pos)
  \/ Repeats(pos) /\ \/ in = "unknown"
                     \/ in = "ok" /\ pos + 1 <= StopAt /\ Beyond(pos + 1)

\* A command that is still on its way when the host goes on, by the answer to an
\* earlier one, or gives up.
OnItsWay ==
  \E q \in 1 .. StopAt :
    /\ out = Script(q) /\ timeouts # 0
    /\ \/ InOrderAt(q) /\ pos = q + 1
       \/ (InOrderAt(q) \/ Beyond(q)) /\ pos = 1

InStep ==
  /\ waiting /\ out # NULL =>
       /\ out = Script(pos) /\ (InOrderAt(pos) \/ Repeats(pos))
       /\ timeouts = 0 => in = NULL
  /\ waiting /\ out = NULL => Understood
  /\ ~waiting /\ out = NULL =>
       /\ pos <= StopAt => InOrderAt(pos) \/ Repeats(pos)
       /\ timeouts = 0 => in = NULL
  /\ ~waiting /\ out # NULL => OnItsWay

\* A device that failed answers nothing more.
Places == IF mode = "up" THEN InStep ELSE timeouts = 0 => in = NULL

\* A macro that is staged is the wanted one, and without one a stop is refused.
StagedWanted ==
  /\ macro_new \in {"null", "live"}
  /\ macro_new = "live" => hdr = Wanted.hdr
  /\ macro_new = "null" => acts_ptr # 0 \/ press_ptr = 0

LinkTypes ==
  /\ pos \in 1 .. StopAt + 1 /\ waiting \in BOOLEAN /\ timeouts \in Nat
  /\ waiting => pos <= StopAt

LInv == SInv /\ StagedWanted /\ LinkTypes /\ Places /\ OnlyWanted
-----------------------------------------------------------------------------
LEMMA WantedType ==
  /\ Wanted.hdr \in Header /\ Acts \in Nat \ {0} /\ Presses \in Nat \ {0}
  /\ Wanted.act \in [1 .. Acts -> Button] /\ Wanted.press \in [1 .. Presses -> Button]
  /\ Wanted = [hdr |-> Wanted.hdr, act |-> Wanted.act, press |-> Wanted.press]
<1>1. PICK h \in Header : Wanted \in MacrosWith(h)
  BY LinkAssumption, SessionAssumption
<1>2. Wanted.hdr = h /\ Wanted \in [hdr : {h}, act : Tuples(h.acts), press : Tuples(h.press)]
  BY <1>1 DEF MacrosWith
<1>3. Acts = h.acts /\ Presses = h.press /\ Acts \in Nat \ {0} /\ Presses \in Nat \ {0}
  BY <1>2, Counts, LinkAssumption DEF Acts, Presses
<1>4. Wanted.act \in Tuples(Acts) /\ Wanted.press \in Tuples(Presses)
  BY <1>2, <1>3
<1> QED  BY <1>2, <1>3, <1>4 DEF Tuples

\* The handler, when the packet it gets is command q of the script.
Commanded(q) ==
  \/ q = 1 /\ (AddStart(Wanted.hdr) \/ AddStartNoRoom)
  \/ q \in 2 .. Acts + 1 /\ (Act(Wanted.act[q - 1]) \/ ActRefused)
  \/ q \in Acts + 2 .. StopAt - 1 /\ (Press(Wanted.press[q - 1 - Acts]) \/ PressRefused)
  \/ q = StopAt /\ (AddStop \/ AddStopRefused)

LEMMA CommandIs ==
  ASSUME NEW q \in 1 .. StopAt, out = Script(q), Command
  PROVE  Commanded(q)
<1> USE WantedType
<1>1. q \in Nat /\ StopAt = Acts + Presses + 2
  BY DEF StopAt
<1>2. CASE q = 1
  <2>1. out = [cmd |-> "start", arg |-> Wanted.hdr]
    BY <1>1, <1>2 DEF Script
  <2> QED  BY <1>2, <2>1 DEF Command, Commanded
<1>3. CASE q \in 2 .. Acts + 1
  <2>1. out = [cmd |-> "act", arg |-> Wanted.act[q - 1]]
    BY <1>1, <1>3 DEF Script
  <2> QED  BY <1>3, <2>1 DEF Command, Commanded
<1>4. CASE q \in Acts + 2 .. StopAt - 1
  <2>1. out = [cmd |-> "press", arg |-> Wanted.press[q - 1 - Acts]]
    BY <1>1, <1>4 DEF Script
  <2> QED  BY <1>4, <2>1 DEF Command, Commanded
<1>5. CASE q = StopAt
  <2>1. out = [cmd |-> "stop", arg |-> NULL]
    BY <1>1, <1>5 DEF Script
  <2> QED  BY <1>5, <2>1 DEF Command, Commanded
<1> QED  BY <1>1, <1>2, <1>3, <1>4, <1>5

LEMMA CommandIsNext ==
  ASSUME NEW q \in 1 .. StopAt, Commanded(q)
  PROVE  Next
<1> USE WantedType
<1>1. q \in Nat /\ StopAt = Acts + Presses + 2
  BY DEF StopAt
<1>2. q \in 2 .. Acts + 1 => Wanted.act[q - 1] \in Button
  BY <1>1
<1>3. ASSUME q \in Acts + 2 .. StopAt - 1 PROVE Wanted.press[q - 1 - Acts] \in Button
  <2>1. q - 1 - Acts \in 1 .. Presses
    BY <1>1, <1>3
  <2> QED  BY <2>1
<1>4. AddStart(Wanted.hdr) \/ AddStartNoRoom => Next
  BY DEF Next
<1>5. q \in 2 .. Acts + 1 /\ Act(Wanted.act[q - 1]) => Next
  BY <1>2 DEF Next
<1>6. q \in Acts + 2 .. StopAt - 1 /\ Press(Wanted.press[q - 1 - Acts]) => Next
  BY <1>3 DEF Next
<1>7. ActRefused \/ PressRefused \/ AddStop \/ AddStopRefused => Next
  BY DEF Next
<1> QED  BY <1>4, <1>5, <1>6, <1>7 DEF Commanded

\* What is staged, when it is: how much of it, and in arrays of the right size.
LEMMA Sizes ==
  ASSUME SInv, StagedWanted, macro_new = "live"
  PROVE  /\ hdr.acts = Acts /\ hdr.press = Presses
         /\ acts_ptr \in 0 .. Acts /\ press_ptr \in 0 .. Presses
         /\ IF acts = NULL THEN acts_ptr = 0
            ELSE acts \in [1 .. Acts -> Button \cup {JUNK}]
         /\ IF press = NULL THEN press_ptr = 0
            ELSE press \in [1 .. Presses -> Button \cup {JUNK}]
<1>1. hdr.acts = Acts /\ hdr.press = Presses
  BY DEF StagedWanted, Acts, Presses
<1> QED
  BY <1>1, WantedType DEF SInv, StagedTypes, StagedAsTold, Taken, Filled

\* A stop that is not refused finds a staged macro, and all of it.
LEMMA StopIsLive ==
  ASSUME SInv, StagedWanted, AddStop
  PROVE  macro_new = "live" /\ ~Starved /\ acts_ptr = Acts /\ press_ptr = Presses
<1>1. PICK h \in Pointee : Complete(h)
  BY DEF AddStop
<1>2. macro_new = "live"
  BY <1>1, NullCounts DEF Pointee, Complete, StagedWanted
<1> QED  BY <1>1, <1>2, Sizes, WantedType DEF Pointee, Complete, Starved

LEMMA StagedWantedStep ==
  ASSUME SInv, StagedWanted, NEW q \in 1 .. StopAt, Commanded(q)
  PROVE  StagedWanted'
<1>1. CASE AddStart(Wanted.hdr)
  BY <1>1 DEF AddStart, StagedWanted
<1>2. ASSUME NEW b, Act(b) \/ Press(b) PROVE StagedWanted'
  BY <1>2 DEF Act, Press, StagedWanted
<1>3. CASE AddStop
  BY <1>3, StopIsLive, WantedType DEF AddStop, StagedWanted
<1>4. CASE ActRefused \/ PressRefused \/ AddStopRefused \/ AddStartNoRoom
  BY <1>4 DEF ActRefused, PressRefused, AddStopRefused, AddStartNoRoom, staging, StagedWanted
<1> QED  BY <1>1, <1>2, <1>3, <1>4 DEF Commanded

LEMMA StepsOfSession ==
  ASSUME SInv, StagedWanted, NEW q \in 1 .. StopAt, Commanded(q)
  PROVE  SInv' /\ StagedWanted'
  BY CommandIsNext, StagedStep, StagedWantedStep

\* Arrays that agree with those of the wanted macro.
LEMMA SameArray ==
  ASSUME NEW size, NEW f \in [1 .. size -> Button \cup {JUNK}], NEW g \in [1 .. size -> Button],
         \A k \in 1 .. size : f[k] = g[k]
  PROVE  f = g
<1>1. f = [k \in 1 .. size |-> f[k]] /\ g = [k \in 1 .. size |-> g[k]]
  OBVIOUS
<1>2. [k \in 1 .. size |-> f[k]] = [k \in 1 .. size |-> g[k]]
  OBVIOUS
<1> QED  BY <1>1, <1>2

LEMMA OneMoreAgrees ==
  ASSUME NEW size \in Nat, NEW n \in 1 .. size, NEW f \in [1 .. size -> Button \cup {JUNK}],
         NEW g, \A k \in 1 .. n - 1 : f[k] = g[k]
  PROVE  \A k \in 1 .. n : [f EXCEPT ![n] = g[n]][k] = g[k]
  OBVIOUS

\* Command q, after those before it: the device takes it.
LEMMA TakenByStart ==
  ASSUME AddStart(Wanted.hdr)
  PROVE  Prefix(1)' /\ UNCHANGED table
<1>1. 1 # StopAt /\ 1 <= Acts + 1 /\ Acts \in Nat
  BY WantedType DEF StopAt
<1> QED  BY <1>1 DEF AddStart, Prefix, UpToCommand

\* An array that is missing stays so until the next start.
LEMMA StarvedStays ==
  ASSUME Starved, NEW b, Act(b) \/ Press(b) \/ ActRefused \/ PressRefused
  PROVE  Starved' /\ UNCHANGED table
<1>1. CASE Act(b)
  BY <1>1 DEF Act, Starved
<1>2. CASE Press(b)
  BY <1>2 DEF Press, Starved
<1>3. CASE ActRefused \/ PressRefused
  BY <1>3 DEF ActRefused, PressRefused, staging, Starved
<1> QED  BY <1>1, <1>2, <1>3

LEMMA TakenByAct ==
  ASSUME SInv, StagedWanted, NEW q \in 2 .. Acts + 1, Prefix(q - 1),
         Act(Wanted.act[q - 1]) \/ ActRefused
  PROVE  Prefix(q)' /\ UNCHANGED table
<1>1. q \in Nat /\ StopAt = Acts + Presses + 2 /\ Acts \in Nat \ {0} /\ Presses \in Nat \ {0}
  BY WantedType DEF StopAt
<1> SUFFICES ASSUME ~Starved PROVE Prefix(q)' /\ UNCHANGED table
  BY StarvedStays DEF Prefix
<1>2. /\ macro_new = "live" /\ acts # NULL /\ acts_ptr = q - 2 /\ press_ptr = 0
      /\ \A k \in 1 .. q - 2 : acts[k] = Wanted.act[k]
  BY <1>1 DEF Prefix, UpToCommand, Starved
<1>3. Act(Wanted.act[q - 1])
  BY <1>1, <1>2, Sizes DEF ActRefused
<1>4. /\ macro_new' = "live" /\ acts_ptr' = q - 1 /\ press_ptr' = 0
      /\ acts' = [acts EXCEPT ![q - 1] = Wanted.act[q - 1]]
      /\ UNCHANGED table
  <2>1. acts_ptr + 1 = q - 1
    BY <1>1, <1>2
  <2> QED  BY <1>2, <1>3, <2>1 DEF Act
<1>5. \A k \in 1 .. q - 1 : acts'[k] = Wanted.act[k]
  BY <1>1, <1>2, <1>4, Sizes
<1> QED  BY <1>1, <1>4, <1>5 DEF Prefix, UpToCommand

LEMMA TakenByPress ==
  ASSUME SInv, StagedWanted, NEW q \in Acts + 2 .. StopAt - 1, Prefix(q - 1),
         Press(Wanted.press[q - 1 - Acts]) \/ PressRefused
  PROVE  Prefix(q)' /\ UNCHANGED table
<1>1. q \in Nat /\ StopAt = Acts + Presses + 2 /\ Acts \in Nat \ {0} /\ Presses \in Nat \ {0}
  BY WantedType DEF StopAt
<1> SUFFICES ASSUME ~Starved PROVE Prefix(q)' /\ UNCHANGED table
  BY StarvedStays DEF Prefix
<1> DEFINE n == q - 1 - Acts
<1>2. /\ macro_new = "live" /\ press # NULL /\ acts_ptr = Acts /\ press_ptr = n - 1 /\ n \in 1 .. Presses
      /\ \A k \in 1 .. Acts : acts[k] = Wanted.act[k]
      /\ \A k \in 1 .. n - 1 : press[k] = Wanted.press[k]
  BY <1>1 DEF Prefix, UpToCommand, Starved
<1>3. Press(Wanted.press[n])
  <2>1. ~PressRefused
    BY <1>1, <1>2, Sizes DEF PressRefused
  <2> QED  BY <2>1
<1>4. /\ macro_new' = "live" /\ acts_ptr' = Acts /\ acts' = acts /\ press_ptr' = n
      /\ press' = [press EXCEPT ![n] = Wanted.press[n]]
      /\ UNCHANGED table
  <2>1. press_ptr + 1 = n
    BY <1>1, <1>2
  <2>2. /\ press' = [press EXCEPT ![press_ptr + 1] = Wanted.press[n]]
        /\ press_ptr' = press_ptr + 1
        /\ UNCHANGED <<table, macro_new, acts, acts_ptr>>
    BY <1>3 DEF Press
  <2> HIDE DEF n
  <2> QED  BY <1>2, <2>1, <2>2
<1>5. \A k \in 1 .. n : press'[k] = Wanted.press[k]
  <2>1. press \in [1 .. Presses -> Button \cup {JUNK}]
    BY <1>2, Sizes
  <2> HIDE DEF n
  <2> QED  BY <1>1, <1>2, <1>4, <2>1, OneMoreAgrees
<1>6. q # StopAt /\ ~(q <= Acts + 1)
  BY <1>1
<1>7. \A k \in 1 .. Acts : acts'[k] = Wanted.act[k]
  BY <1>2, <1>4
<1> QED  BY <1>4, <1>5, <1>6, <1>7 DEF Prefix, UpToCommand

Stored == (\E b \in Block : table[b] = CLEAN) => \E b \in Block : table[b] = Wanted

\* The stop stores what is staged, which is the wanted macro, or refuses it.
LEMMA TakenByStop ==
  ASSUME SInv, StagedWanted, OnlyWanted, Prefix(StopAt - 1), AddStop \/ AddStopRefused
  PROVE  Prefix(StopAt)' /\ OnlyWanted' /\ (answer'.code = "ok" => Stored')
<1>1. StopAt = Acts + Presses + 2 /\ Acts \in Nat \ {0} /\ Presses \in Nat \ {0}
  BY WantedType DEF StopAt
<1> SUFFICES ASSUME ~Starved PROVE Prefix(StopAt)' /\ OnlyWanted' /\ Stored'
  <2>1. CASE Starved
    <3>1. AddStopRefused
      BY <2>1, StopIsLive
    <3>2. UNCHANGED <<table, staging>> /\ answer'.code = "unknown"
      BY <3>1 DEF AddStopRefused, Answered
    <3>3. Starved'
      BY <2>1, <3>2 DEF Starved, staging
    <3> QED  BY <3>2, <3>3 DEF Prefix, OnlyWanted
  <2> QED  BY <2>1
<1>2. /\ macro_new = "live" /\ acts # NULL /\ press # NULL /\ acts_ptr = Acts /\ press_ptr = Presses
      /\ \A k \in 1 .. Acts : acts[k] = Wanted.act[k]
      /\ \A k \in 1 .. Presses : press[k] = Wanted.press[k]
  BY <1>1 DEF Prefix, UpToCommand, Starved
<1>3. AddStop
  BY <1>2, Sizes DEF AddStopRefused, Pointee, Complete
<1>4. acts = Wanted.act /\ press = Wanted.press
  <2>1. /\ acts \in [1 .. Acts -> Button \cup {JUNK}] /\ Wanted.act \in [1 .. Acts -> Button]
        /\ press \in [1 .. Presses -> Button \cup {JUNK}]
        /\ Wanted.press \in [1 .. Presses -> Button]
    BY <1>2, Sizes, WantedType
  <2>2. \A g \in [1 .. Acts -> Button] : (\A k \in 1 .. Acts : acts[k] = g[k]) => acts = g
    BY <2>1, SameArray
  <2>3. \A g \in [1 .. Presses -> Button] :
          (\A k \in 1 .. Presses : press[k] = g[k]) => press = g
    BY <2>1, SameArray
  <2>4. acts = Wanted.act
    BY <1>2, <2>1, <2>2
  <2>5. press = Wanted.press
    BY <1>2, <2>1, <2>3
  <2> QED  BY <2>4, <2>5
<1>5. Staged = {Wanted}
  BY <1>2, <1>4, WantedType DEF Staged, StagedWanted
<1>6. table' = [b \in Block |-> IF FirstOf(b, FreeIn(table)) THEN Wanted ELSE table[b]]
  BY <1>3, <1>5 DEF AddStop
<1>7. Stored'
  <2>1. CASE FreeIn(table) = {}
    BY <1>6, <2>1 DEF FirstOf, FreeIn, Stored
  <2>2. CASE FreeIn(table) # {}
    <3>1. PICK b \in Block : FirstOf(b, FreeIn(table))
      BY <2>2, FirstExists DEF FreeIn
    <3> QED  BY <1>6, <3>1 DEF Stored
  <2> QED  BY <2>1, <2>2
<1> QED  BY <1>3, <1>6, <1>7 DEF AddStop, Prefix, UpToCommand, OnlyWanted

LEMMA NextCommandTaken ==
  ASSUME SInv, StagedWanted, OnlyWanted, NEW q \in 1 .. StopAt, Commanded(q), InOrderAt(q)
  PROVE  (mode' = "up" => Prefix(q)') /\ OnlyWanted'
<1>1. q # 1 => Prefix(q - 1)
  BY DEF InOrderAt
<1>2. UNCHANGED table => OnlyWanted'
  BY DEF OnlyWanted
<1>3. Acts \in Nat \ {0} /\ Presses \in Nat \ {0} /\ StopAt = Acts + Presses + 2 /\ q \in Nat
  BY WantedType DEF StopAt
<1>4. CASE q = 1
  <2>1. CASE AddStart(Wanted.hdr)
    BY <1>2, <1>4, <2>1, TakenByStart
  <2>2. CASE AddStartNoRoom
    BY <1>2, <2>2 DEF AddStartNoRoom
  <2> QED  BY <1>3, <1>4, <2>1, <2>2 DEF Commanded
<1>5. CASE q \in 2 .. Acts + 1
  <2>1. Act(Wanted.act[q - 1]) \/ ActRefused
    BY <1>3, <1>5 DEF Commanded
  <2> QED  BY <1>1, <1>2, <1>3, <1>5, <2>1, TakenByAct
<1>6. CASE q \in Acts + 2 .. StopAt - 1
  <2>1. Press(Wanted.press[q - 1 - Acts]) \/ PressRefused
    BY <1>3, <1>6 DEF Commanded
  <2> QED  BY <1>1, <1>2, <1>3, <1>6, <2>1, TakenByPress
<1>7. CASE q = StopAt
  <2>1. AddStop \/ AddStopRefused
    BY <1>3, <1>7 DEF Commanded
  <2> QED  BY <1>1, <1>3, <1>7, <2>1, TakenByStop
<1> QED  BY <1>3, <1>4, <1>5, <1>6, <1>7

\* A command the device is past stays one.  The device refuses it, or takes it for one that is missing,
\* and is then past the next one too.
LEMMA BeyondKept ==
  ASSUME NEW q, Beyond(q), UNCHANGED <<macro_new, acts_ptr, press_ptr>>
  PROVE  Beyond(q)'
  BY DEF Beyond

LEMMA OldAct ==
  ASSUME SInv, StagedWanted, NEW q \in 2 .. Acts + 1, Beyond(q),
         Act(Wanted.act[q - 1]) \/ ActRefused
  PROVE  /\ Beyond(q)' /\ UNCHANGED table
         /\ answer'.code = "unknown" \/ (answer'.code = "ok" /\ Beyond(q + 1)')
<1>1. q \in Nat /\ q # StopAt /\ Acts \in Nat \ {0} /\ Presses \in Nat \ {0}
      /\ ~(q \in Acts + 2 .. StopAt - 1)
  BY WantedType DEF StopAt
<1>2. CASE ActRefused
  <2>1. UNCHANGED <<table, macro_new, acts_ptr, press_ptr>> /\ answer'.code = "unknown"
    BY <1>2 DEF ActRefused, Answered, staging
  <2> QED  BY <2>1, BeyondKept
<1>3. CASE Act(Wanted.act[q - 1])
  <2>1. macro_new = "live" /\ acts_ptr >= q - 1
    BY <1>1, <1>3 DEF Act, Beyond, StagedWanted
  <2>2. acts_ptr \in 0 .. Acts /\ acts_ptr # Acts
    BY <1>3, <2>1, Sizes DEF Act
  <2>3. q + 1 \in 2 .. Acts + 1 /\ q + 1 # 1
    BY <1>1, <2>1, <2>2
  <2>4. acts_ptr' = acts_ptr + 1 /\ answer'.code = "ok" /\ UNCHANGED table
    BY <1>3 DEF Act, Answered
  <2>5. acts_ptr' >= q + 1 - 1 /\ acts_ptr' >= q - 1
    BY <1>1, <2>1, <2>2, <2>4
  <2> QED  BY <1>1, <2>3, <2>4, <2>5 DEF Beyond
<1> QED  BY <1>2, <1>3

LEMMA OldPress ==
  ASSUME SInv, StagedWanted, NEW q \in Acts + 2 .. StopAt - 1, Beyond(q),
         Press(Wanted.press[q - 1 - Acts]) \/ PressRefused
  PROVE  /\ Beyond(q)' /\ UNCHANGED table
         /\ answer'.code = "unknown" \/ (answer'.code = "ok" /\ Beyond(q + 1)')
<1>1. q \in Nat /\ Acts \in Nat \ {0} /\ Presses \in Nat \ {0}
      /\ StopAt = Acts + Presses + 2 /\ q # 1 /\ ~(q \in 2 .. Acts + 1)
  BY WantedType DEF StopAt
<1>2. CASE PressRefused
  <2>1. UNCHANGED <<table, macro_new, acts_ptr, press_ptr>> /\ answer'.code = "unknown"
    BY <1>2 DEF PressRefused, Answered, staging
  <2> QED  BY <2>1, BeyondKept
<1>3. CASE Press(Wanted.press[q - 1 - Acts])
  <2>1. macro_new = "live" /\ press_ptr >= q - 1 - Acts
    BY <1>1, <1>3 DEF Press, Beyond, StagedWanted
  <2>2. press_ptr \in 0 .. Presses /\ press_ptr # Presses
    BY <1>3, <2>1, Sizes DEF Press
  <2>3. q + 1 \in Acts + 2 .. StopAt - 1 /\ q + 1 # 1
    BY <1>1, <2>1, <2>2
  <2>4. press_ptr' = press_ptr + 1 /\ answer'.code = "ok" /\ UNCHANGED table
    BY <1>3 DEF Press, Answered
  <2>5. press_ptr' >= q + 1 - 1 - Acts /\ press_ptr' >= q - 1 - Acts
    BY <1>1, <2>1, <2>2, <2>4
  <2> QED  BY <1>1, <2>3, <2>4, <2>5 DEF Beyond
<1> QED  BY <1>2, <1>3

LEMMA OldStop ==
  ASSUME SInv, StagedWanted, Beyond(StopAt), AddStop \/ AddStopRefused
  PROVE  Beyond(StopAt)' /\ UNCHANGED table /\ answer'.code = "unknown"
<1>1. macro_new = "null"
  BY WantedType DEF Beyond, StopAt
<1>2. AddStopRefused
  BY <1>1, StopIsLive
<1> QED  BY <1>1, <1>2 DEF AddStopRefused, Answered, staging, Beyond

LEMMA OldCommand ==
  ASSUME SInv, StagedWanted, OnlyWanted, NEW q \in 1 .. StopAt, Commanded(q), Beyond(q)
  PROVE  /\ Beyond(q)' /\ OnlyWanted'
         /\ \/ answer'.code = "unknown"
            \/ answer'.code = "ok" /\ q + 1 <= StopAt /\ Beyond(q + 1)'
<1>1. UNCHANGED table => OnlyWanted'
  BY DEF OnlyWanted
<1>2. /\ Acts \in Nat \ {0} /\ Presses \in Nat \ {0} /\ StopAt = Acts + Presses + 2
      /\ q \in Nat /\ q # 1
  BY WantedType DEF StopAt, Beyond
<1>3. CASE q \in 2 .. Acts + 1
  <2>1. Act(Wanted.act[q - 1]) \/ ActRefused
    BY <1>2, <1>3 DEF Commanded
  <2> QED  BY <1>1, <1>2, <1>3, <2>1, OldAct
<1>4. CASE q \in Acts + 2 .. StopAt - 1
  <2>1. Press(Wanted.press[q - 1 - Acts]) \/ PressRefused
    BY <1>2, <1>4 DEF Commanded
  <2> QED  BY <1>1, <1>2, <1>4, <2>1, OldPress
<1>5. CASE q = StopAt
  <2>1. AddStop \/ AddStopRefused
    BY <1>2, <1>5 DEF Commanded
  <2> QED  BY <1>1, <1>5, <2>1, OldStop
<1> QED  BY <1>2, <1>3, <1>4, <1>5

\* A command that was taken is one the device is past.
LEMMA TakenIsPast ==
  ASSUME NEW q \in 1 .. StopAt, Prefix(q)
  PROVE  InOrderAt(q) \/ Beyond(q)
<1>1. /\ Acts \in Nat \ {0} /\ Presses \in Nat \ {0} /\ StopAt = Acts + Presses + 2
      /\ q \in Nat
  BY WantedType DEF StopAt
<1> SUFFICES ASSUME ~Starved PROVE InOrderAt(q) \/ Beyond(q)
  BY DEF InOrderAt, Prefix
<1>2. CASE q = 1
  BY <1>2 DEF InOrderAt
<1>3. CASE q \in 2 .. Acts + 1
  BY <1>1, <1>3 DEF Prefix, UpToCommand, Beyond
<1>4. CASE q \in Acts + 2 .. StopAt - 1
  BY <1>1, <1>4 DEF Prefix, UpToCommand, Beyond
<1>5. CASE q = StopAt
  BY <1>1, <1>5 DEF Prefix, UpToCommand, Beyond
<1> QED  BY <1>1, <1>2, <1>3, <1>4, <1>5
-----------------------------------------------------------------------------
LEMMA StopAtType == StopAt \in Nat /\ StopAt > 1
  BY WantedType DEF StopAt

LEMMA LinkInitially == LinkInit => LInv
<1> SUFFICES ASSUME LinkInit PROVE LInv
  OBVIOUS
<1>1. SInv
  BY StagedInit DEF LinkInit
<1>2. StagedWanted /\ OnlyWanted
  BY DEF LinkInit, Init, StagedWanted, OnlyWanted, AllClean
<1>3. LinkTypes
  <2>1. pos \in 1 .. StopAt + 1 /\ timeouts \in Nat
    BY StopAtType DEF LinkInit
  <2>2. waiting \in BOOLEAN
    BY DEF LinkInit
  <2>3. ~waiting
    BY DEF LinkInit
  <2> QED  BY <2>1, <2>2, <2>3 DEF LinkTypes
<1>4. InOrderAt(pos) /\ in = NULL /\ out = NULL /\ ~waiting
  BY DEF LinkInit, InOrderAt
<1>5. Places
  BY <1>4 DEF Places, InStep
<1> QED  BY <1>1, <1>2, <1>3, <1>5 DEF LInv

\* What the host does leaves the device as it is.
LEMMA DeviceKept ==
  ASSUME LInv, UNCHANGED vars
  PROVE  /\ SInv' /\ StagedWanted' /\ OnlyWanted' /\ mode' = mode
         /\ \A q : /\ InOrderAt(q)' <=> InOrderAt(q)
                   /\ Beyond(q)' <=> Beyond(q)
<1>1. SInv'
  BY StagedStep DEF LInv
<1>2. StagedWanted' /\ OnlyWanted'
  BY DEF LInv, vars, StagedWanted, OnlyWanted
<1>3. ASSUME NEW q PROVE Beyond(q)' <=> Beyond(q)
  BY DEF vars, Beyond
<1>4. ASSUME NEW q PROVE Prefix(q)' <=> Prefix(q)
  BY DEF vars, Prefix, UpToCommand, Starved
<1>5. ASSUME NEW q PROVE InOrderAt(q)' <=> InOrderAt(q)
  BY <1>4 DEF InOrderAt
<1> QED  BY <1>1, <1>2, <1>3, <1>5 DEF vars

\* The positions of the next state, for a host that is at p then.
LEMMA NextAt ==
  ASSUME NEW p, pos' = p
  PROVE  /\ InOrderAt(pos)' <=> InOrderAt(p)'
         /\ Prefix(pos)' <=> Prefix(p)'
         /\ Beyond(pos)' <=> Beyond(p)'
         /\ Beyond(pos + 1)' <=> Beyond(p + 1)'
<1>1. Prefix(pos)' <=> Prefix(p)'
  BY DEF Prefix, UpToCommand
<1>2. Prefix(pos - 1)' <=> Prefix(p - 1)'
  BY DEF Prefix, UpToCommand
<1>3. Beyond(pos)' <=> Beyond(p)'
  BY DEF Beyond
<1>4. Beyond(pos + 1)' <=> Beyond(p + 1)'
  BY DEF Beyond
<1> QED  BY <1>1, <1>2, <1>3, <1>4 DEF InOrderAt

LEMMA SendKeeps ==
  ASSUME LInv, HostSend
  PROVE  LInv'
<1>1. PICK p : p = pos
  OBVIOUS
<1>2. p \in 1 .. StopAt /\ pos' = p /\ pos' \in 1 .. StopAt + 1
  BY <1>1, StopAtType DEF LInv, LinkTypes, HostSend, Done
<1>3. /\ ~waiting /\ out = NULL /\ waiting' /\ out' = Script(p) /\ out' # NULL
      /\ in' = in /\ timeouts' = timeouts
  BY <1>1, <1>2, ScriptAssumption DEF HostSend
<1>4. SInv' /\ StagedWanted' /\ OnlyWanted' /\ mode' = mode
  BY DeviceKept DEF HostSend
<1>5. LinkTypes'
  BY <1>2, <1>3, StopAtType DEF LInv, LinkTypes, HostSend
<1>6. CASE mode = "up"
  <2>1. (InOrderAt(p) \/ Repeats(p)) /\ (timeouts = 0 => in = NULL)
    BY <1>1, <1>2, <1>3, <1>6 DEF LInv, Places, InStep
  <2>2. InOrderAt(p)' \/ Repeats(p)'
    BY <1>3, <2>1, DeviceKept DEF HostSend, Repeats
  <2>3. InOrderAt(pos)' \/ Repeats(pos)'
    BY <1>2, <2>2, NextAt DEF Repeats
  <2>4. Places'
    BY <1>2, <1>3, <1>4, <1>6, <2>1, <2>3 DEF Places, InStep
  <2> QED  BY <1>4, <1>5, <2>4 DEF LInv
<1>7. CASE mode # "up"
  BY <1>3, <1>4, <1>5, <1>7 DEF LInv, Places
<1> QED  BY <1>6, <1>7

LEMMA AnswerKeeps ==
  ASSUME LInv, HostAnswer
  PROVE  LInv'
<1>1. PICK p : p = pos
  OBVIOUS
<1>2. /\ waiting /\ in # NULL /\ ~waiting' /\ in' = NULL /\ out' = out /\ timeouts' = timeouts
      /\ pos' = (IF in = "ok" THEN p + 1 ELSE 1)
  BY <1>1 DEF HostAnswer
<1>3. p \in 1 .. StopAt
  BY <1>1, <1>2, StopAtType DEF LInv, LinkTypes
<1>4. SInv' /\ StagedWanted' /\ OnlyWanted' /\ mode' = mode
  BY DeviceKept DEF HostAnswer
<1>5. LinkTypes'
  <2>1. pos' \in 1 .. StopAt + 1 /\ timeouts' \in Nat
    BY <1>2, <1>3, StopAtType DEF LInv, LinkTypes
  <2>2. waiting' \in BOOLEAN /\ ~waiting'
    BY DEF HostAnswer
  <2> QED  BY <2>1, <2>2 DEF LinkTypes
<1>0. CASE mode # "up"
  BY <1>0, <1>2, <1>4, <1>5 DEF LInv, Places
<1>6. CASE mode = "up" /\ out # NULL
  <2>1. timeouts # 0 /\ out = Script(p) /\ InOrderAt(p)
    BY <1>1, <1>2, <1>6 DEF LInv, Places, InStep, Repeats
  <2>2. InOrderAt(p)'
    BY <2>1, DeviceKept DEF HostAnswer
  <2>3. OnItsWay'
    BY <1>2, <1>3, <2>1, <2>2 DEF OnItsWay
  <2>4. Places'
    BY <1>4, <1>2, <1>6, <2>3 DEF Places, InStep
  <2> QED  BY <1>4, <1>5, <2>4 DEF LInv
<1>7. CASE mode = "up" /\ out = NULL
  <2>1. \/ Prefix(p)
        \/ Repeats(p) /\ (in = "unknown" \/ Repeats(p + 1))
    BY <1>1, <1>2, <1>7 DEF LInv, Places, InStep, Understood, Repeats
  <2>2. CASE pos' = 1
    <3>1. InOrderAt(pos)'
      BY <2>2 DEF InOrderAt
    <3>2. Places'
      BY <1>4, <1>2, <1>7, <3>1 DEF Places, InStep
    <3> QED  BY <1>4, <1>5, <3>2 DEF LInv
  <2>3. CASE in = "ok" /\ pos' = p + 1
    <3>1. PICK q : q = p + 1
      OBVIOUS
    <3>2. InOrderAt(q) \/ Repeats(q)
      BY <1>3, <2>1, <2>3, <3>1 DEF InOrderAt
    <3>3. InOrderAt(q)' \/ Repeats(q)'
      BY <1>2, <3>2, DeviceKept DEF HostAnswer, Repeats
    <3>4. InOrderAt(pos)' \/ Repeats(pos)'
      BY <2>3, <3>1, <3>3, NextAt DEF Repeats
    <3>5. Places'
      BY <1>4, <1>2, <1>7, <3>4 DEF Places, InStep
    <3> QED  BY <1>4, <1>5, <3>5 DEF LInv
  <2> QED  BY <1>2, <2>2, <2>3
<1> QED  BY <1>0, <1>6, <1>7

LEMMA TimeoutKeeps ==
  ASSUME LInv, HostTimeout
  PROVE  LInv'
<1>1. PICK p : p = pos
  OBVIOUS
<1>2. /\ waiting /\ ~waiting' /\ out' = out /\ pos' = 1 /\ timeouts' = timeouts + 1
      /\ timeouts' # 0
  BY DEF HostTimeout, LInv, LinkTypes
<1>3. SInv' /\ StagedWanted' /\ OnlyWanted' /\ mode' = mode
  BY DeviceKept DEF HostTimeout
<1>4. LinkTypes'
  <2>1. pos' \in 1 .. StopAt + 1 /\ timeouts' \in Nat
    BY <1>2, StopAtType DEF LInv, LinkTypes
  <2>2. waiting' \in BOOLEAN /\ ~waiting'
    BY DEF HostTimeout
  <2> QED  BY <2>1, <2>2 DEF LinkTypes
<1>5. InOrderAt(pos)'
  BY <1>2 DEF InOrderAt
<1>0. CASE mode # "up"
  BY <1>0, <1>2, <1>3, <1>4 DEF LInv, Places
<1>6. CASE mode = "up" /\ out = NULL
  <2>1. Places'
    BY <1>3, <1>2, <1>5, <1>6 DEF Places, InStep
  <2> QED  BY <1>3, <1>4, <2>1 DEF LInv
<1>7. CASE mode = "up" /\ out # NULL
  <2>1. p \in 1 .. StopAt /\ out = Script(p) /\ (InOrderAt(p) \/ Beyond(p))
    BY <1>1, <1>2, <1>7, StopAtType DEF LInv, LinkTypes, Places, InStep, Repeats
  <2>2. InOrderAt(p)' \/ Beyond(p)'
    BY <2>1, DeviceKept DEF HostTimeout
  <2>3. OnItsWay'
    BY <1>2, <2>1, <2>2 DEF OnItsWay
  <2>4. Places'
    BY <1>3, <1>2, <1>7, <2>3 DEF Places, InStep
  <2> QED  BY <1>3, <1>4, <2>4 DEF LInv
<1> QED  BY <1>0, <1>6, <1>7

\* The command the host waits for an answer to, or one it went on from.
LEMMA HandleKeeps ==
  ASSUME LInv, Handle
  PROVE  LInv'
<1>1. PICK p : p = pos
  OBVIOUS
<1>2. /\ out # NULL /\ Command /\ out' = NULL /\ pos' = p /\ waiting' = waiting
      /\ timeouts' = timeouts
      /\ in' = (IF in = NULL /\ mode' = "up" THEN answer'.code ELSE in)
  BY <1>1 DEF Handle
<1>0. InStep
  <2>1. mode = "up"
    BY <1>2 DEF Command, AddStart, AddStartNoRoom, Act, ActRefused, Press, PressRefused, AddStop,
       AddStopRefused
  <2> QED  BY <2>1 DEF LInv, Places
<1>3. LinkTypes'
  BY <1>2 DEF Handle, LInv, LinkTypes
<1>4. CASE waiting
  <2>1. /\ p \in 1 .. StopAt /\ out = Script(p) /\ (InOrderAt(p) \/ Repeats(p))
        /\ timeouts = 0 => in = NULL
    BY <1>0, <1>1, <1>2, <1>4, StopAtType DEF LInv, LinkTypes, InStep
  <2>2. Commanded(p)
    BY <1>2, <2>1, CommandIs
  <2>3. SInv' /\ StagedWanted'
    BY <2>1, <2>2, StepsOfSession DEF LInv
  <2>4. CASE InOrderAt(p)
    <3>1. (mode' = "up" => Prefix(p)') /\ OnlyWanted'
      BY <2>1, <2>2, <2>4, NextCommandTaken DEF LInv
    <3>2. mode' = "up" => Understood'
      BY <1>2, <3>1, NextAt DEF Understood
    <3>3. Places'
      BY <1>2, <1>4, <2>1, <3>2 DEF Places, InStep
    <3> QED  BY <1>3, <2>3, <3>1, <3>3 DEF LInv
  <2>5. CASE Repeats(p)
    <3>1. /\ timeouts = 0 /\ Beyond(p)
          /\ in' = IF mode' = "up" THEN answer'.code ELSE NULL
      BY <1>2, <2>1, <2>5 DEF Repeats
    <3>2. /\ Beyond(p)' /\ OnlyWanted'
          /\ \/ answer'.code = "unknown"
             \/ answer'.code = "ok" /\ p + 1 <= StopAt /\ Beyond(p + 1)'
      BY <2>1, <2>2, <3>1, OldCommand DEF LInv
    <3>3. mode' = "up" => Understood'
      BY <1>2, <3>1, <3>2, NextAt DEF Understood, Repeats
    <3>4. Places'
      BY <1>2, <1>4, <2>1, <3>1, <3>3 DEF Places, InStep
    <3> QED  BY <1>3, <2>3, <3>2, <3>4 DEF LInv
  <2> QED  BY <2>1, <2>4, <2>5
<1>5. CASE ~waiting
  <2>1. PICK q \in 1 .. StopAt :
          /\ out = Script(q) /\ timeouts # 0
          /\ \/ InOrderAt(q) /\ p = q + 1
             \/ (InOrderAt(q) \/ Beyond(q)) /\ p = 1
    BY <1>0, <1>1, <1>2, <1>5 DEF InStep, OnItsWay
  <2>2. Commanded(q)
    BY <1>2, <2>1, CommandIs
  <2>3. SInv' /\ StagedWanted'
    BY <2>1, <2>2, StepsOfSession DEF LInv
  <2>4. OnlyWanted'
    BY <2>1, <2>2, NextCommandTaken, OldCommand DEF LInv
  <2>5. mode' = "up" => InOrderAt(p)'
    <3>1. CASE InOrderAt(q) /\ p = q + 1
      <4>1. mode' = "up" => Prefix(q)'
        BY <2>2, <3>1, NextCommandTaken DEF LInv
      <4> QED  BY <3>1, <4>1 DEF InOrderAt
    <3>2. CASE p = 1
      BY <3>2 DEF InOrderAt
    <3> QED  BY <2>1, <3>1, <3>2
  <2>6. mode' = "up" => InOrderAt(pos)'
    BY <1>2, <2>5, NextAt
  <2>7. Places'
    BY <1>2, <1>5, <2>1, <2>6 DEF Places, InStep
  <2> QED  BY <1>3, <2>3, <2>4, <2>7 DEF LInv
<1> QED  BY <1>4, <1>5

\* A host that gave up no command and repeats one after a reset: it was not taken
\* yet, or the device is past it.
LEMMA LostKeeps ==
  ASSUME LInv, Lost, SInv', StagedWanted', OnlyWanted',
         \/ /\ mode' = mode
            /\ \A q : InOrderAt(q) \/ Beyond(q) => InOrderAt(q)' \/ Beyond(q)'
         \/ \A q : InOrderAt(q)' \/ Beyond(q)'
  PROVE  LInv'
<1>1. PICK p : p = pos
  OBVIOUS
<1>2. /\ out' = NULL /\ in' = NULL /\ ~waiting' /\ timeouts' = timeouts
      /\ pos' = 1 \/ (pos' = p /\ (timeouts = 0 \/ Done))
  BY <1>1 DEF Lost
<1>3. LinkTypes'
  <2>1. pos' \in 1 .. StopAt + 1 /\ timeouts' \in Nat
    BY <1>1, <1>2, StopAtType DEF LInv, LinkTypes
  <2>2. waiting' \in BOOLEAN /\ ~waiting'
    BY DEF Lost
  <2> QED  BY <2>1, <2>2 DEF LinkTypes
<1>4. mode' = "up" /\ pos' <= StopAt => InOrderAt(pos)' \/ Repeats(pos)'
  <2> SUFFICES ASSUME mode' = "up" PROVE pos' <= StopAt => InOrderAt(pos)' \/ Repeats(pos)'
    OBVIOUS
  <2>1. CASE pos' = 1
    BY <2>1 DEF InOrderAt
  <2>2. CASE pos' = p /\ Done
    BY <1>1, <2>2, StopAtType DEF Done, LInv, LinkTypes
  <2>3. CASE pos' = p /\ timeouts = 0 /\ ~Done
    <3>1. p \in 1 .. StopAt
      BY <1>1, <2>3, StopAtType DEF Done, LInv, LinkTypes
    <3>2. mode = "up" => Prefix(p) \/ InOrderAt(p) \/ Beyond(p)
      BY <1>1, <2>3, <3>1, StopAtType
         DEF LInv, LinkTypes, Places, InStep, Understood, Repeats, OnItsWay
    <3>3. InOrderAt(p)' \/ Beyond(p)'
      BY <3>1, <3>2, TakenIsPast
    <3> QED  BY <1>2, <2>3, <3>3, NextAt DEF Repeats
  <2> QED  BY <1>2, <2>1, <2>2, <2>3
<1>5. Places'
  BY <1>2, <1>4 DEF Places, InStep
<1> QED  BY <1>3, <1>5 DEF LInv

LEMMA ResetKeeps ==
  ASSUME LInv, BusReset
  PROVE  LInv'
  BY DeviceKept, LostKeeps DEF BusReset

\* Without power the staged macro is gone, and with it every command that is left.
LEMMA PowerLostKeeps ==
  ASSUME LInv, PowerLost
  PROVE  LInv'
<1>1. Next
  BY DEF PowerLost, Next
<1>2. SInv'
  BY <1>1, StagedStep DEF LInv
<1>3. macro_new' = "null" /\ press_ptr' = 0 /\ table' = table
  BY DEF PowerLost, PowerCycle, Boot
<1>4. StagedWanted' /\ OnlyWanted'
  BY <1>3 DEF StagedWanted, OnlyWanted, LInv
<1>5. ASSUME NEW q PROVE InOrderAt(q)' \/ Beyond(q)'
  BY <1>3 DEF InOrderAt, Beyond
<1> QED  BY <1>2, <1>4, <1>5, LostKeeps DEF PowerLost

LEMMA LinkStep == LInv /\ [LinkNext]_allVars => LInv'
<1> SUFFICES ASSUME LInv, [LinkNext]_allVars PROVE LInv'
  OBVIOUS
<1>1. CASE UNCHANGED allVars
  <2>1. UNCHANGED vars
    BY <1>1 DEF allVars
  <2>2. LinkTypes'
    BY <1>1 DEF LInv, LinkTypes, allVars, link
  <2>3. Understood' <=> Understood
    BY <1>1 DEF Understood, Repeats, Prefix, UpToCommand, Starved, Beyond, allVars, vars, link
  <2>4. OnItsWay' <=> OnItsWay
    BY <1>1, <2>1, DeviceKept DEF OnItsWay, allVars, link
  <2>5. /\ InOrderAt(pos)' <=> InOrderAt(pos)
        /\ Repeats(pos)' <=> Repeats(pos)
    BY <1>1 DEF InOrderAt, Repeats, Prefix, UpToCommand, Starved, Beyond, allVars, vars, link
  <2>6. Places'
    BY <1>1, <2>1, <2>3, <2>4, <2>5, DeviceKept DEF LInv, Places, InStep, allVars, link
  <2> QED  BY <2>1, <2>2, <2>6, DeviceKept DEF LInv
<1> QED
  BY <1>1, SendKeeps, AnswerKeeps, TimeoutKeeps, HandleKeeps, ResetKeeps, PowerLostKeeps
     DEF LinkNext

\* Whatever answers are dropped, late or taken for those of another command, and
\* whichever command is repeated after a reset: config_endpoint_out_callback() never
\* stores a macro with a button missing, doubled or left over from a session that was
\* given up.
THEOREM OnlyTheWanted == LinkSpec => []OnlyWanted
<1>1. LInv => OnlyWanted
  BY DEF LInv
<1> QED  BY <1>1, LinkInitially, LinkStep, PTL DEF LinkSpec
-----------------------------------------------------------------------------
\* The answer that makes the host stop.
LastAnswer == waiting /\ out = NULL /\ in # NULL /\ in = "ok" /\ pos = StopAt

DInv == timeouts = 0 /\ (Done \/ LastAnswer) => Stored

LEMMA DoneByAnswer ==
  ASSUME LInv, DInv, HostAnswer
  PROVE  DInv'
<1> SUFFICES ASSUME timeouts' = 0, Done' \/ LastAnswer' PROVE Stored'
  BY DEF DInv
<1>1. /\ waiting /\ in # NULL /\ ~waiting' /\ timeouts = 0 /\ UNCHANGED <<table, out>>
      /\ pos' = (IF in = "ok" THEN pos + 1 ELSE 1)
  BY DEF HostAnswer, vars
<1>2. out = NULL
  BY <1>1 DEF LInv, Places, InStep
<1>3. pos' > StopAt /\ pos \in Nat /\ pos <= StopAt
  BY <1>1, <1>2, StopAtType DEF LInv, LinkTypes, Done, LastAnswer
<1>4. in = "ok" /\ pos = StopAt
  BY <1>1, <1>3, StopAtType
<1>5. Stored
  BY <1>1, <1>2, <1>4 DEF DInv, LastAnswer
<1> QED  BY <1>1, <1>5 DEF Stored

LEMMA DoneByHandle ==
  ASSUME LInv, DInv, Handle
  PROVE  DInv'
<1> SUFFICES ASSUME timeouts' = 0, Done' \/ LastAnswer' PROVE Stored'
  BY DEF DInv
<1>1. /\ out # NULL /\ Command /\ timeouts = 0 /\ pos' = pos /\ waiting' = waiting
      /\ in' = (IF in = NULL /\ mode' = "up" THEN answer'.code ELSE in)
  BY DEF Handle
<1>2. /\ waiting /\ pos <= StopAt /\ in = NULL /\ out = Script(pos)
      /\ InOrderAt(pos) \/ Repeats(pos)
  <2>1. mode = "up"
    BY <1>1 DEF Command, AddStart, AddStartNoRoom, Act, ActRefused, Press, PressRefused, AddStop,
       AddStopRefused
  <2> QED  BY <1>1, <2>1 DEF LInv, LinkTypes, Places, InStep, OnItsWay
<1>3. pos = StopAt /\ answer'.code = "ok"
  BY <1>1, <1>2, StopAtType DEF LInv, LinkTypes, Done, LastAnswer
<1>4. Commanded(StopAt)
  BY <1>1, <1>2, <1>3, StopAtType, CommandIs
<1>5. AddStop \/ AddStopRefused
  BY <1>4, WantedType DEF Commanded, StopAt
<1>6. Prefix(StopAt - 1)
  <2>1. ~Beyond(StopAt)
    BY <1>3, <1>5, OldStop DEF LInv
  <2> QED  BY <1>2, <1>3, <2>1, StopAtType DEF Repeats, InOrderAt
<1> QED  BY <1>3, <1>5, <1>6, TakenByStop DEF LInv

LEMMA DoneStep == LInv /\ DInv /\ [LinkNext]_allVars => DInv'
<1> SUFFICES ASSUME LInv, DInv, [LinkNext]_allVars PROVE DInv'
  OBVIOUS
<1>1. CASE HostSend
  <2>1. ~Done' /\ out' # NULL
    BY <1>1, StopAtType, ScriptAssumption DEF HostSend, Done, LInv, LinkTypes
  <2> QED  BY <2>1 DEF DInv, LastAnswer
<1>2. CASE HostTimeout
  BY <1>2 DEF HostTimeout, LInv, LinkTypes, DInv
<1>3. CASE Lost /\ table' = table
  BY <1>3, StopAtType DEF Lost, DInv, Done, LastAnswer, Stored
<1>4. CASE UNCHANGED allVars
  BY <1>4 DEF allVars, vars, link, DInv, Done, LastAnswer, Stored
<1> QED
  BY <1>1, <1>2, <1>3, <1>4, DoneByAnswer, DoneByHandle
     DEF LinkNext, BusReset, PowerLost, PowerCycle, vars

\* A host that waits for its answers may trust the last one: its macro is stored if there
\* is a free block, although no answer says which command it is for.
THEOREM DoneIsStored == LinkSpec => []DoneMeansStored
<1>1. LinkInit => DInv
  BY StopAtType DEF LinkInit, DInv, Done, LastAnswer
<1>2. DInv => DoneMeansStored
  BY DEF DInv, Stored, DoneMeansStored
<1> QED  BY <1>1, <1>2, LinkInitially, LinkStep, DoneStep, PTL DEF LinkSpec

\* Whatever such a host sends, and whenever, a stop that finds no started macro is
\* refused, although config_endpoint_out_callback() does not test its pointer.
THEOREM NullRefusedOnLink == LinkSpec => []NullNeverComplete
<1>1. LInv => NullNeverComplete
  BY NullCounts DEF LInv, StagedWanted, NullNeverComplete, Complete
<1> QED  BY <1>1, LinkInitially, LinkStep, PTL DEF LinkSpec
=============================================================================
