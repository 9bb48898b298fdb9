--------------------------- MODULE MacroStoreProofs ---------------------------
(***************************************************************************)
(* For every number of blocks and pages, every layout of blocks in pages   *)
(* and every set of macros: the state of MacroStore is type correct, cells *)
(* are erased before they are programmed, storage_clear() frees every      *)
(* block, and storage.c implements MacroTable.                             *)
(***************************************************************************)
EXTENDS MacroStore, FiniteSetTheorems, TLAPS

USE DEF Block, Page, Damaged, Content

LEMMA FirstBlock == 0 \in Block /\ 0 \in Page
  BY BlocksAssumption

\* A scan that is over names one block.
LEMMA FirstIsUnique ==
  ASSUME NEW S \in SUBSET Block, NEW b \in S, NEW c \in S,
         FirstOf(b, S), FirstOf(c, S)
  PROVE  b = c
  BY BlocksAssumption DEF FirstOf

LEMMA DamageType ==
  ASSUME NEW t \in [Block -> Content], NEW E, NEW T
  PROVE  Damage(t, E, T) \in [Block -> Content]
  BY DEF Damage

LEMMA ImageType ==
  ASSUME flash \in [Block -> Content], NEW p
  PROVE  PageImage(p) \in [Block -> Content]
  BY DEF PageImage

LEMMA TypeStep == TypeOK /\ [Next]_vars => TypeOK'
<1> SUFFICES ASSUME TypeOK, [Next]_vars PROVE TypeOK'
  OBVIOUS
<1> USE FirstBlock DEF TypeOK
<1>1. CASE PowerUp
  BY <1>1 DEF PowerUp, AllClean
<1>2. ASSUME NEW m \in Macro, AddMacro(m) PROVE TypeOK'
  <2>1. PICK b \in Block : Rewrite("add", PageOf[b], b, m, [PageImage(PageOf[b]) EXCEPT ![b] = m])
    BY <1>2 DEF AddMacro
  <2>2. [PageImage(PageOf[b]) EXCEPT ![b] = m] \in [Block -> Content]
    BY ImageType
  <2> QED  BY <2>1, <2>2, BlocksAssumption DEF Rewrite
<1>3. CASE AddMacroFull
  BY <1>3, ImageType DEF AddMacroFull, GiveUp
<1>4. ASSUME NEW n \in Name, RemoveMacro(n) PROVE TypeOK'
  <2>1. PICK b \in Block : Rewrite("remove", PageOf[b], b, n, [PageImage(PageOf[b]) EXCEPT ![b] = CLEAN])
    BY <1>4 DEF RemoveMacro
  <2>2. [PageImage(PageOf[b]) EXCEPT ![b] = CLEAN] \in [Block -> Content]
    BY ImageType
  <2> QED  BY <2>1, <2>2, BlocksAssumption DEF Rewrite
<1>5. ASSUME NEW n \in Name, RemoveMacroUnknown(n) PROVE TypeOK'
  BY <1>5, ImageType DEF RemoveMacroUnknown, GiveUp
<1>6. CASE Clear
  BY <1>6 DEF Clear, Rewrite, AllClean, NONE
<1>7. CASE GetMacroList
  BY <1>7, ImageType DEF GetMacroList, GiveUp
<1>8. ASSUME NEW b \in Block, GetMacro(b) PROVE TypeOK'
  BY <1>8, ImageType DEF GetMacro, GiveUp
<1>9. CASE ErasePage
  BY <1>9 DEF ErasePage, BlocksOf
<1>10. ASSUME NEW b \in Block, ProgramBlock(b) PROVE TypeOK'
  BY <1>10 DEF ProgramBlock, Programmed
<1>11. CASE NextPage
  BY <1>11 DEF NextPage
<1>12. CASE Return
  BY <1>12 DEF Return, NONE
<1>13. CASE PowerLoss
  <2>1. flash' \in [Block -> Content]
    BY <1>13, DamageType DEF PowerLoss
  <2> QED  BY <2>1, <1>13 DEF PowerLoss, AllClean, NONE
<1>14. CASE UNCHANGED vars
  BY <1>14 DEF vars
<1> QED
  BY <1>1, <1>2, <1>3, <1>4, <1>5, <1>6, <1>7, <1>8, <1>9, <1>10, <1>11, <1>12, <1>13, <1>14
     DEF Next, Call, Step

\* Every variable keeps the values it is declared for.
THEOREM TypeCorrect == Spec => []TypeOK
<1>1. Init => TypeOK
  BY FirstBlock DEF Init, Delivered, TypeOK, AllClean, NONE
<1> QED  BY <1>1, TypeStep, PTL DEF Spec

-------------------------------------------------------------------------------
IInv == TypeOK /\ ProgramsErased /\ OpInv

\* What the steps of an operation find, whatever it is: the page is written in
\* order from the buffer, and nothing outside it changes.
LEMMA Inductive == IInv /\ [Next]_vars => IInv'
<1> SUFFICES ASSUME IInv, [Next]_vars, TypeOK' PROVE (ProgramsErased /\ OpInv)'
  BY TypeStep DEF IInv
<1> USE FirstBlock DEF IInv, TypeOK, ProgramsErased, OpInv, BufferedFaithfully,
        WrittenAsBuffered, AddUnderWay, RemoveUnderWay, ClearUnderWay
<1>1. CASE PowerUp
  BY <1>1 DEF PowerUp, NONE
<1>2. ASSUME NEW m \in Macro, AddMacro(m) PROVE (ProgramsErased /\ OpInv)'
  <2>1. PICK b \in Block :
          /\ FirstOf(b, FreeIn(flash))
          /\ Rewrite("add", PageOf[b], b, m, [PageImage(PageOf[b]) EXCEPT ![b] = m])
    BY <1>2 DEF AddMacro
  <2>2. pc = "idle" /\ pc' = "erase" /\ flash' = flash /\ todo' = todo
    BY <2>1, <1>2 DEF AddMacro, Rewrite
  <2>3. Table' = flash
    BY <2>2 DEF Table
  <2>4. \A c \in Block \ {b} : PageOf[c] = PageOf[b] => buf'[c] = flash[c]
    BY <2>1 DEF Rewrite, PageImage
  <2>5. buf'[b] = m
    BY <2>1 DEF Rewrite, PageImage
  <2> QED
    BY <2>1, <2>2, <2>3, <2>4, <2>5 DEF Rewrite, NONE
<1>3. CASE AddMacroFull
  BY <1>3 DEF AddMacroFull, GiveUp, NONE
<1>4. ASSUME NEW n \in Name, RemoveMacro(n) PROVE (ProgramsErased /\ OpInv)'
  <2>1. PICK b \in Block :
          /\ FoundAs(b, flash, n)
          /\ Rewrite("remove", PageOf[b], b, n, [PageImage(PageOf[b]) EXCEPT ![b] = CLEAN])
    BY <1>4 DEF RemoveMacro
  <2>2. pc = "idle" /\ pc' = "erase" /\ flash' = flash /\ todo' = todo
    BY <2>1, <1>4 DEF RemoveMacro, Rewrite
  <2>3. \A c \in Block \ {b} : PageOf[c] = PageOf[b] => buf'[c] = flash[c]
    BY <2>1 DEF Rewrite, PageImage
  <2>4. buf'[b] = CLEAN
    BY <2>1 DEF Rewrite, PageImage
  <2> QED
    BY <2>1, <2>2, <2>3, <2>4 DEF Rewrite, NONE
<1>5. ASSUME NEW n \in Name, RemoveMacroUnknown(n) PROVE (ProgramsErased /\ OpInv)'
  BY <1>5 DEF RemoveMacroUnknown, GiveUp, NONE
<1>6. CASE Clear
  BY <1>6, BlocksAssumption DEF Clear, Rewrite, NONE
<1>7. CASE GetMacroList
  BY <1>7 DEF GetMacroList, GiveUp, NONE
<1>8. ASSUME NEW b \in Block, GetMacro(b) PROVE (ProgramsErased /\ OpInv)'
  BY <1>8 DEF GetMacro, GiveUp, NONE
<1>9. CASE ErasePage
  <2>1. op = "add" => Table' = Table
    BY <1>9, BlocksAssumption DEF ErasePage, Table, FirstOf, FreeIn
  <2> QED
    BY <1>9, <2>1, BlocksAssumption DEF ErasePage, BlocksOf
<1>10. ASSUME NEW b \in Block, ProgramBlock(b) PROVE (ProgramsErased /\ OpInv)'
  <2>1. Table' = Table
    BY <1>10 DEF ProgramBlock, FirstOf, Table
  <2>2. flash' = [flash EXCEPT ![b] = buf[b]]
    BY <1>10 DEF ProgramBlock, Programmed, FirstOf
  <2> QED
    BY <1>10, <2>1, <2>2, BlocksAssumption DEF ProgramBlock, FirstOf
<1>11. CASE NextPage
  BY <1>11, BlocksAssumption DEF NextPage, AllClean
<1>12. CASE Return
  BY <1>12 DEF Return, NONE
<1>13. CASE PowerLoss
  BY <1>13 DEF PowerLoss, NONE
<1>14. CASE UNCHANGED vars
  BY <1>14 DEF vars, Table
<1> QED
  BY <1>1, <1>2, <1>3, <1>4, <1>5, <1>6, <1>7, <1>8, <1>9, <1>10, <1>11, <1>12, <1>13, <1>14
     DEF Next, Call, Step

LEMMA Invariant == Spec => []IInv
<1>1. Init => IInv
  BY FirstBlock
     DEF IInv, Init, TypeOK, ProgramsErased, OpInv, BufferedFaithfully, WrittenAsBuffered,
         AddUnderWay, RemoveUnderWay, ClearUnderWay, AllClean, NONE, Delivered, Content, Damaged
<1> QED  BY <1>1, Inductive, PTL DEF Spec

\* storage_write_page() never programs a cell that was not erased before,
\* whatever power cuts happened earlier.
THEOREM OnlyErasedCellsProgrammed == Spec => []ProgramsErased
<1>1. IInv => ProgramsErased
  BY DEF IInv
<1> QED  BY <1>1, Invariant, PTL

\* The buffer, the page and the target of an operation fit its caller's request
\* at each of its steps.
THEOREM OperationsFaithful == Spec => []OpInv
<1>1. IInv => OpInv
  BY DEF IInv
<1> QED  BY <1>1, Invariant, PTL

\* When storage_clear() returns, every block of every page is free.
THEOREM ClearHeals == Spec => ClearHealsAll
<1>1. IInv /\ [Next]_vars
       => [op = "clear" /\ ret' = "ok" /\ pc' = "idle"
             => \A b \in Block : flash'[b] = CLEAN]_vars
  <2> SUFFICES ASSUME IInv, Next, op = "clear", ret' = "ok", pc' = "idle"
               PROVE  \A b \in Block : flash'[b] = CLEAN
    OBVIOUS
  <2>1. pc \in {"erase", "program"}
    BY DEF IInv, OpInv, NONE
  <2>2. Return
    BY <2>1 DEF Next, Call, Step, PowerUp, AddMacro, AddMacroFull, RemoveMacro,
       RemoveMacroUnknown, Clear, GetMacroList, GetMacro, Rewrite, GiveUp, ErasePage,
       ProgramBlock, NextPage, PowerLoss
  <2>3. todo = {} /\ page + 1 \notin Page /\ flash' = flash /\ pc = "program"
    BY <2>2 DEF Return
  <2>4. page = NumPages - 1
    BY <2>3, BlocksAssumption DEF IInv, TypeOK
  <2>5. \A b \in Block : PageOf[b] = page \/ PageOf[b] < page
    BY <2>4, BlocksAssumption
  <2> QED
    BY <2>3, <2>5 DEF IInv, OpInv, WrittenAsBuffered, ClearUnderWay, AllClean
<1> QED  BY <1>1, Invariant, PTL DEF ClearHealsAll, Spec
-------------------------------------------------------------------------------
\* Abstract names the same blocks.
LEMMA SameBlocks ==
  /\ Abstract!Block = Block
  /\ Abstract!Page = Page
  /\ Abstract!Delivered = Delivered
  /\ \A p : Abstract!BlocksOf(p) = BlocksOf(p)
  /\ \A t : Abstract!FreeIn(t) = FreeIn(t)
  /\ \A b, S : Abstract!FirstOf(b, S) <=> FirstOf(b, S)
  /\ \A b, t, n : Abstract!FoundAs(b, t, n) <=> FoundAs(b, t, n)
  /\ \A t, E, T : Abstract!Damage(t, E, T) = Damage(t, E, T)
  BY DEF Abstract!Block, Abstract!Page, Abstract!Delivered, Delivered, Abstract!BlocksOf, BlocksOf, Abstract!FreeIn, FreeIn,
     Abstract!FirstOf, FirstOf, Abstract!FoundAs, FoundAs, Abstract!Damage, Damage,
     Abstract!MayMatch, MayMatch, Abstract!Named, Named

\* Nothing is seen of an operation until it erases or returns.
LEMMA EraseRefines ==
  ASSUME IInv, ErasePage
  PROVE  [Abstract!TableNext]_<<Table, Powered>>
<1> USE DEF IInv, TypeOK, OpInv
<1>1. pc = "erase" /\ pc' = "program" /\ op' = op /\ page' = page /\ target' = target
      /\ buf' = buf /\ flash' = [b \in Block |-> IF PageOf[b] = page THEN ERASED ELSE flash[b]]
  BY DEF ErasePage
<1>0. Powered /\ Powered'
  BY <1>1 DEF Powered
<1>2. Table = flash
  BY <1>1 DEF Table
<1>3. CASE op = "add"
  <2>1. Table[target] = CLEAN
    BY <1>3 DEF AddUnderWay, FirstOf, FreeIn
  <2>2. Table' = Table
    BY <1>1, <1>2, <1>3, <2>1 DEF Table, BufferedFaithfully
  <2> QED  BY <1>0, <2>2
<1>4. CASE op = "remove"
  <2>1. Table' = [Table EXCEPT ![target] = CLEAN]
    BY <1>1, <1>2, <1>4 DEF Table, BufferedFaithfully, RemoveUnderWay
  <2>2. arg \in Name /\ FoundAs(target, Table, arg)
    BY <1>1, <1>2, <1>4 DEF RemoveUnderWay
  <2>3. Abstract!Remove(arg)
    BY <2>1, <2>2, SameBlocks DEF Abstract!Remove
  <2> QED  BY <1>0, <2>2, <2>3 DEF Abstract!TableNext, Abstract!Operation
<1>5. CASE op = "clear"
  <2>1. Table' = [b \in Block |-> IF PageOf[b] = page THEN CLEAN ELSE Table[b]]
    BY <1>1, <1>2, <1>5 DEF Table, ClearUnderWay, AllClean
  <2>2. Abstract!ClearPage(page)
    BY <2>1, SameBlocks DEF Abstract!ClearPage
  <2> QED  BY <1>0, <2>2, SameBlocks DEF Abstract!TableNext, Abstract!Operation
<1> QED  BY <1>1, <1>3, <1>4, <1>5

LEMMA ReturnRefines ==
  ASSUME IInv, Return
  PROVE  [Abstract!TableNext]_<<Table, Powered>>
<1> USE DEF IInv, TypeOK, OpInv
<1>1. pc = "program" /\ todo = {} /\ pc' = "idle" /\ flash' = flash
  BY DEF Return
<1>0. Powered /\ Powered'
  BY <1>1 DEF Powered
<1>2. Table' = flash
  BY <1>1 DEF Table
<1>3. \A b \in Block : PageOf[b] = page => flash[b] = buf[b]
  BY <1>1 DEF WrittenAsBuffered
<1>4. CASE op = "add"
  <2>1. Table' = [Table EXCEPT ![target] = arg]
    BY <1>1, <1>2, <1>3, <1>4 DEF Table, AddUnderWay
  <2>2. Abstract!Add(arg)
    BY <1>4, <2>1, SameBlocks DEF Abstract!Add, AddUnderWay
  <2> QED  BY <1>0, <1>4, <2>2 DEF Abstract!TableNext, Abstract!Operation, AddUnderWay
<1>5. CASE op # "add"
  <2>1. Table' = Table
    BY <1>1, <1>2, <1>3, <1>5 DEF Table
  <2> QED  BY <1>0, <2>1
<1> QED  BY <1>4, <1>5

\* A power cut is one during the rewriting of a single page.
LEMMA PowerLossRefines ==
  ASSUME IInv, PowerLoss
  PROVE  [Abstract!TableNext]_<<Table, Powered>>
<1> USE DEF IInv, TypeOK, OpInv
<1>1. Table' = flash'
  <2>1. flash' \in [Block -> Content]
    BY TypeStep DEF Next
  <2> QED  BY <2>1 DEF PowerLoss, Table
<1>0. Powered /\ ~Powered'
  BY DEF Powered, PowerLoss
<1> SUFFICES Abstract!PowerOff
  BY <1>0 DEF Abstract!TableNext
<1> USE DEF Abstract!PowerOff
<1>2. CASE pc \in {"off", "idle"}
  <2>1. Table = flash /\ flash' = flash
    BY <1>2 DEF PowerLoss, Table
  <2> QED  BY <1>1, <2>1
<1>3. CASE pc = "erase"
  <2>1. Table = flash
    BY <1>3 DEF Table
  <2>2. CASE flash' = flash
    BY <1>1, <2>1, <2>2
  <2>3. ASSUME NEW E \in SUBSET BlocksOf(page), NEW T \in SUBSET BlocksOf(page),
               flash' = Damage(flash, E, T)
        PROVE  Abstract!PowerOff
    <3>1. Abstract!CutPage(page)
      BY <1>1, <2>1, <2>3, SameBlocks DEF Abstract!CutPage
    <3> QED  BY <3>1, SameBlocks
  <2>4. (flash' = flash) \/ \E E, T \in SUBSET BlocksOf(page) : flash' = Damage(flash, E, T)
    BY <1>3 DEF PowerLoss
  <2> QED  BY <2>2, <2>3, <2>4
<1>4. CASE pc = "program"
  <2>1. PICK T \in SUBSET todo : flash' = [b \in Block |-> IF b \in T THEN TORN ELSE flash[b]]
    <3>1. CASE flash' = flash
      <4>1. flash' = [c \in Block |-> IF c \in {} THEN TORN ELSE flash[c]]
        BY <3>1
      <4>2. {} \in SUBSET todo
        OBVIOUS
      <4> QED  BY <4>1, <4>2
    <3>2. ASSUME NEW b \in Block, FirstOf(b, todo), flash' = [flash EXCEPT ![b] = TORN]
          PROVE  \E T \in SUBSET todo : flash' = [c \in Block |-> IF c \in T THEN TORN ELSE flash[c]]
      <4>1. {b} \in SUBSET todo
        BY <3>2 DEF FirstOf
      <4>2. flash' = [c \in Block |-> IF c \in {b} THEN TORN ELSE flash[c]]
        BY <3>2
      <4> QED  BY <4>1, <4>2
    <3> QED  BY <1>4, <3>1, <3>2 DEF PowerLoss
  <2>2. todo \in SUBSET BlocksOf(page) /\ T \in SUBSET BlocksOf(page)
    BY DEF BlocksOf
  <2>3. \A b \in Block : flash[b] = IF b \in todo THEN ERASED
                                   ELSE IF PageOf[b] = page THEN buf[b] ELSE flash[b]
    BY <1>4 DEF WrittenAsBuffered, ProgramsErased
  <2>4. CASE op = "add"
    <3>1. PageOf[target] = page /\ buf[target] = arg /\ arg \in Macro
          /\ FirstOf(target, FreeIn(Table))
      BY <2>4 DEF AddUnderWay
    <3>2. flash' = Damage([Table EXCEPT ![target] = arg], todo, T)
      BY <1>4, <2>1, <2>3, <2>4, <3>1 DEF Damage, Table
    <3>3. Abstract!CutAdd(arg)
      BY <1>1, <2>2, <3>1, <3>2, SameBlocks DEF Abstract!CutAdd
    <3> QED  BY <3>1, <3>3
  <2>5. CASE op # "add"
    <3>1. flash' = Damage(Table, todo, T)
      BY <1>4, <2>1, <2>3, <2>5 DEF Damage, Table
    <3>2. Abstract!CutPage(page)
      BY <1>1, <2>2, <3>1, SameBlocks DEF Abstract!CutPage
    <3> QED  BY <3>2, SameBlocks
  <2> QED  BY <2>4, <2>5
<1> QED  BY <1>2, <1>3, <1>4

\* storage.c implements MacroTable.
THEOREM ImplementsMacroTable == Spec => RefinesMacroTable
<1>1. Init => Abstract!TableInit
  <2> SUFFICES ASSUME Init PROVE Abstract!TableInit
    OBVIOUS
  <2>1. flash = [b \in Block |-> flash[b]]
    BY DEF Init, Delivered
  <2>2. Table = flash /\ Powered = FALSE
    BY <2>1 DEF Init, Table, Powered
  <2> QED  BY <2>2, SameBlocks DEF Init, Abstract!TableInit
<1>2. IInv /\ [Next]_vars => [Abstract!TableNext]_<<Table, Powered>>
  <2> SUFFICES ASSUME IInv, [Next]_vars PROVE [Abstract!TableNext]_<<Table, Powered>>
    OBVIOUS
  <2>0. CASE PowerUp
    BY <2>0 DEF PowerUp, Table, Powered, Abstract!TableNext
  <2>1. CASE Call
    BY <2>1 DEF Call, Powered, AddMacro, AddMacroFull, RemoveMacro, RemoveMacroUnknown, Clear,
       GetMacroList, GetMacro, Rewrite, GiveUp, Table
  <2>2. ASSUME NEW b \in Block, ProgramBlock(b) PROVE [Abstract!TableNext]_<<Table, Powered>>
    BY <2>2 DEF ProgramBlock, Table, Powered, FirstOf, IInv, TypeOK, OpInv
  <2>3. CASE NextPage
    BY <2>3 DEF NextPage, Table, Powered, IInv, TypeOK, OpInv, WrittenAsBuffered
  <2>4. CASE UNCHANGED vars
    BY <2>4 DEF vars, Table, Powered
  <2> QED
    BY <2>0, <2>1, <2>2, <2>3, <2>4, EraseRefines, ReturnRefines, PowerLossRefines DEF Next, Step
<1> QED  BY <1>1, <1>2, Invariant, PTL DEF RefinesMacroTable, Abstract!TableSpec, Spec
-------------------------------------------------------------------------------
\* The blocks that the operation under way may still write, and the steps it may still
\* take: one for each of them and two for each page, to erase it and to go on.
Unwritten ==
  {b \in Block : PageOf[b] > page \/ (PageOf[b] = page /\ (pc = "erase" \/ b \in todo))}

UnderWay == pc \in {"erase", "program"}

StepsLeft ==
  IF UnderWay
  THEN Cardinality(Unwritten) + 2 * (NumPages - 1 - page) + (IF pc = "erase" THEN 2 ELSE 1)
  ELSE 0

LEMMA BlocksFinite ==
  \A S \in SUBSET Block : IsFiniteSet(S) /\ Cardinality(S) \in 0 .. NumBlocks
<1>1. NumBlocks \in Nat \ {0}
  BY BlocksAssumption
<1>2. IsFiniteSet(Block) /\ Cardinality(Block) = NumBlocks
  BY <1>1, FS_Interval
<1>3. ASSUME NEW S \in SUBSET Block
      PROVE  IsFiniteSet(S) /\ Cardinality(S) \in 0 .. NumBlocks
  <2> HIDE DEF Block
  <2>1. IsFiniteSet(S) /\ Cardinality(S) <= NumBlocks
    BY <1>2, FS_Subset
  <2>2. Cardinality(S) \in Nat
    BY <2>1, FS_CardinalityType
  <2> QED  BY <1>1, <2>1, <2>2
<1> QED  BY <1>3

LEMMA StepsBounded ==
  IInv => /\ StepsLeft \in 0 .. NumBlocks + 2 * NumPages
          /\ StepsLeft = 0 <=> ~ UnderWay
<1> SUFFICES ASSUME IInv PROVE /\ StepsLeft \in 0 .. NumBlocks + 2 * NumPages
                               /\ StepsLeft = 0 <=> ~ UnderWay
  OBVIOUS
<1>1. Cardinality(Unwritten) \in 0 .. NumBlocks
  BY BlocksFinite DEF Unwritten
<1>2. page \in 0 .. NumPages - 1 /\ NumBlocks \in Nat /\ NumPages \in Nat
  BY BlocksAssumption DEF IInv, TypeOK
<1> HIDE DEF Unwritten
<1> QED  BY <1>1, <1>2 DEF StepsLeft

\* Each step of an operation is one of those left.
LEMMA StepTaken == IInv /\ Step => StepsLeft' < StepsLeft
<1> SUFFICES ASSUME IInv, Step PROVE StepsLeft' < StepsLeft
  OBVIOUS
<1>1. /\ page \in 0 .. NumPages - 1 /\ NumPages \in Nat /\ NumBlocks \in Nat
      /\ todo \subseteq Block /\ \A b \in todo : PageOf[b] = page
      /\ \A b \in Block : PageOf[b] \in Nat
  BY BlocksAssumption DEF IInv, TypeOK, OpInv
<1>2. Cardinality(Unwritten) \in Nat
  BY BlocksFinite DEF Unwritten
<1>3. CASE ErasePage
  <2>1. Unwritten' = Unwritten
    BY <1>3 DEF ErasePage, Unwritten, BlocksOf
  <2> QED  BY <1>1, <1>2, <1>3, <2>1 DEF ErasePage, StepsLeft, UnderWay
<1>4. ASSUME NEW b \in Block, ProgramBlock(b) PROVE StepsLeft' < StepsLeft
  <2>1. b \in Unwritten /\ Unwritten' = Unwritten \ {b}
    BY <1>1, <1>4 DEF ProgramBlock, FirstOf, Unwritten
  <2>2. IsFiniteSet(Unwritten)
    BY BlocksFinite DEF Unwritten
  <2>3. Cardinality(Unwritten') = Cardinality(Unwritten) - 1
    BY <2>1, <2>2, FS_RemoveElement
  <2> QED  BY <1>1, <1>2, <1>4, <2>3 DEF ProgramBlock, StepsLeft, UnderWay
<1>5. CASE NextPage
  <2>1. Unwritten' = Unwritten
    BY <1>1, <1>5 DEF NextPage, Unwritten
  <2> QED  BY <1>1, <1>2, <1>5, <2>1 DEF NextPage, StepsLeft, UnderWay
<1>6. CASE Return
  BY <1>1, <1>2, <1>6 DEF Return, StepsLeft, UnderWay
<1> QED  BY <1>3, <1>4, <1>5, <1>6 DEF Step

\* An operation of storage.c ends after writing each block and erasing each page at most
\* once, whatever the flash held: every step of it leaves fewer to take, and it is over when
\* none is left.
THEOREM OperationsShorten ==
  Spec => /\ []( /\ StepsLeft \in 0 .. NumBlocks + 2 * NumPages
                /\ StepsLeft = 0 <=> ~ UnderWay)
          /\ [][Step => StepsLeft' < StepsLeft]_vars
<1>1. IInv /\ [Next]_vars => [Step => StepsLeft' < StepsLeft]_vars
  BY StepTaken
<1> QED  BY <1>1, StepsBounded, Invariant, PTL DEF Spec
===============================================================================
