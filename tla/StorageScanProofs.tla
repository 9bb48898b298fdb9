-------------------------- MODULE StorageScanProofs --------------------------
(***************************************************************************)
(* The layout of storage.h and its scans, for every content of the area.   *)
(***************************************************************************)
EXTENDS StorageScan, TLAPS

\* What the comment in storage.h asks for: "must be 256 bytes".
LEMMA MacroSize == STORAGE_MACRO_SIZE = 256 /\ AreaSize = 32768
  BY DEF STORAGE_MACRO_SIZE, AreaSize, SizeofMacro, SizeofBtn, STORAGE_MAX_ACTS,
         STORAGE_MAX_PRESS, STORAGE_MAX_MACRO

\* The two masks take an offset apart and lose nothing: page and place in the page
\* are those of the block.
THEOREM OffsetsExact ==
  \A b \in Block :
    /\ FlashOffset(OffsetOf(b)) + PageOffset(OffsetOf(b)) = OffsetOf(b)
    /\ FlashOffset(OffsetOf(b)) \in {STORAGE_PAGE_SIZE * p : p \in 0 .. STORAGE_PAGES - 1}
    /\ PageOffset(OffsetOf(b)) + STORAGE_MACRO_SIZE <= STORAGE_PAGE_SIZE
<1> SUFFICES ASSUME NEW b \in Block
             PROVE  /\ FlashOffset(OffsetOf(b)) + PageOffset(OffsetOf(b)) = OffsetOf(b)
                    /\ FlashOffset(OffsetOf(b)) \in {STORAGE_PAGE_SIZE * p : p \in 0 .. STORAGE_PAGES - 1}
                    /\ PageOffset(OffsetOf(b)) + STORAGE_MACRO_SIZE <= STORAGE_PAGE_SIZE
  OBVIOUS
<1>1. b \in 0 .. 127 /\ OffsetOf(b) = 256 * b /\ STORAGE_PAGES = 16
  BY MacroSize DEF Block, OffsetOf, STORAGE_MAX_MACRO, STORAGE_PAGES
<1>2. (256 * b) \div 2048 = b \div 8 /\ (256 * b) \div 256 = b
  BY <1>1
<1>3. (b \div 8) \in 0 .. 15 /\ (b \div 8) % 16 = b \div 8
  BY <1>1
<1>4. b % 8 \in 0 .. 7 /\ b = 8 * (b \div 8) + (b % 8)
  BY <1>1
<1>5. FlashOffset(OffsetOf(b)) = 2048 * (b \div 8) /\ PageOffset(OffsetOf(b)) = 256 * (b % 8)
  BY <1>1, <1>2, <1>3, MacroSize DEF FlashOffset, PageOffset, STORAGE_PAGE_SIZE
<1>6. FlashOffset(OffsetOf(b)) \in {STORAGE_PAGE_SIZE * p : p \in 0 .. STORAGE_PAGES - 1}
  BY <1>1, <1>3, <1>5 DEF STORAGE_PAGE_SIZE
<1> QED
  BY <1>1, <1>3, <1>4, <1>5, <1>6, MacroSize DEF STORAGE_PAGE_SIZE

\* A record whose counts keep to STORAGE_MAX_ACTS and STORAGE_MAX_PRESS stays in
\* its block, behind the header, and no act button overlaps a press entry: patching
\* one block in the page buffer leaves the others of the page alone.
THEOREM RecordsApart ==
  ASSUME NEW b \in Block,
         NEW k \in 0 .. STORAGE_MAX_ACTS - 1, NEW j \in 0 .. STORAGE_MAX_PRESS - 1
  PROVE  /\ PageOffset(OffsetOf(b)) + SizeofMacro <= ActAt(b, k)
         /\ ActAt(b, k) + SizeofBtn <= PressAt(b, 0)
         /\ PressAt(b, j) + SizeofBtn <= PageOffset(OffsetOf(b)) + STORAGE_MACRO_SIZE
<1>1. PageOffset(OffsetOf(b)) \in Nat
  <2>1. b \in 0 .. 127 /\ OffsetOf(b) = 256 * b
    BY MacroSize DEF Block, OffsetOf, STORAGE_MAX_MACRO
  <2>2. (256 * b) \div 256 = b
    BY <2>1
  <2>3. b % 8 \in 0 .. 7
    BY <2>1
  <2>4. PageOffset(OffsetOf(b)) = (b % 8) * 256
    BY <2>1, <2>2, MacroSize DEF PageOffset
  <2> QED  BY <2>3, <2>4
<1> QED
  BY <1>1, MacroSize DEF ActAt, PressAt, SizeofMacro, SizeofBtn, STORAGE_MAX_ACTS, STORAGE_MAX_PRESS
------------------------------------------------------------------------------
\* How far a scan is: the loop variable is the offset of block i, or of a block
\* before which nothing was free.
Progress ==
  /\ \E b \in 0 .. STORAGE_MAX_MACRO :
       /\ offset = OffsetOf(b)
       /\ scan = "list" => i = b /\ map = {c \in free : c < b}
       /\ scan = "find" => \A c \in free : b <= c
  /\ result = -1 \/ (scan = "find" /\ result = STORAGE_BLOCK_USED /\ free = {})
       \/ (scan = "find" /\ \E b \in free : result = OffsetOf(b) /\ \A c \in free : b <= c)

LEMMA LookedIs ==
  ASSUME NEW b \in 0 .. STORAGE_MAX_MACRO, offset = OffsetOf(b), offset < AreaSize
  PROVE  b \in Block /\ Looked = b
<1>1. b \in Block
  BY MacroSize DEF Block, OffsetOf, STORAGE_MAX_MACRO
<1>2. FlashOffset(offset) + PageOffset(offset) = 256 * b
  BY <1>1, OffsetsExact, MacroSize DEF OffsetOf
<1>3. (256 * b) \div 256 = b
  OBVIOUS
<1> QED  BY <1>1, <1>2, <1>3, MacroSize DEF Looked

IInv == TypeOK /\ Progress

LEMMA Inductive == IInv /\ [Next]_vars => IInv'
<1> SUFFICES ASSUME IInv, [Next]_vars PROVE IInv'
  OBVIOUS
<1>0. PICK b \in 0 .. STORAGE_MAX_MACRO :
        /\ offset = OffsetOf(b)
        /\ scan = "list" => i = b /\ map = {c \in free : c < b}
        /\ scan = "find" => \A c \in free : b <= c
  BY DEF IInv, Progress
<1>a. /\ free \in Areas /\ scan \in {"find", "list"}
      /\ \A c \in free : c \in Block
  BY AreasAssumption DEF IInv, TypeOK
<1>b. \A c \in Int : OffsetOf(c) = 256 * c
  BY MacroSize DEF OffsetOf
<1>c. Block = 0 .. 127 /\ STORAGE_MAX_MACRO = 128 /\ AreaSize = 32768 /\ STORAGE_MACRO_SIZE = 256
  BY MacroSize DEF Block, STORAGE_MAX_MACRO
<1>d. b \in 0 .. 128
  BY <1>0, <1>c
<1>1. CASE FindHit
  <2>1. b \in Block /\ b \in free /\ result' = OffsetOf(b)
    BY <1>0, <1>1, LookedIs DEF FindHit, Running
  <2>2. TypeOK'
    BY <1>1, <2>1 DEF IInv, TypeOK, FindHit
  <2>3. Progress'
    BY <1>0, <1>1, <2>1 DEF FindHit, Progress
  <2> QED  BY <2>2, <2>3 DEF IInv
<1>2. CASE FindNext
  <2>1. b \in Block /\ Looked = b /\ b \notin free
    BY <1>0, <1>2, LookedIs DEF FindNext, Running
  <2>2. b + 1 \in 0 .. 128 /\ offset' = OffsetOf(b + 1) /\ offset' \in 0 .. 32768
    <3>1. b \in 0 .. 127 /\ b \in Int /\ b + 1 \in Int
      BY <1>c, <2>1
    <3>2. OffsetOf(b) = 256 * b /\ OffsetOf(b + 1) = 256 * (b + 1)
      BY <1>b, <3>1
    <3>3. offset' = offset + 256 /\ offset = 256 * b
      BY <1>0, <1>2, <1>c, <3>2 DEF FindNext
    <3> QED  BY <3>1, <3>2, <3>3
  <2>3. \A c \in free : b + 1 <= c
    BY <1>0, <1>2, <1>a, <1>c, <2>1 DEF FindNext
  <2>4. Progress'
    BY <1>2, <1>c, <2>2, <2>3 DEF FindNext, Running, Progress
  <2> QED  BY <1>2, <1>c, <2>2, <2>4 DEF FindNext, IInv, TypeOK
<1>3. CASE FindNothing
  <2>1. b = 128
    BY <1>0, <1>3, <1>b, <1>c, <1>d DEF FindNothing
  <2>2. free = {}
    BY <1>0, <1>3, <1>a, <1>c, <2>1 DEF FindNothing
  <2>3. TypeOK'
    BY <1>3 DEF FindNothing, IInv, TypeOK
  <2> QED  BY <1>0, <1>3, <2>2, <2>3 DEF FindNothing, Progress, IInv
<1>4. CASE ListNext
  <2>1. b \in Block /\ Looked = b
    BY <1>0, <1>4, LookedIs DEF ListNext, Running
  <2>2. i = b /\ i' = b + 1 /\ map = {c \in free : c < b}
    BY <1>0, <1>4, <1>c, <2>1 DEF ListNext
  <2>3. \A c \in free : c < b + 1 <=> c < b \/ c = b
    BY <1>a, <1>c, <1>d
  <2>4. map' = {c \in free : c < b + 1}
    <3>1. CASE b \in free
      BY <1>4, <2>1, <2>2, <2>3, <3>1 DEF ListNext
    <3>2. CASE b \notin free
      BY <1>4, <2>1, <2>2, <2>3, <3>2 DEF ListNext
    <3> QED  BY <3>1, <3>2
  <2>5. b + 1 \in 0 .. 128 /\ offset' = OffsetOf(b + 1) /\ offset' \in 0 .. 32768
    <3>1. b \in 0 .. 127 /\ b \in Int /\ b + 1 \in Int
      BY <1>c, <2>1
    <3>2. OffsetOf(b) = 256 * b /\ OffsetOf(b + 1) = 256 * (b + 1)
      BY <1>b, <3>1
    <3>3. offset' = offset + 256 /\ offset = 256 * b
      BY <1>0, <1>4, <1>c, <3>2 DEF ListNext
    <3> QED  BY <3>1, <3>2, <3>3
  <2>6. i' \in 0 .. 255 /\ map' \subseteq 0 .. 255
    BY <1>a, <1>c, <2>1, <2>2, <2>4
  <2>7. Progress'
    <3>1. scan' = "list" /\ result' = -1 /\ free' = free
      BY <1>4 DEF ListNext, Running
    <3>2. b + 1 \in 0 .. STORAGE_MAX_MACRO
      BY <1>c, <2>5
    <3> QED  BY <2>2, <2>4, <2>5, <3>1, <3>2 DEF Progress
  <2>8. TypeOK'
    <3>1. scan' = scan /\ result' = result /\ free' = free
      BY <1>4 DEF ListNext
    <3>2. offset' \in 0 .. AreaSize
      BY <1>c, <2>5
    <3> QED  BY <2>6, <3>1, <3>2 DEF IInv, TypeOK
  <2> QED  BY <2>7, <2>8 DEF IInv
<1>5. CASE UNCHANGED vars
  BY <1>5 DEF vars, IInv, TypeOK, Progress
<1> QED  BY <1>1, <1>2, <1>3, <1>4, <1>5 DEF Next

LEMMA Invariant == Spec => []IInv
<1>1. Init => IInv
  <2> SUFFICES ASSUME Init PROVE IInv
    OBVIOUS
  <2>1. 0 \in 0 .. STORAGE_MAX_MACRO /\ offset = OffsetOf(0) /\ \A c \in free : 0 <= c
    BY AreasAssumption, MacroSize DEF Init, OffsetOf, STORAGE_MAX_MACRO, Block
  <2>2. {c \in free : c < 0} = {}
    <3>1. \A c \in free : c \in 0 .. 127
      BY AreasAssumption DEF Init, Block, STORAGE_MAX_MACRO
    <3> QED  BY <3>1
  <2> QED  BY <2>1, <2>2, MacroSize DEF Init, IInv, TypeOK, Progress
<1> QED  BY <1>1, Inductive, PTL DEF Spec

\* A search returns 255 exactly when no block is free, else the offset of the
\* first free one, whatever the area holds.
THEOREM FindCorrect == Spec => []FindsFirstFree
<1>1. IInv => FindsFirstFree
  <2> SUFFICES ASSUME IInv, result # -1 PROVE FindsFirstFree
    BY DEF FindsFirstFree
  <2>1. \A b \in free : b \in Block /\ OffsetOf(b) # STORAGE_BLOCK_USED
    BY AreasAssumption, MacroSize DEF IInv, TypeOK, Block, OffsetOf, STORAGE_BLOCK_USED, STORAGE_MAX_MACRO
  <2>2. CASE result = STORAGE_BLOCK_USED
    BY <2>1, <2>2 DEF IInv, Progress, FindsFirstFree
  <2>3. CASE result # STORAGE_BLOCK_USED
    <3>1. PICK b \in free : result = OffsetOf(b) /\ \A c \in free : b <= c
      BY <2>3 DEF IInv, Progress
    <3>2. FlashOffset(result) + PageOffset(result) = OffsetOf(b)
      BY <2>1, <3>1, OffsetsExact
    <3> QED  BY <2>3, <3>1, <3>2 DEF FindsFirstFree
  <2> QED  BY <2>2, <2>3
<1> QED  BY <1>1, Invariant, PTL

\* The list has one entry per block, at the block's own index.
THEOREM ListCorrect == Spec => []ListsEveryBlock
<1>1. IInv => ListsEveryBlock
  <2> SUFFICES ASSUME IInv, scan = "list", offset = AreaSize PROVE map = free
    BY DEF ListsEveryBlock
  <2>1. PICK b \in 0 .. STORAGE_MAX_MACRO : offset = OffsetOf(b) /\ map = {c \in free : c < b}
    BY DEF IInv, Progress
  <2>2. b = 128
    <3>1. OffsetOf(b) = 256 * b
      BY MacroSize DEF OffsetOf
    <3>2. b \in 0 .. 128
      BY <2>1 DEF STORAGE_MAX_MACRO
    <3>3. 256 * b = 32768
      <4>1. offset = OffsetOf(b)
        BY <2>1
      <4>2. offset = 32768
        BY MacroSize
      <4> QED  BY <3>1, <4>1, <4>2
    <3> QED  BY <3>2, <3>3
  <2>3. \A c \in free : c < 128
    BY AreasAssumption DEF IInv, TypeOK, Block, STORAGE_MAX_MACRO
  <2> QED  BY <2>1, <2>2, <2>3
<1> QED  BY <1>1, Invariant, PTL
------------------------------------------------------------------------------
\* How often a scan may still go round, its last comparison included.
RoundsLeft ==
  (STORAGE_MAX_MACRO - (offset \div STORAGE_MACRO_SIZE)) + (IF result = -1 THEN 1 ELSE 0)

LEMMA RoundsAre ==
  ASSUME NEW b \in 0 .. STORAGE_MAX_MACRO, offset = OffsetOf(b)
  PROVE  RoundsLeft = 128 - b + (IF result = -1 THEN 1 ELSE 0)
<1>1. b \in Nat /\ offset = 256 * b
  BY MacroSize DEF OffsetOf, STORAGE_MAX_MACRO
<1>2. (256 * b) \div 256 = b
  BY <1>1
<1> QED  BY <1>1, <1>2, MacroSize DEF RoundsLeft, STORAGE_MAX_MACRO

LEMMA RoundsBounded == IInv => RoundsLeft \in 0 .. STORAGE_MAX_MACRO + 1
<1> SUFFICES ASSUME IInv PROVE RoundsLeft \in 0 .. STORAGE_MAX_MACRO + 1
  OBVIOUS
<1>1. PICK b \in 0 .. STORAGE_MAX_MACRO : offset = OffsetOf(b)
  BY DEF IInv, Progress
<1> QED  BY <1>1, RoundsAre DEF STORAGE_MAX_MACRO

\* A step of the loop takes the offset to the next block; the others end the search.
LEMMA NextRound ==
  ASSUME IInv, Next
  PROVE  \/ offset' = offset + STORAGE_MACRO_SIZE /\ offset < AreaSize /\ result' = result
         \/ offset' = offset /\ result = -1 /\ result' # -1
<1>1. CASE FindHit
  <2>1. offset # -1
    BY DEF IInv, TypeOK
  <2> QED  BY <1>1, <2>1 DEF FindHit, Running
<1>2. CASE FindNext
  BY <1>2 DEF FindNext, Running
<1>3. CASE FindNothing
  BY <1>3 DEF FindNothing, STORAGE_BLOCK_USED
<1>4. CASE ListNext
  BY <1>4 DEF ListNext, Running
<1> QED  BY <1>1, <1>2, <1>3, <1>4 DEF Next

LEMMA RoundTaken == IInv /\ Next => RoundsLeft' = RoundsLeft - 1
<1> SUFFICES ASSUME IInv, Next PROVE RoundsLeft' = RoundsLeft - 1
  OBVIOUS
<1>1. PICK b \in 0 .. STORAGE_MAX_MACRO : offset = OffsetOf(b)
  BY DEF IInv, Progress
<1>2. b \in 0 .. 128 /\ offset = 256 * b /\ AreaSize = 32768 /\ STORAGE_MACRO_SIZE = 256
  BY <1>1, MacroSize DEF OffsetOf, STORAGE_MAX_MACRO
<1>3. RoundsLeft = 128 - b + (IF result = -1 THEN 1 ELSE 0)
  BY <1>1, RoundsAre
<1>4. CASE offset' = offset + STORAGE_MACRO_SIZE /\ offset < AreaSize /\ result' = result
  <2>1. b + 1 \in Nat /\ offset' = 256 * (b + 1)
    BY <1>2, <1>4
  <2>2. (256 * (b + 1)) \div 256 = b + 1
    BY <2>1
  <2>3. RoundsLeft' = 128 - (b + 1) + (IF result = -1 THEN 1 ELSE 0)
    BY <1>2, <1>4, <2>1, <2>2 DEF RoundsLeft, STORAGE_MAX_MACRO
  <2> QED  BY <1>2, <1>3, <2>3
<1>5. CASE offset' = offset /\ result = -1 /\ result' # -1
  BY <1>2, <1>3, <1>5, MacroSize DEF RoundsLeft, STORAGE_MAX_MACRO
<1> QED  BY <1>4, <1>5, NextRound

\* Both loops end after 129 comparisons at most, whatever the area holds: each round
\* leaves one less.
THEOREM ScanShortens ==
  Spec => /\ [](RoundsLeft \in 0 .. STORAGE_MAX_MACRO + 1)
          /\ [][RoundsLeft' = RoundsLeft - 1]_vars
<1>1. IInv /\ [Next]_vars => [RoundsLeft' = RoundsLeft - 1]_vars
  BY RoundTaken
<1> QED  BY <1>1, RoundsBounded, Invariant, PTL DEF Spec
==============================================================================
