----------------------------- MODULE StorageScan -----------------------------
(***************************************************************************)
(* The offsets of storage.h, with its real sizes, and the loops of         *)
(* storage.c that walk the storage area by them: storage_find_free() and   *)
(* storage_get_macro_list().  A scan reads the page an offset lies in and  *)
(* looks at the record at the offset's place in that page; this module     *)
(* shows that it meets the blocks one after the other, each exactly once,  *)
(* as the quantifiers over blocks of MacroStore say it does.               *)
(*                                                                         *)
(* storage_find_macro() is storage_find_free() with another test: read     *)
(* `free' as the blocks whose name matches.  Nothing else writes flash     *)
(* while a scan runs.                                                      *)
(***************************************************************************)
EXTENDS Integers

\* storage.h
STORAGE_PAGE_SIZE  == 2048
STORAGE_MAX_MACRO  == 128
STORAGE_PAGES      == STORAGE_MAX_MACRO \div 8
STORAGE_MAX_ACTS   == 6
STORAGE_MAX_PRESS  == 28
SizeofMacro        == 46 + 1 + 1 + 4           \* storage_macro_t, packed
SizeofBtn          == 1 + 2 + 2 + 1            \* storage_btn_t, packed
STORAGE_MACRO_SIZE ==
  SizeofMacro + SizeofBtn * STORAGE_MAX_ACTS + SizeofBtn * STORAGE_MAX_PRESS
AreaSize           == STORAGE_MAX_MACRO * STORAGE_MACRO_SIZE

\* Both the code storage_find_free() returns when nothing is free and the one
\* storage_find_macro() returns when nothing is found.
STORAGE_BLOCK_USED == 255

\* (A plausible bug, like those below: no part of the specification.)  The mask of
\* an area of eight pages, 0x3800.
FlashOffsetEightPages(x) == ((x \div 2048) % 8) * STORAGE_PAGE_SIZE

\* STORAGE_FLASH_OFFSET: ((x & 0x7800) >> 11) * STORAGE_PAGE_SIZE
FlashOffset(x) == ((x \div 2048) % 16) * STORAGE_PAGE_SIZE

\* STORAGE_PAGE_OFFSET: ((x & 0x0700) >> 8) * STORAGE_MACRO_SIZE
PageOffset(x) == ((x \div 256) % 8) * STORAGE_MACRO_SIZE

Block == 0 .. STORAGE_MAX_MACRO - 1
OffsetOf(b) == b * STORAGE_MACRO_SIZE

\* Where the k-th act button and press entry of block b are in the page buffer.
ActAt(b, k)   == PageOffset(OffsetOf(b)) + SizeofMacro + SizeofBtn * k
PressAt(b, k) == PageOffset(OffsetOf(b)) + SizeofMacro + SizeofBtn * STORAGE_MAX_ACTS
                   + SizeofBtn * k

CONSTANT Areas          \* the sets of free blocks to scan

ASSUME AreasAssumption == Areas \subseteq SUBSET Block

VARIABLES
  free,         \* the blocks whose record starts with a zero byte
  scan,         \* "find" (storage_find_free) or "list" (storage_get_macro_list)
  offset,       \* the loop variable of both
  i,            \* the uint8_t block counter of "list"
  map,          \* what "list" returns: the blocks it found CLEAR
  result        \* what "find" returned, -1 before

vars == <<free, scan, offset, i, map, result>>

\* The block whose record memcpy() takes from the page buffer.
Looked == (FlashOffset(offset) + PageOffset(offset)) \div STORAGE_MACRO_SIZE

Init ==
  /\ free \in Areas /\ scan \in {"find", "list"}
  /\ offset = 0 /\ i = 0 /\ map = {} /\ result = -1

Running == result = -1 /\ offset < AreaSize

\* Plausible bugs, told apart by a property below.

\* The loop variable is not advanced.
FindNextStays ==
  /\ Running /\ scan = "find" /\ Looked \notin free
  /\ UNCHANGED vars

\* The block counter counts used blocks only.
ListNextUsed ==
  /\ Running /\ scan = "list"
  /\ map' = IF Looked \in free THEN map \cup {i} ELSE map
  /\ i' = IF Looked \in free THEN i ELSE (i + 1) % 256
  /\ offset' = offset + STORAGE_MACRO_SIZE
  /\ UNCHANGED <<free, scan, result>>

FindHit ==
  /\ Running /\ scan = "find" /\ Looked \in free
  /\ result' = offset
  /\ UNCHANGED <<free, scan, offset, i, map>>

FindNext ==
  /\ Running /\ scan = "find" /\ Looked \notin free
  /\ offset' = offset + STORAGE_MACRO_SIZE
  /\ UNCHANGED <<free, scan, i, map, result>>

FindNothing ==
  /\ result = -1 /\ offset >= AreaSize /\ scan = "find"
  /\ result' = STORAGE_BLOCK_USED
  /\ UNCHANGED <<free, scan, offset, i, map>>

ListNext ==
  /\ Running /\ scan = "list"
  /\ map' = IF Looked \in free THEN map \cup {i} ELSE map
  /\ i' = (i + 1) % 256
  /\ offset' = offset + STORAGE_MACRO_SIZE
  /\ UNCHANGED <<free, scan, result>>

Next == FindHit \/ FindNext \/ FindNothing \/ ListNext

Spec == Init /\ [][Next]_vars

FairSpec == Spec /\ WF_vars(Next)
------------------------------------------------------------------------------
TypeOK ==
  /\ free \in Areas /\ scan \in {"find", "list"}
  /\ offset \in 0 .. AreaSize
  /\ i \in 0 .. 255
  /\ map \subseteq 0 .. 255
  /\ result \in {-1, STORAGE_BLOCK_USED} \cup {OffsetOf(b) : b \in Block}

\* storage_add_macro() can tell a full storage from a free block by comparing the
\* offset with 255, and otherwise writes to the first free block: the page it
\* erases and the place it patches are that block's.
FindsFirstFree ==
  result # -1 =>
    IF result = STORAGE_BLOCK_USED
    THEN free = {}
    ELSE \E b \in free :
           /\ \A c \in free : b <= c
           /\ FlashOffset(result) + PageOffset(result) = OffsetOf(b)

\* The map that storage_get_macro_list() returns is indexed by block, the way
\* update_gamepads_macro() passes its index to storage_get_macro().
ListsEveryBlock == scan = "list" /\ offset = AreaSize => map = free

\* Both loops end.
ScanEnds == <>(result # -1 \/ (scan = "list" /\ offset = AreaSize))
==============================================================================
