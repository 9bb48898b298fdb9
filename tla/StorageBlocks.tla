---------------------------- MODULE StorageBlocks ----------------------------
(***************************************************************************)
(* The storage area of storage.c as a row of fixed-size blocks, one macro  *)
(* each, that lie in flash pages.  What a block holds is abstracted to     *)
(* what the firmware can tell apart by reading it back:                    *)
(*                                                                         *)
(*   CLEAN   name[0] is zero: the block is free;                           *)
(*   a macro the whole record of one macro, as the caller passed it;       *)
(*   ERASED  0xff throughout, as flash_erase_page leaves it;               *)
(*   TORN    an erase or a write that power loss cut in the middle.        *)
(*                                                                         *)
(* ERASED and TORN blocks do not start with a zero byte, so every scan of  *)
(* storage.c takes them for used ones.  A block cut after its first byte   *)
(* became zero is free to every scan, and so counts as CLEAN.              *)
(***************************************************************************)
EXTENDS Naturals

CONSTANTS
  NumBlocks,           \* STORAGE_MAX_MACRO
  NumPages,            \* STORAGE_PAGES
  PageOf,              \* the page a block lies in, the eight blocks of a 2 KB page
  Macro,               \* the macros a caller may store
  Name,                \* their names, none of them empty
  NameOf,              \* the name of a macro
  CLEAN, ERASED, TORN

Block == 0 .. NumBlocks - 1
Page  == 0 .. NumPages - 1

ASSUME BlocksAssumption ==
  /\ NumBlocks \in Nat \ {0}
  /\ NumPages \in Nat \ {0}
  /\ PageOf \in [Block -> Page]
  /\ \A p \in Page : \E b \in Block : PageOf[b] = p
  /\ NameOf \in [Macro -> Name]
  /\ CLEAN \notin Macro \cup {ERASED, TORN}
  /\ ERASED \notin Macro \cup {TORN}
  /\ TORN \notin Macro

Damaged == {ERASED, TORN}
Content == Macro \cup {CLEAN} \cup Damaged

BlocksOf(p) == {b \in Block : PageOf[b] = p}

\* A device leaves the factory with blank flash; afterwards the area has been
\* cleared at least once.
Delivered == {[b \in Block |-> ERASED], [b \in Block |-> CLEAN]}

\* b is the member of S that a scan in order of offsets meets first.
FirstOf(b, S) == b \in S /\ \A c \in S : b <= c

\* The blocks of t a scan takes for free: name[0] == '\0'.
FreeIn(t) == {b \in Block : t[b] = CLEAN}

\* The blocks whose name strcmp() finds equal to n for sure, and those it may:
\* what is left of the name in a torn block is anybody's guess.
Named(t, n)   == {b \in Block : t[b] \in Macro /\ NameOf[t[b]] = n}
MayMatch(t, n) == Named(t, n) \cup {b \in Block : t[b] = TORN}

\* The block storage_find_macro(n) may return.
FoundAs(b, t, n) == b \in MayMatch(t, n) /\ \A c \in Named(t, n) : b <= c

\* t after power loss left the blocks in E erased and those in T torn.
Damage(t, E, T) ==
  [b \in Block |-> IF b \in T THEN TORN ELSE IF b \in E THEN ERASED ELSE t[b]]
==============================================================================
