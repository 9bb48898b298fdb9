------------------------------ MODULE MacroStore ------------------------------
(***************************************************************************)
(* storage.c over real flash: a page is copied to the static buffer buf,   *)
(* erased, and programmed again from buf in order of addresses.  Power may *)
(* fail at any moment, in the middle of an erase or of a block too.        *)
(*                                                                         *)
(* The firmware calls the changing operations from one interrupt handler   *)
(* only (the configuration endpoint) and the USB interrupts share one      *)
(* priority, so an operation is never interleaved with another one: what   *)
(* can come between two of its steps is the loss of power.  The buffer is  *)
(* RAM; here it is indexed by block number instead of offset in the page   *)
(* (StorageScan relates the two), and CLEAN outside the copied page.       *)
(***************************************************************************)
EXTENDS StorageBlocks

VARIABLES
  flash,    \* the storage area at STORAGE_ADDR
  buf,      \* the page buffer
  pc,       \* "off", "idle", "erase" or "program"
  op,       \* the operation under way
  page,     \* the page it is rewriting
  target,   \* the block it wants to change (add, remove)
  arg,      \* the macro it stores, or the name it removes
  todo,     \* blocks of the page not yet programmed
  ret       \* what the last operation returned

vars == <<flash, buf, pc, op, page, target, arg, todo, ret>>

NONE == "none"
AllClean == [b \in Block |-> CLEAN]

\* storage_read_page() of page p.
PageImage(p) == [b \in Block |-> IF PageOf[b] = p THEN flash[b] ELSE CLEAN]

\* Programming works on erased cells only; anything else leaves garbage.
Programmed(old, new) == IF old = ERASED THEN new ELSE TORN

Init ==
  /\ flash \in Delivered
  /\ buf = AllClean
  /\ pc = "off" /\ op = NONE /\ page = 0 /\ target = 0 /\ arg = NONE
  /\ todo = {} /\ ret = NONE

\* storage_init()
PowerUp ==
  /\ pc = "off"
  /\ pc' = "idle"
  /\ buf' = AllClean
  /\ UNCHANGED <<flash, op, page, target, arg, todo, ret>>

\* Start rewriting page p with the buffer content image.
Rewrite(o, p, b, a, image) ==
  /\ pc' = "erase"
  /\ op' = o /\ page' = p /\ target' = b /\ arg' = a /\ buf' = image
  /\ UNCHANGED <<flash, todo, ret>>

\* An operation that returns without writing; its scan left page p in buf.
GiveUp(p, r) ==
  /\ buf' = PageImage(p)
  /\ ret' = r
  /\ UNCHANGED <<flash, pc, op, page, target, arg, todo>>

-------------------------------------------------------------------------------
\* Plausible bugs: each stands for the action it is named after, and a property
\* below tells it apart.  They are no part of the specification.

\* storage_add_macro() patches the buffer without storage_read_page().
AddMacroUnread(m) ==
  /\ pc = "idle"
  /\ \E b \in Block :
       /\ FirstOf(b, FreeIn(flash))
       /\ Rewrite("add", PageOf[b], b, m, [AllClean EXCEPT ![b] = m])

\* storage_find_macro() goes on after a match and returns the last one.
RemoveMacroLast(n) ==
  /\ pc = "idle"
  /\ \E b \in Named(flash, n) :
       /\ \A c \in Named(flash, n) : c <= b
       /\ Rewrite("remove", PageOf[b], b, n,
                  [PageImage(PageOf[b]) EXCEPT ![b] = CLEAN])

\* storage_clear() counts pages up to STORAGE_PAGES included ...
NextPageTooFar ==
  /\ pc = "program" /\ todo = {}
  /\ op = "clear" /\ page \in Page
  /\ page' = page + 1
  /\ pc' = "erase"
  /\ UNCHANGED <<flash, buf, op, target, arg, todo, ret>>

\* ... erases the first page only ...
NextPageUnerased ==
  /\ pc = "program" /\ todo = {}
  /\ op = "clear" /\ page + 1 \in Page
  /\ page' = page + 1
  /\ todo' = BlocksOf(page')
  /\ UNCHANGED <<flash, buf, pc, op, target, arg, ret>>

\* ... does not advance ...
NextPageStays ==
  /\ pc = "program" /\ todo = {}
  /\ op = "clear" /\ page + 1 \in Page
  /\ pc' = "erase"
  /\ UNCHANGED <<flash, buf, op, page, target, arg, todo, ret>>

\* ... or returns after the first page.
ReturnEarly ==
  /\ pc = "program" /\ todo = {}
  /\ pc' = "idle" /\ op' = NONE /\ page' = 0 /\ target' = 0 /\ arg' = NONE
  /\ ret' = "ok"
  /\ UNCHANGED <<flash, buf, todo>>
-------------------------------------------------------------------------------
\* storage_add_macro(): the first free block is patched in the buffer.  (The code
\* patches it after the erase; nothing reads the buffer in between.)
AddMacro(m) ==
  /\ pc = "idle"
  /\ \E b \in Block :
       /\ FirstOf(b, FreeIn(flash))
       /\ Rewrite("add", PageOf[b], b, m, [PageImage(PageOf[b]) EXCEPT ![b] = m])

AddMacroFull ==
  /\ pc = "idle"
  /\ FreeIn(flash) = {}
  /\ GiveUp(NumPages - 1, "full")

\* storage_remove_macro(): only the first byte of the name is cleared.
RemoveMacro(n) ==
  /\ pc = "idle"
  /\ \E b \in Block :
       /\ FoundAs(b, flash, n)
       /\ Rewrite("remove", PageOf[b], b, n,
                  [PageImage(PageOf[b]) EXCEPT ![b] = CLEAN])

RemoveMacroUnknown(n) ==
  /\ pc = "idle"
  /\ Named(flash, n) = {}
  /\ GiveUp(NumPages - 1, "notfound")

\* storage_clear(): page 0 first, see NextPage.
Clear ==
  /\ pc = "idle"
  /\ Rewrite("clear", 0, 0, NONE, AllClean)

\* storage_get_macro_list() scans all blocks, storage_get_macro() reads one.
GetMacroList ==
  /\ pc = "idle"
  /\ GiveUp(NumPages - 1, "map")

GetMacro(b) ==
  /\ pc = "idle"
  /\ GiveUp(PageOf[b], IF flash[b] = CLEAN THEN "clear" ELSE "used")

\* storage_erase_page()
ErasePage ==
  /\ pc = "erase"
  /\ flash' = [b \in Block |-> IF PageOf[b] = page THEN ERASED ELSE flash[b]]
  /\ todo' = BlocksOf(page)
  /\ pc' = "program"
  /\ UNCHANGED <<buf, op, page, target, arg, ret>>

\* storage_write_page(): the 64 words of the next block.
ProgramBlock(b) ==
  /\ pc = "program"
  /\ FirstOf(b, todo)
  /\ flash' = [flash EXCEPT ![b] = Programmed(@, buf[b])]
  /\ todo' = todo \ {b}
  /\ UNCHANGED <<buf, pc, op, page, target, arg, ret>>

\* The loop of storage_clear() goes on with the next page ...
NextPage ==
  /\ pc = "program" /\ todo = {}
  /\ op = "clear" /\ page + 1 \in Page
  /\ page' = page + 1
  /\ pc' = "erase"
  /\ UNCHANGED <<flash, buf, op, target, arg, todo, ret>>

\* ... and every operation returns after its last page.
Return ==
  /\ pc = "program" /\ todo = {}
  /\ op = "clear" => page + 1 \notin Page
  /\ pc' = "idle" /\ op' = NONE /\ page' = 0 /\ target' = 0 /\ arg' = NONE
  /\ ret' = "ok"
  /\ UNCHANGED <<flash, buf, todo>>

\* Power fails.  A cut in the middle of an erase leaves any block of the page as
\* it was, erased or torn; one in the middle of a write tears the block that is
\* being programmed.  RAM is lost.
PowerLoss ==
  /\ pc # "off"
  /\ \/ UNCHANGED flash
     \/ pc = "erase" /\ \E E, T \in SUBSET BlocksOf(page) :
                            flash' = Damage(flash, E, T)
     \/ pc = "program" /\ \E b \in Block :
                            /\ FirstOf(b, todo)
                            /\ flash' = [flash EXCEPT ![b] = TORN]
  /\ pc' = "off" /\ op' = NONE /\ page' = 0 /\ target' = 0 /\ arg' = NONE
  /\ buf' = AllClean /\ todo' = {} /\ ret' = NONE

Call ==
  \/ \E m \in Macro : AddMacro(m)
  \/ AddMacroFull
  \/ \E n \in Name : RemoveMacro(n) \/ RemoveMacroUnknown(n)
  \/ Clear
  \/ GetMacroList
  \/ \E b \in Block : GetMacro(b)

\* The steps of an operation under way.
Step == ErasePage \/ (\E b \in Block : ProgramBlock(b)) \/ NextPage \/ Return

Next == PowerUp \/ Call \/ Step \/ PowerLoss

Spec == Init /\ [][Next]_vars

\* The processor runs an operation it has started; nobody has to call one.
FairSpec == Spec /\ WF_vars(Step)
-------------------------------------------------------------------------------
TypeOK ==
  /\ flash \in [Block -> Content]
  /\ buf \in [Block -> Content]
  /\ pc \in {"off", "idle", "erase", "program"}
  /\ op \in {NONE, "add", "remove", "clear"}
  /\ page \in Page /\ target \in Block
  /\ arg \in Macro \cup Name \cup {NONE}
  /\ todo \subseteq Block
  /\ ret \in {NONE, "ok", "full", "notfound", "map", "clear", "used"}

\* A cell is programmed only after it was erased: whatever a power cut or an
\* earlier operation left behind, storage_write_page() finds the blocks it is
\* about to write erased (storage_add_macro, _remove_macro and _clear each call
\* storage_erase_page() first).
ProgramsErased ==
  pc = "program" => \A b \in todo : flash[b] = ERASED

\* The table as a caller sees it.  A page commits to being free when it is
\* erased (clear, remove); an added macro commits when the last block of its
\* page is written and the operation returns.
Table ==
  [b \in Block |->
     IF pc = "program" /\ PageOf[b] = page
     THEN IF op = "add" /\ b = target THEN CLEAN ELSE buf[b]
     ELSE flash[b]]

\* The parts of the inductive invariant.  The buffer is a faithful copy of the
\* page that is about to be erased, except for the block to be changed ...
BufferedFaithfully ==
  pc = "erase" /\ op \in {"add", "remove"} =>
    \A b \in Block \ {target} : PageOf[b] = page => buf[b] = flash[b]

\* ... what is written so far is the buffer's content ...
WrittenAsBuffered ==
  pc = "program" =>
    \A b \in Block : PageOf[b] = page /\ b \notin todo => flash[b] = buf[b]

\* ... and each operation still is what its caller asked for.
AddUnderWay ==
  op = "add" =>
    /\ PageOf[target] = page
    /\ arg \in Macro /\ buf[target] = arg
    /\ FirstOf(target, FreeIn(Table))

RemoveUnderWay ==
  op = "remove" =>
    /\ PageOf[target] = page
    /\ arg \in Name /\ buf[target] = CLEAN
    /\ pc = "erase" => FoundAs(target, flash, arg)

ClearUnderWay ==
  op = "clear" =>
    /\ buf = AllClean
    /\ \A b \in Block : PageOf[b] < page => flash[b] = CLEAN

OpInv ==
  /\ pc \in {"erase", "program"} <=> op # NONE
  /\ \A b \in todo : pc = "program" /\ PageOf[b] = page
  /\ BufferedFaithfully
  /\ WrittenAsBuffered
  /\ AddUnderWay
  /\ RemoveUnderWay
  /\ ClearUnderWay

Powered == pc # "off"

Abstract == INSTANCE MacroTable WITH table <- Table, powered <- Powered

\* storage.c keeps the promise of MacroTable: operations are exact, they pick
\* the first free (matching) block, and a power cut spoils one page at most.
RefinesMacroTable == Abstract!TableSpec

\* storage_clear() returns only when every block of every page is free, those
\* that power cuts had spoilt included.
ClearHealsAll ==
  [][op = "clear" /\ ret' = "ok" /\ pc' = "idle"
       => \A b \in Block : flash'[b] = CLEAN]_vars

\* An operation that has started returns, unless power is lost: the page loop
\* of storage_clear() and the word loop of storage_write_page() end.
OperationsReturn == pc \in {"erase", "program"} ~> pc \in {"idle", "off"}
===============================================================================
