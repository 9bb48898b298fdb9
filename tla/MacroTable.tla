------------------------------ MODULE MacroTable ------------------------------
(***************************************************************************)
(* What the macro storage promises its callers, whatever the flash does    *)
(* underneath: a table of blocks that an operation changes in one block at *)
(* a time (clearing: one page at a time).  When power fails at most one    *)
(* page is spoilt, the one that was being rewritten; a macro that was      *)
(* being added may or may not be there.                                    *)
(***************************************************************************)
EXTENDS StorageBlocks

VARIABLES table, powered

TableTypeOK == table \in [Block -> Content]

TableInit == table \in Delivered /\ powered = FALSE

\* The first free block takes the macro and nothing else changes.
Add(m) ==
  \E b \in Block :
    /\ FirstOf(b, FreeIn(table))
    /\ table' = [table EXCEPT ![b] = m]

\* A block whose name matches becomes free and nothing else changes.
Remove(n) ==
  \E b \in Block :
    /\ FoundAs(b, table, n)
    /\ table' = [table EXCEPT ![b] = CLEAN]

ClearPage(p) ==
  table' = [b \in Block |-> IF PageOf[b] = p THEN CLEAN ELSE table[b]]

Operation ==
  \/ \E m \in Macro : Add(m)
  \/ \E n \in Name : Remove(n)
  \/ \E p \in Page : ClearPage(p)

\* Power fails while page p is rewritten: each of its blocks keeps its content,
\* is erased or torn ...
CutPage(p) ==
  \E E, T \in SUBSET BlocksOf(p) : table' = Damage(table, E, T)

\* ... and the block that was to hold m may already do so.
CutAdd(m) ==
  \E b \in Block :
    /\ FirstOf(b, FreeIn(table))
    /\ \E E, T \in SUBSET BlocksOf(PageOf[b]) :
         table' = Damage([table EXCEPT ![b] = m], E, T)

PowerOff ==
  \/ UNCHANGED table
  \/ \E p \in Page : CutPage(p)
  \/ \E m \in Macro : CutAdd(m)

TableNext ==
  \/ powered /\ powered' /\ Operation
  \/ powered /\ ~powered' /\ PowerOff
  \/ ~powered /\ powered' /\ UNCHANGED table

TableSpec == TableInit /\ [][TableNext]_<<table, powered>>
===============================================================================
