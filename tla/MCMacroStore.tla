---------------------------- MODULE MCMacroStore ----------------------------
(* Two pages of two blocks, two macros. *)
EXTENDS MacroStore

CONSTANTS m1, m2, n1, n2

MCPageOf == [b \in 0 .. 3 |-> b \div 2]
MCNameOf == [m \in {m1, m2} |-> IF m = m1 THEN n1 ELSE n2]
=============================================================================
