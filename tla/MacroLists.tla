----------------------------- MODULE MacroLists -----------------------------
(* What gamepad.c wants of its lists: for each pad a sequence of macros, and a  *)
(* macro that is put together before it is added to one of them.               *)
EXTENDS Sequences

CONSTANTS Pads, Btn, None

VARIABLES lists, macro

EmptyMacro == [act |-> <<>>, press |-> <<>>]
Empty      == [p \in Pads |-> <<>>]

Init == lists = Empty /\ macro = None

MacroInit == macro = None /\ macro' = EmptyMacro /\ UNCHANGED lists

AddBtn(which, b) ==
  /\ macro # None
  /\ macro' = [macro EXCEPT ![which] = Append(@, b)]
  /\ UNCHANGED lists

MacroAdd(p) ==
  /\ macro # None
  /\ lists' = [lists EXCEPT ![p] = Append(@, macro)]
  /\ macro' = None

Clear == macro = None /\ lists' = Empty /\ UNCHANGED macro

Next ==
  \/ MacroInit \/ Clear
  \/ \E which \in {"act", "press"}, b \in Btn : AddBtn(which, b)
  \/ \E p \in Pads : MacroAdd(p)

Spec == Init /\ [][Next]_<<lists, macro>>
==============================================================================
