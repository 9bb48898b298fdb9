---------------------------- MODULE MCMacroEngine ----------------------------
(* Three programs: a delayed and an undelayed entry on opposite directions, *)
(* two macros of which the first triggers the second, and two taps of one   *)
(* button in one macro.                                                     *)
EXTENDS MacroEngine

MCLeftover == {[delay |-> 0, press |-> 0], [delay |-> 0, press |-> 2], [delay |-> 2, press |-> 1]}

MCBtn == {"UP", "DOWN", "A", "B"}

Hide(b) == [button |-> b, keep |-> FALSE]
Keep(b) == [button |-> b, keep |-> TRUE]
Tap(b, d, p) == [delay |-> d, press |-> p, button |-> b, keep |-> FALSE]
Hold(b, d)   == [delay |-> d, press |-> 0, button |-> b, keep |-> TRUE]
Combo(a, p)  == [press |-> p, act |-> a]

MCPrograms ==
  { <<>>,
    << Combo(<<Hide("A"), Keep("B")>>, <<Tap("UP", 1, 2), Hold("DOWN", 0)>>) >>,
    << Combo(<<Hide("A")>>, <<Tap("B", 1, 1)>>),
       Combo(<<Keep("B")>>, <<Tap("A", 0, 2), Hold("DOWN", 1)>>) >>,
    << Combo(<<Keep("A")>>, <<Tap("A", 0, 1), Tap("A", 2, 1)>>) >> }
==============================================================================
