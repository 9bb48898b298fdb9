----------------------------- MODULE MacroEngine -----------------------------
(***************************************************************************)
(* gamepad_read() of gamepad.c for one gamepad: the pad's buttons are      *)
(* sampled (any set of them), the installed macros are                     *)
(* applied in list order, and the report is put together.  Each press      *)
(* entry counts its time down in two 16-bit fields that                    *)
(* update_gamepads_macro() leaves uninitialised.                           *)
(*                                                                         *)
(* All of this runs in the USB interrupt, as does the installation of      *)
(* macros, so neither interrupts the other.  held is an auxiliary variable:*)
(* the code does not have it; see MacroTimeline for what it counts.        *)
(***************************************************************************)
EXTENDS MacroTimeline

CONSTANTS
  MaxTime,      \* 65535, the largest time_delay_last and time_press_last
  Leftover      \* what a fresh heap block may hold in place of the two

ASSUME TimeAssumption ==
  /\ MaxTime \in Nat
  /\ Leftover \subseteq [delay : 0 .. MaxTime, press : 0 .. MaxTime]
  /\ Leftover # {}
  /\ \A l \in Programs : \A i \in DOMAIN l : \A j \in DOMAIN l[i].press :
       l[i].press[j].delay <= MaxTime /\ l[i].press[j].press <= MaxTime

VARIABLE left           \* left[<<i, j>>]: the two counters of macros[i].press[j]

vars == <<macros, held, at, pad, buttons, report, left>>

Entries(l) == UNION {{i} \X DOMAIN l[i].press : i \in DOMAIN l}

Counters == [delay : 0 .. MaxTime, press : 0 .. MaxTime]
------------------------------------------------------------------------------
\* Plausible bugs, told apart by a property below; no part of the specification.

\* The delay ends one read too early.
EffectEarly(e, c) ==
  IF c.delay > 1 THEN "leave"
  ELSE IF e.keep \/ c.press > 0 THEN "press"
  ELSE "release"

\* time_press_last is decremented without the test for zero ...
CountedBelowZero(e, c) ==
  IF c.delay # 0 THEN [c EXCEPT !.delay = @ - 1]
  ELSE IF ~e.keep THEN [c EXCEPT !.press = @ - 1]
  ELSE c

\* ... or starts again when it gets there.
CountedAgain(e, c) ==
  IF c.delay # 0 THEN [c EXCEPT !.delay = @ - 1]
  ELSE IF e.keep THEN c
  ELSE IF c.press > 0 THEN [c EXCEPT !.press = @ - 1]
  ELSE [delay |-> e.delay, press |-> e.press]

\* Letting go rewinds the delay only.
FullDelay(e) == [delay |-> e.delay, press |-> 0]

\* The button array is not written where the pad reads released.
SampleOver(p) ==
  /\ at = 0
  /\ at' = 1 /\ pad' = p /\ buttons' = buttons \cup p
  /\ UNCHANGED <<macros, held, report, left>>
------------------------------------------------------------------------------
\* What an inactive macro sets the counters of an entry to.
Full(e)  == [delay |-> e.delay, press |-> e.press]

\* gamepads_macro_accept(), the third loop: what an active macro's entry does
\* to its button, and its counters afterwards.
Effect(e, c) ==
  IF c.delay # 0 THEN "leave"
  ELSE IF e.keep \/ c.press > 0 THEN "press"
  ELSE "release"

Counted(e, c) ==
  IF c.delay # 0 THEN [c EXCEPT !.delay = @ - 1]
  ELSE IF ~e.keep /\ c.press > 0 THEN [c EXCEPT !.press = @ - 1]
  ELSE c

Init == TimelineInit /\ left = <<>>

\* update_gamepads_macro(), for this pad: the old list is freed, the new one has
\* whatever the heap held in time_delay_last and time_press_last.
InstallMacros(l) ==
  /\ at = 0
  /\ macros' = l
  /\ left' \in [Entries(l) -> Leftover]
  /\ held' = [i \in DOMAIN l |-> UNARMED]
  /\ UNCHANGED <<at, pad, buttons, report>>

\* gamepad_read(), up to the macros: every byte of the array is written.
Sample(p) == ReadPad(p) /\ UNCHANGED left

\* gamepads_macro_accept() for the i-th macro of the list.
Accept(i) ==
  /\ at = i /\ i \in DOMAIN macros
  /\ LET m == macros[i]
         active == Active(m, buttons)
     IN  /\ buttons' = After(m, buttons,
               [j \in DOMAIN m.press |->
                  IF active THEN Effect(m.press[j], left[<<i, j>>]) ELSE "leave"])
         /\ left' = [x \in Entries(macros) |->
               IF x[1] # i THEN left[x]
               ELSE IF active THEN Counted(m.press[x[2]], left[x])
               ELSE Full(m.press[x[2]])]
  /\ held' = [held EXCEPT ![i] = HeldNext(i)]
  /\ at' = i + 1
  /\ UNCHANGED <<macros, pad, report>>

\* gamepad_read(), after the macros, and endpoint_in_callback().
Report == Send /\ UNCHANGED left

Next ==
  \/ \E l \in Programs : InstallMacros(l)
  \/ \E p \in SUBSET Btn : Sample(p)
  \/ \E i \in DOMAIN macros : Accept(i)
  \/ Report

Spec == Init /\ [][Next]_vars

\* The interrupt handler runs to its end, and the host keeps polling the pad.
FairSpec ==
  /\ Spec
  /\ WF_vars((\E i \in DOMAIN macros : Accept(i)) \/ Report)
  /\ WF_vars(\E p \in SUBSET Btn : Sample(p))
------------------------------------------------------------------------------
TypeOK ==
  /\ macros \in Programs
  /\ at \in 0 .. Len(macros) + 1
  /\ pad \subseteq Btn /\ buttons \subseteq Btn
  /\ held \in [DOMAIN macros -> 0 .. MaxHeld \cup {UNARMED}]
  /\ left \in [Entries(macros) -> Counters]

\* The counters c of an entry e whose macro has been active for n reads.
OnTime(e, c, n) ==
  IF n < e.delay
  THEN c = [delay |-> e.delay - n, press |-> e.press]
  ELSE /\ c.delay = 0
       /\ c.press = IF e.keep THEN e.press
                    ELSE IF n <= e.delay + e.press THEN e.delay + e.press - n ELSE 0

\* Once a macro is armed, the counters of its entries are where the timeline
\* says (gamepads_macro_accept() counts time_delay_last down, then
\* time_press_last, and rewinds both).
CountersOnTime ==
  \A i \in DOMAIN macros : held[i] # UNARMED =>
    \A j \in DOMAIN macros[i].press : OnTime(macros[i].press[j], left[<<i, j>>], held[i])

\* gamepads_macro_accept() keeps the promise of MacroTimeline.
RefinesTimeline == TimelineSpec

\* With no button pressed on the pad no macro is active, whatever the counters
\* hold: what the host gets is the neutral report (no button is ever stuck).
NothingPressedNothingSent ==
  [][at # 0 /\ at' = 0 /\ pad = {} => report' = ReportOf({})]_vars

\* A macro fires once per combination: with the player's fingers still and no
\* macros installed, the reports come to rest, whatever macros trigger each
\* other through the buttons they press.
ReportsComeToRest ==
  <>[][pad' = pad /\ ~\E l \in Programs : InstallMacros(l)]_vars
    => <>[][report' = report]_report
==============================================================================
