---------------------------- MODULE MacroTimeline ----------------------------
(***************************************************************************)
(* What a macro promises the player: while its act buttons stay pressed,   *)
(* each of its press entries follows a timeline that is counted in reads   *)
(* of the pad from the moment the combination was completed.  The entry    *)
(* leaves its button alone for `delay' reads, presses it for `press' reads *)
(* (for good, if it keeps pressed) and holds it released from then on.     *)
(* Letting go of the combination rewinds every timeline of the macro.      *)
(*                                                                         *)
(* A macro that was just installed is UNARMED: it promises nothing until a *)
(* read has found its combination incomplete.                              *)
(***************************************************************************)
EXTENDS MacroButtons

CONSTANTS
  MaxHeld,      \* bound of the count of reads, beyond every timeline
  UNARMED

ASSUME TimelineAssumption ==
  /\ MaxHeld \in Nat
  /\ UNARMED \notin Nat
  /\ \A l \in Programs : \A i \in DOMAIN l : \A j \in DOMAIN l[i].press :
       l[i].press[j].delay + l[i].press[j].press <= MaxHeld

VARIABLES
  macros,       \* the macros installed for the pad, in list order
  held,         \* held[i]: how many reads in a row found macros[i] active
  at,           \* 0 between two reads, else the macro to apply next
  pad,          \* the buttons the pad had pressed at the last read
  buttons,      \* the button array of the read under way
  report        \* the report sent to the host last

tvars == <<macros, held, at, pad, buttons, report>>

\* What entry e does to its button in the n-th read in a row.
Scheduled(e, n) ==
  IF n <= e.delay THEN "leave"
  ELSE IF e.keep \/ n <= e.delay + e.press THEN "press"
  ELSE "release"

\* What the entries of macro i may do in the current read.
Promised(i, effect) ==
  LET m == macros[i] IN
  CASE ~Active(m, buttons)  -> \A j \in DOMAIN m.press : effect[j] = "leave"
    [] Active(m, buttons) /\ held[i] = UNARMED -> TRUE
    [] Active(m, buttons) /\ held[i] # UNARMED ->
         \A j \in DOMAIN m.press : effect[j] = Scheduled(m.press[j], held[i] + 1)

HeldNext(i) ==
  IF ~Active(macros[i], buttons) THEN 0
  ELSE IF held[i] = UNARMED \/ held[i] = MaxHeld THEN held[i]
  ELSE held[i] + 1

TimelineInit ==
  /\ macros = <<>> /\ held = <<>>
  /\ at = 0 /\ pad = {} /\ buttons = {} /\ report = ReportOf({})

Install(l) ==
  /\ at = 0
  /\ macros' = l
  /\ held' = [i \in DOMAIN l |-> UNARMED]
  /\ UNCHANGED <<at, pad, buttons, report>>

ReadPad(p) ==
  /\ at = 0
  /\ at' = 1 /\ pad' = p /\ buttons' = p
  /\ UNCHANGED <<macros, held, report>>

Apply(i) ==
  /\ at = i /\ i \in DOMAIN macros
  /\ \E effect \in [DOMAIN macros[i].press -> Effects] :
       /\ Promised(i, effect)
       /\ buttons' = After(macros[i], buttons, effect)
  /\ held' = [held EXCEPT ![i] = HeldNext(i)]
  /\ at' = i + 1
  /\ UNCHANGED <<macros, pad, report>>

Send ==
  /\ at # 0 /\ at \notin DOMAIN macros
  /\ report' = ReportOf(buttons)
  /\ at' = 0
  /\ UNCHANGED <<macros, held, pad, buttons>>

TimelineNext ==
  \/ \E l \in Programs : Install(l)
  \/ \E p \in SUBSET Btn : ReadPad(p)
  \/ \E i \in DOMAIN macros : Apply(i)
  \/ Send

TimelineSpec == TimelineInit /\ [][TimelineNext]_tvars
==============================================================================
