----------------------------- MODULE LinkedList -----------------------------
(***************************************************************************)
(* list.c, and the functions of gamepad.c that keep the installed macros   *)
(* in it: for each pad a list of macros, each of which owns two lists of   *)
(* buttons.  All cells come from one heap; freeing the macros walks the    *)
(* cells that it frees.  A clear is one step per turn of a loop, and stops *)
(* at the first pointer to a cell that is not what its type says.          *)
(***************************************************************************)
EXTENDS Integers, Sequences, FiniteSets

CONSTANTS
  NumPads,      \* 4
  NumCells,     \* the cells of the heap
  Btn,          \* gamepad_macro_btn_t
  None

ASSUME ListAssumption ==
  /\ NumPads \in Nat \ {0} /\ NumCells \in Nat /\ NumCells >= NumPads
  /\ None \notin [act : Seq(Btn), press : Seq(Btn)]

VARIABLES
  heap,
  macro,        \* the one that update_gamepads_macro() puts together, or NULL
  pc,           \* "idle"; where gamepads_macro_clear() is: "iter", "list"
  pad, node,    \* its loop variables
  list          \* the list that list_clear() is at

vars == <<heap, macro, pc, pad, node, list>>

NULL == 0
Pads == 0 .. NumPads - 1
Cell == 1 .. NumCells

\* &gamepad_macros[p]: the array is allocated once, before all the rest.
ListOf(p) == p + 1

\* A cell that nobody owns, and what malloc()ed ones hold at first.
FREE             == [kind |-> "free"]
EmptyList        == [kind |-> "list", head |-> NULL, bottom |-> NULL, size |-> 0]
Node(value, prv) == [kind |-> "node", value |-> value, previous |-> prv, next |-> NULL]

IsA(kind, a) == a \in Cell /\ heap[a].kind = kind
Live(a)      == a \in Cell /\ heap[a] # FREE

\* malloc() takes the first free cell, or the first but those of the calls before.
New(taken) ==
  CHOOSE a \in Cell : /\ heap[a] = FREE /\ a \notin taken
                      /\ \A b \in 1 .. a - 1 : heap[b] # FREE \/ b \in taken

Used == {a \in Cell : heap[a] # FREE}
Room(n) == Cardinality(Used) + n <= NumCells

Freed(h, S) == [a \in Cell |-> IF a \in S THEN FREE ELSE h[a]]
-----------------------------------------------------------------------------
\* list_push_back() to an empty list, with the node n it gets.
PushFirst(h, l, value, n) ==
  [h EXCEPT ![n] = Node(value, NULL),
            ![l] = [EmptyList EXCEPT !.head = n, !.bottom = n, !.size = 1]]
-----------------------------------------------------------------------------
\* Plausible bugs, told apart by a property below; no part of the specification.

\* A pushed node does not know the one before it, ...
PushOneWay(h, l, value, n) ==
  IF h[l].head = NULL THEN PushFirst(h, l, value, n)
  ELSE [h EXCEPT ![n] = Node(value, NULL), ![h[l].bottom].next = n,
                 ![l].bottom = n, ![l].size = @ + 1]

\* ... is linked to the first one, ...
PushOver(h, l, value, n) ==
  IF h[l].head = NULL THEN PushFirst(h, l, value, n)
  ELSE [h EXCEPT ![n] = Node(value, h[l].bottom), ![h[l].head].next = n,
                 ![l].bottom = n, ![l].size = @ + 1]

\* ... or is not counted.
PushUncounted(h, l, value, n) ==
  IF h[l].head = NULL THEN PushFirst(h, l, value, n)
  ELSE [h EXCEPT ![n] = Node(value, h[l].bottom), ![h[l].bottom].next = n,
                 ![l].bottom = n]

\* The two lists of a macro are emptied but not freed.
ReleasedEmptied(h, m) == h
-----------------------------------------------------------------------------
\* list_push_back(), list_iter(), list_get() and list_length().
Push(h, l, value, n) ==
  IF h[l].head = NULL THEN PushFirst(h, l, value, n)
  ELSE [h EXCEPT ![n] = Node(value, h[l].bottom), ![h[l].bottom].next = n,
                 ![l].bottom = n, ![l].size = @ + 1]

Iter(l, n) == IF n = NULL THEN heap[l].head ELSE heap[n].next

Get(l, i) ==
  LET at[k \in 0 .. i] == IF k = 0 THEN heap[l].head ELSE heap[at[k - 1]].next
  IN  IF i >= heap[l].size THEN NULL ELSE heap[at[i]].value

Length(l) == heap[l].size

\* What a caller meets who iterates over a list until he gets NULL.
Chain(l) ==
  LET after == [n \in Cell \cup {NULL} |-> IF IsA("node", n) THEN Iter(l, n) ELSE NULL]
      met[k \in Cell] == IF k = 1 THEN Iter(l, NULL) ELSE after[met[k - 1]]
  IN  [k \in {i \in Cell : met[i] # NULL} |-> met[k]]

Values   == [nodes \in Seq(Cell) |-> [k \in DOMAIN nodes |-> heap[nodes[k]].value]]
Items(l) == Values[Chain(l)]
-----------------------------------------------------------------------------
Init ==
  /\ heap = [a \in Cell |-> IF a \in 1 .. NumPads THEN EmptyList ELSE FREE]
  /\ macro = NULL /\ pc = "idle" /\ pad = 0 /\ node = NULL /\ list = NULL

\* gamepads_macro_init()
MacroInit ==
  LET m == New({})
      a == New({m})
      p == New({m, a})
  IN  /\ pc = "idle" /\ macro = NULL /\ Room(3)
      /\ heap' = [heap EXCEPT ![m] = [kind |-> "macro", act |-> a, press |-> p],
                              ![a] = EmptyList, ![p] = EmptyList]
      /\ macro' = m
      /\ UNCHANGED <<pc, pad, node, list>>

\* gamepads_macro_add_btn(macro->act_buttons or ->press_buttons, b)
AddBtn(which, b) ==
  LET v == New({})
  IN  /\ pc = "idle" /\ macro # NULL /\ Room(2)
      /\ heap' = Push([heap EXCEPT ![v] = [kind |-> "btn", btn |-> b]],
                      heap[macro][which], v, New({v}))
      /\ UNCHANGED <<macro, pc, pad, node, list>>

\* gamepads_macro_add()
MacroAdd(p) ==
  /\ pc = "idle" /\ macro # NULL /\ Room(1)
  /\ heap' = Push(heap, ListOf(p), macro, New({}))
  /\ macro' = NULL
  /\ UNCHANGED <<pc, pad, node, list>>

\* gamepads_macro_clear(), from its call ...
Clear ==
  /\ pc = "idle" /\ macro = NULL
  /\ pc' = "iter" /\ pad' = 0 /\ node' = NULL
  /\ UNCHANGED <<heap, macro, list>>

\* What its next turn, or that of the loop of list_clear(), looks at is what it takes
\* it for.
VisitSafe ==
  LET n == Iter(ListOf(pad), node)
  IN  /\ IF node = NULL THEN IsA("list", ListOf(pad)) ELSE IsA("node", node)
      /\ n = NULL \/ (IsA("node", n) /\ IsA("macro", heap[n].value))

ClearSafe ==
  /\ IsA("list", list)
  /\ \/ heap[list].head = NULL /\ heap[list].bottom = NULL
     \/ IsA("node", heap[list].bottom) /\ Live(heap[heap[list].bottom].value)
  /\ node # NULL => IsA("node", node) /\ IsA("macro", heap[node].value)

\* ... over each macro of a pad, whose lists it clears, to the end of the pad's
\* list, which it clears then ...
Visit ==
  LET n == Iter(ListOf(pad), node)
  IN  /\ pc = "iter" /\ VisitSafe
      /\ pc' = "list" /\ node' = n
      /\ list' = IF n = NULL THEN ListOf(pad) ELSE heap[heap[n].value].act
      /\ UNCHANGED <<heap, macro, pad>>

\* (A plausible bug.)  The loop of list_clear() does not go back.
PopStays ==
  /\ pc = "list" /\ ClearSafe /\ heap[list].head # heap[list].bottom
  /\ UNCHANGED vars

\* The turns of the loop of list_clear(): the last node goes, with its value.
Pop ==
  LET bottom == heap[list].bottom
  IN  /\ pc = "list" /\ ClearSafe /\ heap[list].head # bottom
      /\ heap' = Freed([heap EXCEPT ![list].bottom = heap[bottom].previous],
                       {bottom, heap[bottom].value})
      /\ UNCHANGED <<macro, pc, pad, node, list>>

\* What gamepads_macro_clear() does when the lists of macro m are cleared.
Released(h, m) == Freed(h, {heap[m].act, heap[m].press})

\* The list that list_clear() leaves, empty before it or with the one node that the
\* loop stopped at.
Emptied(l) ==
  IF heap[l].bottom = NULL THEN heap
  ELSE Freed([heap EXCEPT ![l] = EmptyList], {heap[l].head, heap[heap[l].head].value})

Finish ==
  LET m == heap[node].value
  IN  /\ pc = "list" /\ ClearSafe /\ heap[list].head = heap[list].bottom
      /\ \/ /\ node # NULL /\ list = heap[m].act
            /\ heap' = Emptied(list) /\ list' = heap[m].press
            /\ UNCHANGED <<pc, pad>>
         \/ /\ node # NULL /\ list = heap[m].press
            /\ heap' = Released(Emptied(list), m) /\ pc' = "iter"
            /\ UNCHANGED <<pad, list>>
         \/ /\ node = NULL
            /\ heap' = Emptied(list)
            /\ pad' = (pad + 1) % NumPads
            /\ pc' = IF pad' = 0 THEN "idle" ELSE "iter"
            /\ UNCHANGED list
      /\ UNCHANGED <<macro, node>>

Next ==
  \/ MacroInit \/ Clear \/ Visit \/ Pop \/ Finish
  \/ \E which \in {"act", "press"}, b \in Btn : AddBtn(which, b)
  \/ \E p \in Pads : MacroAdd(p)

Spec == Init /\ [][Next]_vars

\* The processor runs a clear that has started; nobody has to call one.
Clearing == Visit \/ Pop \/ Finish
FairSpec == Spec /\ WF_vars(Clearing)
-----------------------------------------------------------------------------
\* Clearing never meets a cell that was freed before or is not what it should be: not
\* the node and the macro that gamepads_macro_clear() looks at next, not the cells on
\* list_clear()'s way back along the previous pointers.
NeverStray == (pc = "iter" => VisitSafe) /\ (pc = "list" => ClearSafe)

\* What can be reached is what is not free: nothing leaks, however often the macros
\* are installed again.
In(s)      == {s[k] : k \in DOMAIN s}
CellsOf(l) == {l} \cup In(Chain(l)) \cup In(Items(l))
MacroCells(m) == {m} \cup CellsOf(heap[m].act) \cup CellsOf(heap[m].press)

Owned ==
  LET installed == UNION {In(Items(ListOf(p))) : p \in Pads}
  IN  (UNION ({CellsOf(ListOf(p)) : p \in Pads} \cup {MacroCells(m) : m \in installed}))
        \cup (IF macro = NULL THEN {} ELSE MacroCells(macro))

NoLeak == pc = "idle" => Used = Owned

\* The size, the values by index, and the links in both directions tell the same.
Agree(l) ==
  LET c == Chain(l)
  IN  /\ Length(l) = Len(c)
      /\ \A k \in DOMAIN c : Get(l, k - 1) = heap[c[k]].value
      /\ Get(l, Length(l)) = NULL
      /\ \A k \in DOMAIN c : heap[c[k]].previous = IF k = 1 THEN NULL ELSE c[k - 1]

WalksAgree == pc = "idle" => \A l \in Cell : IsA("list", l) => Agree(l)

\* The lists as sequences.  Once gamepads_macro_clear() is called nobody reads them
\* until they are empty.
Buttons    == [btns \in Seq(Cell) |-> [k \in DOMAIN btns |-> heap[btns[k]].btn]]
MacroAt(m) == [act   |-> Buttons[Items(heap[m].act)],
               press |-> Buttons[Items(heap[m].press)]]
Macros     == [ms \in Seq(Cell) |-> [k \in DOMAIN ms |-> MacroAt(ms[k])]]

Lists == INSTANCE MacroLists WITH
  lists <- [p \in Pads |-> IF pc = "idle" THEN Macros[Items(ListOf(p))] ELSE <<>>],
  macro <- IF macro = NULL THEN None ELSE MacroAt(macro)

\* What is pushed is found again, in order, in the list it was pushed to and no other,
\* and a clear leaves nothing of it.
KeepsLists == Lists!Spec

\* gamepads_macro_clear() returns: its loops end, though they walk over lists that they
\* take apart, with a node whose macro is half gone.
ClearEnds == pc # "idle" ~> pc = "idle"
==============================================================================
