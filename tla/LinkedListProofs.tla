-------------------------- MODULE LinkedListProofs --------------------------
(***************************************************************************)
(* For every number of pads and cells and every set of buttons: clearing   *)
(* never strays, nothing leaks, the walks agree, and the lists implement   *)
(* MacroLists.                                                             *)
(*                                                                         *)
(* The invariant, IInv, says that there are ghosts: at[l][1], ...,         *)
(* at[l][len[l]] are the nodes of list l in their order, and gone are the  *)
(* macros whose two lists a clear has freed already.  Heap(h, len, at,     *)
(* gone, out, loose) says how the cells of heap h fit together: the nodes  *)
(* of a list are linked in both directions, no node is in two places, each *)
(* node has a value of its own, each macro two lists of its own, and       *)
(* nothing is without an owner, but for the values in out, which are in no *)
(* list yet.  Of the list loose, which list_clear() is at, the size and    *)
(* the next pointer of the last node are stale.  Control says how far a    *)
(* clear has come.                                                         *)
(*                                                                         *)
(* First what each operation on the heap does to Heap, then one lemma per  *)
(* action, then the theorems.                                              *)
(***************************************************************************)
EXTENDS LinkedList, FiniteSetTheorems, SequenceTheorems, WellFoundedInduction, TLAPS

Link     == Cell \cup {NULL}
PadLists == 1 .. NumPads

Block ==
  {FREE} \cup [kind : {"btn"}, btn : Btn]
    \cup [kind : {"list"}, head : Link, bottom : Link, size : Nat]
    \cup [kind : {"node"}, value : Cell, previous : Link, next : Link]
    \cup [kind : {"macro"}, act : Cell, press : Cell]

Is(h, kind, a) == a \in Cell /\ h[a].kind = kind

\* The nodes of list l are at[l][1], ..., at[l][len[l]], and no node is in two places.
NodeAt(h, len, at, loose, l, k) ==
  /\ Is(h, "node", at[l][k])
  /\ h[at[l][k]].previous = IF k = 1 THEN NULL ELSE at[l][k - 1]
  /\ l # loose \/ k < len[l]
       => h[at[l][k]].next = IF k = len[l] THEN NULL ELSE at[l][k + 1]

ListAt(h, len, at, loose, l) ==
  /\ h[l].head = IF len[l] = 0 THEN NULL ELSE at[l][1]
  /\ h[l].bottom = IF len[l] = 0 THEN NULL ELSE at[l][len[l]]
  /\ l # loose \/ len[l] = 0 => h[l].size = len[l]
  /\ \A k \in 1 .. len[l] : NodeAt(h, len, at, loose, l, k)

Linked(h, len, at, loose) ==
  \A l \in Cell : /\ Is(h, "list", l) => ListAt(h, len, at, loose, l)
                  /\ ~Is(h, "list", l) => len[l] = 0

Apart(len, at) ==
  \A l, m \in Cell : \A j \in 1 .. len[l], k \in 1 .. len[m] :
    at[l][j] = at[m][k] => l = m /\ j = k

NodesOwned(h, len, at) ==
  \A a \in Cell : Is(h, "node", a) => \E l \in Cell : \E k \in 1 .. len[l] : a = at[l][k]

\* Each node has a value of its own: a macro in the list of a pad, a button in one of
\* a macro.
ValuesFit(h, len, at) ==
  \A l \in Cell : \A k \in 1 .. len[l] :
    Is(h, IF l \in PadLists THEN "macro" ELSE "btn", h[at[l][k]].value)

ValuesApart(h) ==
  \A a, b \in Cell : Is(h, "node", a) /\ Is(h, "node", b) /\ h[a].value = h[b].value => a = b

\* The values in out are not in a list yet.
ValuesOwned(h, out) ==
  \A v \in Cell : (Is(h, "btn", v) \/ Is(h, "macro", v)) /\ v \notin out
                    => \E a \in Cell : Is(h, "node", a) /\ h[a].value = v

Outside(h, out) ==
  \A v \in out : /\ Is(h, "btn", v) \/ Is(h, "macro", v)
                 /\ \A a \in Cell : Is(h, "node", a) => h[a].value # v

\* Each macro has two lists of its own, unless they are gone.
Whole(h, gone, m) == Is(h, "macro", m) /\ m \notin gone

PartsFit(h, gone) ==
  \A m \in Cell : Whole(h, gone, m) =>
    /\ Is(h, "list", h[m].act) /\ Is(h, "list", h[m].press) /\ h[m].act # h[m].press
    /\ h[m].act \notin PadLists /\ h[m].press \notin PadLists

PartsApart(h, gone) ==
  \A m, n \in Cell : Whole(h, gone, m) /\ Whole(h, gone, n) /\ m # n =>
    h[m].act # h[n].act /\ h[m].act # h[n].press /\ h[m].press # h[n].press

ListsOwned(h, gone) ==
  \A l \in Cell : Is(h, "list", l) =>
    l \in PadLists \/ \E m \in Cell : Whole(h, gone, m) /\ l \in {h[m].act, h[m].press}

PadsThere(h) == \A l \in PadLists : Is(h, "list", l)

\* Where gamepads_macro_clear() is: the lists of the first r macros of the pad are gone.
First(h, at, l, r) == {h[at[l][k]].value : k \in 1 .. r}

Control(len, at, gone) ==
  LET P == ListOf(pad)
  IN  /\ pc \in {"idle", "iter", "list"} /\ pad \in Pads
      /\ macro # NULL => Is(heap, "macro", macro)
      /\ pc = "idle" => node = NULL /\ pad = 0 /\ gone = {}
      /\ pc # "idle" => macro = NULL /\ \A p \in Pads : p < pad => len[ListOf(p)] = 0
      /\ pc = "iter" => \E r \in 0 .. len[P] : /\ node = IF r = 0 THEN NULL ELSE at[P][r]
                                               /\ gone = First(heap, at, P, r)
      /\ pc = "list" /\ node = NULL => list = P /\ gone = First(heap, at, P, len[P])
      /\ pc = "list" /\ node # NULL =>
           \E r \in 0 .. len[P] - 1 :
             /\ node = at[P][r + 1] /\ gone = First(heap, at, P, r)
             /\ LET m == heap[node].value
                IN  list = heap[m].act \/ (list = heap[m].press /\ len[heap[m].act] = 0)

Loose == IF pc = "list" THEN list ELSE NULL

\* The heap is what the code takes it for.
Heap(h, len, at, gone, out, loose) ==
  /\ h \in [Cell -> Block] /\ len \in [Cell -> Nat] /\ at \in [Cell -> [Nat -> Cell]]
  /\ Linked(h, len, at, loose) /\ Apart(len, at) /\ NodesOwned(h, len, at)
  /\ ValuesFit(h, len, at) /\ ValuesApart(h) /\ ValuesOwned(h, out) /\ Outside(h, out)
  /\ PartsFit(h, gone) /\ PartsApart(h, gone) /\ ListsOwned(h, gone) /\ PadsThere(h)
-------------------------------------------------------------------------------
LEMMA Kinds ==
  ASSUME NEW h \in [Cell -> Block], NEW a \in Cell
  PROVE  /\ Is(h, "btn", a) => h[a] \in [kind : {"btn"}, btn : Btn]
         /\ Is(h, "list", a) => h[a] \in [kind : {"list"}, head : Link, bottom : Link, size : Nat]
         /\ Is(h, "node", a) => h[a] \in [kind : {"node"}, value : Cell, previous : Link, next : Link]
         /\ Is(h, "macro", a) => h[a] \in [kind : {"macro"}, act : Cell, press : Cell]
         /\ h[a] # FREE => h[a].kind \in {"btn", "list", "node", "macro"}
BY DEF Block, Is, FREE

\* What does not change.
KindsKept(h, h2, S) ==
  \A kind \in {"btn", "list", "node", "macro"}, a \in Cell \ S :
    Is(h2, kind, a) <=> Is(h, kind, a)

Kept(h, h2) ==
  \A a \in Cell : /\ Is(h, "macro", a) \/ Is(h, "btn", a) => h2[a] = h[a]
                  /\ Is(h, "node", a) => h2[a].value = h[a].value

NodesKept(h, h2, len, at, S) ==
  \A m \in Cell \ S : \A k \in 1 .. len[m] : h2[at[m][k]] = h[at[m][k]]

FrontKept(h, h2, len, at, l) == \A k \in 1 .. len[l] - 1 : h2[at[l][k]] = h[at[l][k]]

MacrosKept(h, h2, S) == \A m \in Cell \ S : Is(h, "macro", m) => h2[m] = h[m]

\* The last node of a list goes, with its value.
Drops(h, h2, len, at, l, b, v) ==
  /\ l \in Cell /\ Is(h, "list", l) /\ len[l] > 0
  /\ b = at[l][len[l]] /\ v = h[b].value
  /\ h2 \in [Cell -> Block] /\ h2[b] = FREE /\ h2[v] = FREE
  /\ \A a \in Cell \ {b, v, l} : h2[a] = h[a]
  /\ Is(h2, "list", l) /\ (len[l] = 1 => h2[l].size = 0)
  /\ h2[l].head = IF len[l] = 1 THEN NULL ELSE at[l][1]
  /\ h2[l].bottom = IF len[l] = 1 THEN NULL ELSE at[l][len[l] - 1]

SameMacros(h, gone, gone2) == \A m \in Cell : Is(h, "macro", m) => (m \in gone2 <=> m \in gone)

LEMMA Dropped ==
  ASSUME NEW h, NEW len, NEW at, NEW gone, NEW out, NEW l, Heap(h, len, at, gone, out, l),
         NEW h2, NEW b, NEW v, Drops(h, h2, len, at, l, b, v), l \in PadLists => v \in gone,
         NEW gone2, SameMacros(h2, gone, gone2), NEW loose2, loose2 = l \/ len[l] = 1
  PROVE  /\ Heap(h2, [len EXCEPT ![l] = @ - 1], at, gone2, out, loose2)
         /\ NodesKept(h, h2, len, at, {l}) /\ MacrosKept(h, h2, {v}) /\ KindsKept(h, h2, {b, v})
         /\ FrontKept(h, h2, len, at, l)
<1> DEFINE len2 == [len EXCEPT ![l] = @ - 1]
<1> USE DEF Drops, SameMacros
<1>1. /\ h \in [Cell -> Block] /\ len \in [Cell -> Nat] /\ at \in [Cell -> [Nat -> Cell]]
      /\ Linked(h, len, at, l) /\ Apart(len, at) /\ NodesOwned(h, len, at)
      /\ ValuesFit(h, len, at) /\ ValuesApart(h) /\ ValuesOwned(h, out) /\ Outside(h, out)
      /\ PartsFit(h, gone) /\ PartsApart(h, gone) /\ ListsOwned(h, gone) /\ PadsThere(h)
  BY DEF Heap
<1>t. h \in [Cell -> Block] /\ len \in [Cell -> Nat] /\ at \in [Cell -> [Nat -> Cell]]
  BY <1>1
<1>a. Apart(len, at) /\ Linked(h, len, at, l)
  BY <1>1
<1>l. len[l] \in Nat \ {0}
  BY <1>t
<1>2. /\ len2 \in [Cell -> Nat] /\ len2[l] = len[l] - 1
      /\ \A m \in Cell \ {l} : len2[m] = len[m]
      /\ \A m \in Cell : \A k \in 1 .. len2[m] : k \in 1 .. len[m] /\ (m = l => k < len[l])
  <2>1. len2 \in [Cell -> Nat] /\ len2[l] = len[l] - 1
    <3>1. len[l] - 1 \in Nat
      BY <1>l
    <3>2. len2 = [len EXCEPT ![l] = len[l] - 1]
      OBVIOUS
    <3> HIDE DEF len2
    <3> QED  BY <1>t, <3>1, <3>2
  <2>2. \A m \in Cell \ {l} : len2[m] = len[m]
    BY <1>t
  <2>3. ASSUME NEW m \in Cell, NEW k \in 1 .. len2[m] PROVE k \in 1 .. len[m] /\ (m = l => k < len[l])
    <3>1. len[m] \in Nat /\ (len2[m] = len[m] \/ (m = l /\ len2[m] = len[m] - 1))
      BY <1>t, <2>1, <2>2
    <3>2. m = l => len2[m] = len[m] - 1
      BY <2>1
    <3> QED  BY <3>1, <3>2
  <2> QED  BY <2>1, <2>2, <2>3
<1> HIDE DEF len2
<1>3. len[l] \in 1 .. len[l] /\ Is(h, "node", b) /\ b \in Cell
  BY <1>l, <1>a DEF Linked, ListAt, NodeAt, Is
<1>4. /\ v \in Cell /\ Is(h, IF l \in PadLists THEN "macro" ELSE "btn", v)
      /\ v # b /\ v # l /\ b # l
  BY <1>1, <1>3 DEF ValuesFit, Is
<1>5. \A kind \in {"btn", "list", "node", "macro"}, a \in Cell :
        Is(h2, kind, a) <=> Is(h, kind, a) /\ a # b /\ a # v
  BY <1>3, <1>4 DEF Is, FREE
<1>6. \A a \in Cell : Is(h2, "node", a) \/ Is(h2, "macro", a) \/ Is(h2, "btn", a) => h2[a] = h[a]
  BY <1>3, <1>4, <1>5 DEF Is
<1>7. \A m \in Cell : \A k \in 1 .. len2[m] :
        /\ at[m][k] \in Cell /\ at[m][k] # b /\ at[m][k] # v /\ at[m][k] # l
        /\ Is(h, "node", at[m][k]) /\ Is(h2, "node", at[m][k]) /\ h2[at[m][k]] = h[at[m][k]]
  <2> SUFFICES ASSUME NEW m \in Cell, NEW k \in 1 .. len2[m]
               PROVE  /\ at[m][k] \in Cell /\ at[m][k] # b /\ at[m][k] # v /\ at[m][k] # l
                      /\ Is(h, "node", at[m][k]) /\ Is(h2, "node", at[m][k])
                      /\ h2[at[m][k]] = h[at[m][k]]
    OBVIOUS
  <2>1. k \in 1 .. len[m] /\ (m = l => k # len[l])
    BY <1>2
  <2>2. Is(h, "node", at[m][k]) /\ at[m][k] \in Cell
    <3>1. Is(h, "list", m)
      BY <1>a, <1>t, <2>1 DEF Linked
    <3> QED  BY <1>a, <2>1, <3>1 DEF Linked, ListAt, NodeAt, Is
  <2>3. at[m][k] # b
    BY <1>a, <1>3, <2>1 DEF Apart
  <2>4. at[m][k] # v /\ at[m][k] # l
    BY <1>4, <2>2 DEF Is
  <2>5. Is(h2, "node", at[m][k])
    BY <1>5, <2>2, <2>3, <2>4
  <2> QED  BY <1>6, <2>2, <2>3, <2>4, <2>5
<1>8. Linked(h2, len2, at, loose2)
  <2> SUFFICES ASSUME NEW m \in Cell
               PROVE  /\ Is(h2, "list", m) => ListAt(h2, len2, at, loose2, m)
                      /\ ~Is(h2, "list", m) => len2[m] = 0
    BY DEF Linked
  <2>1. Is(h2, "list", m) <=> Is(h, "list", m)
    BY <1>3, <1>4, <1>5 DEF Is
  <2>2. CASE m = l
    <3>1. ASSUME NEW k \in 1 .. len2[l] PROVE NodeAt(h2, len2, at, loose2, l, k)
      <4>1. k \in 1 .. len[l] /\ k < len[l] /\ len[l] # 1
        BY <1>2
      <4>2. NodeAt(h, len, at, l, l, k)
        BY <1>1, <4>1 DEF Linked, ListAt
      <4>3. loose2 = l
        BY <4>1
      <4> QED  BY <1>2, <1>7, <4>1, <4>2, <4>3 DEF NodeAt
    <3>2. ListAt(h2, len2, at, loose2, l)
      <4>1. len2[l] = 0 <=> len[l] = 1
        BY <1>l, <1>2
      <4>2. loose2 # l \/ len2[l] = 0 => h2[l].size = len2[l]
        BY <1>l, <1>2
      <4> QED  BY <1>2, <3>1, <4>1, <4>2 DEF ListAt
    <3> QED  BY <2>2, <3>2
  <2>3. CASE m # l
    <3>1. len2[m] = len[m]
      BY <1>2, <2>3
    <3>2. ASSUME Is(h, "list", m) PROVE ListAt(h2, len2, at, loose2, m)
      <4>1. ListAt(h, len, at, l, m) /\ h2[m] = h[m]
        BY <1>1, <1>3, <1>4, <2>3, <3>2 DEF Linked, Is
      <4>2. ASSUME NEW k \in 1 .. len2[m] PROVE NodeAt(h2, len2, at, loose2, m, k)
        <5>1. NodeAt(h, len, at, l, m, k)
          BY <3>1, <4>1 DEF ListAt
        <5> QED  BY <1>7, <2>3, <3>1, <5>1 DEF NodeAt
      <4> QED  BY <2>3, <3>1, <4>1, <4>2 DEF ListAt
    <3> QED  BY <1>1, <2>1, <3>1, <3>2 DEF Linked
  <2> QED  BY <2>2, <2>3
<1>9. Apart(len2, at)
  <2>1. \A m \in Cell : \A k \in 1 .. len2[m] : k \in 1 .. len[m]
    BY <1>2
  <2> QED  BY ONLY <1>a, <2>1 DEF Apart
<1>10. NodesOwned(h2, len2, at)
  <2> SUFFICES ASSUME NEW a \in Cell, Is(h2, "node", a)
               PROVE  \E m \in Cell : \E k \in 1 .. len2[m] : a = at[m][k]
    BY DEF NodesOwned
  <2>1. Is(h, "node", a) /\ a # b
    BY <1>5
  <2>2. PICK m \in Cell : \E k \in 1 .. len[m] : a = at[m][k]
    BY <1>1, <2>1 DEF NodesOwned
  <2>3. PICK k \in 1 .. len[m] : a = at[m][k]
    BY <2>2
  <2>4. k \in 1 .. len2[m]
    <3>1. m = l => k # len[l]
      BY <2>1, <2>3
    <3>2. m # l => len2[m] = len[m]
      BY <1>2
    <3>3. CASE m = l
      BY <1>l, <1>2, <3>1, <3>3
    <3>4. CASE m # l
      BY <3>2, <3>4
    <3> QED  BY <3>3, <3>4
  <2> QED  BY <2>3, <2>4
<1>11. ValuesFit(h2, len2, at)
  <2> SUFFICES ASSUME NEW m \in Cell, NEW k \in 1 .. len2[m]
               PROVE  Is(h2, IF m \in PadLists THEN "macro" ELSE "btn", h2[at[m][k]].value)
    BY DEF ValuesFit
  <2>1. Is(h, IF m \in PadLists THEN "macro" ELSE "btn", h[at[m][k]].value)
    BY <1>1, <1>2 DEF ValuesFit
  <2>2. h[at[m][k]].value # v /\ h2[at[m][k]] = h[at[m][k]]
    <3>1. /\ at[m][k] \in Cell /\ at[m][k] # b /\ Is(h, "node", at[m][k])
          /\ h2[at[m][k]] = h[at[m][k]]
      BY <1>7
    <3>2. ValuesApart(h)
      BY <1>1
    <3> QED  BY <1>3, <3>1, <3>2 DEF ValuesApart
  <2>3. h[at[m][k]].value # b /\ h[at[m][k]].value \in Cell
    BY <1>3, <2>1 DEF Is
  <2> QED  BY <1>5, <2>1, <2>2, <2>3
<1>12. ValuesApart(h2)
  <2>1. ValuesApart(h)
    BY <1>1
  <2>2. \A a \in Cell : Is(h2, "node", a) => Is(h, "node", a) /\ h2[a] = h[a]
    BY <1>5, <1>6
  <2> QED  BY <2>1, <2>2 DEF ValuesApart
<1>13. ValuesOwned(h2, out)
  <2> SUFFICES ASSUME NEW w \in Cell, Is(h2, "btn", w) \/ Is(h2, "macro", w), w \notin out
               PROVE  \E a \in Cell : Is(h2, "node", a) /\ h2[a].value = w
    BY DEF ValuesOwned
  <2>1. (Is(h, "btn", w) \/ Is(h, "macro", w)) /\ w # v
    BY <1>5
  <2>2. PICK a \in Cell : Is(h, "node", a) /\ h[a].value = w
    BY <1>1, <2>1 DEF ValuesOwned
  <2>3. a # b /\ a # v
    BY <1>4, <2>1, <2>2 DEF Is
  <2> QED  BY <1>5, <1>6, <2>2, <2>3
<1>14. Outside(h2, out)
  <2> SUFFICES ASSUME NEW w \in out
               PROVE  /\ Is(h2, "btn", w) \/ Is(h2, "macro", w)
                      /\ \A a \in Cell : Is(h2, "node", a) => h2[a].value # w
    BY DEF Outside
  <2>1. /\ Is(h, "btn", w) \/ Is(h, "macro", w)
        /\ \A a \in Cell : Is(h, "node", a) => h[a].value # w
    BY <1>1 DEF Outside
  <2>2. w # v /\ w # b /\ w \in Cell
    BY <1>3, <2>1 DEF Is
  <2> QED  BY <1>5, <1>6, <2>1, <2>2
<1>15. \A m \in Cell : Whole(h2, gone2, m) <=> Whole(h, gone, m)
  <2>1. ~Whole(h, gone, v) /\ ~Whole(h, gone, b)
    BY <1>3, <1>4 DEF Whole, Is
  <2> QED  BY <1>5, <2>1 DEF Whole
<1>16. PartsFit(h2, gone2)
  <2> SUFFICES ASSUME NEW m \in Cell, Whole(h2, gone2, m)
               PROVE  /\ Is(h2, "list", h2[m].act) /\ Is(h2, "list", h2[m].press)
                      /\ h2[m].act # h2[m].press
                      /\ h2[m].act \notin PadLists /\ h2[m].press \notin PadLists
    BY DEF PartsFit
  <2>1. h2[m] = h[m]
    BY <1>6 DEF Whole
  <2>2. /\ Is(h, "list", h[m].act) /\ Is(h, "list", h[m].press) /\ h[m].act # h[m].press
        /\ h[m].act \notin PadLists /\ h[m].press \notin PadLists
    BY <1>1, <1>15 DEF PartsFit
  <2>3. /\ h[m].act \notin {b, v} /\ h[m].press \notin {b, v}
        /\ h[m].act \in Cell /\ h[m].press \in Cell
    BY <1>3, <1>4, <2>2 DEF Is
  <2> QED  BY <1>5, <2>1, <2>2, <2>3
<1>17. PartsApart(h2, gone2)
  <2>1. \A m \in Cell : Whole(h2, gone2, m) => h2[m] = h[m] /\ Whole(h, gone, m)
    BY <1>6, <1>15 DEF Whole
  <2>2. PartsApart(h, gone)
    BY <1>1
  <2> QED  BY <2>1, <2>2 DEF PartsApart
<1>18. ListsOwned(h2, gone2)
  <2> SUFFICES ASSUME NEW m \in Cell, Is(h2, "list", m), m \notin PadLists
               PROVE  \E n \in Cell : Whole(h2, gone2, n) /\ m \in {h2[n].act, h2[n].press}
    BY DEF ListsOwned
  <2>1. PICK n \in Cell : Whole(h, gone, n) /\ m \in {h[n].act, h[n].press}
    BY <1>1, <1>5 DEF ListsOwned
  <2>2. Whole(h2, gone2, n) /\ h2[n] = h[n]
    BY <1>6, <1>15, <2>1 DEF Whole
  <2> QED  BY <2>1, <2>2
<1>19. PadsThere(h2)
  BY <1>1, <1>3, <1>4, <1>5 DEF PadsThere, Is
<1>20. \A m \in Cell \ {l} : \A k \in 1 .. len[m] : h2[at[m][k]] = h[at[m][k]]
  BY <1>2, <1>7
<1>21. \A k \in 1 .. len[l] - 1 : h2[at[l][k]] = h[at[l][k]]
  BY <1>2, <1>7
<1>22. \A m \in Cell : Is(h, "macro", m) /\ m # v => h2[m] = h[m]
  BY <1>3, <1>5, <1>6 DEF Is
<1>23. Heap(h2, len2, at, gone2, out, loose2)
  BY <1>1, <1>2, <1>8, <1>9, <1>10, <1>11, <1>12, <1>13, <1>14, <1>16, <1>17, <1>18, <1>19
  DEF Heap
<1> QED  BY <1>5, <1>20, <1>21, <1>22, <1>23 DEF NodesKept, FrontKept, MacrosKept, KindsKept, len2

\* Cells are taken for buttons, macros and empty lists.
LEMMA Grown ==
  ASSUME NEW h, NEW len, NEW at, NEW gone, NEW out, Heap(h, len, at, gone, out, NULL),
         NEW h2 \in [Cell -> Block], (\A a \in Cell : h[a] # FREE => h2[a] = h[a]),
         (\A a \in Cell : h[a] = FREE /\ h2[a] # FREE =>
            h2[a] = EmptyList \/ Is(h2, "btn", a) \/ Is(h2, "macro", a)),
         NEW out2,
         out2 = out \cup {a \in Cell : h[a] = FREE /\ (Is(h2, "btn", a) \/ Is(h2, "macro", a))}
  PROVE  /\ Linked(h2, len, at, NULL) /\ NodesOwned(h2, len, at) /\ ValuesFit(h2, len, at)
         /\ ValuesApart(h2) /\ ValuesOwned(h2, out2) /\ Outside(h2, out2) /\ PadsThere(h2)
<1>1. /\ h \in [Cell -> Block] /\ len \in [Cell -> Nat] /\ at \in [Cell -> [Nat -> Cell]]
      /\ Linked(h, len, at, NULL) /\ NodesOwned(h, len, at)
  BY DEF Heap
<1>2. ValuesFit(h, len, at) /\ ValuesApart(h) /\ ValuesOwned(h, out) /\ Outside(h, out)
  BY DEF Heap
<1>3. \A kind \in {"btn", "list", "node", "macro"}, a \in Cell :
        Is(h, kind, a) => Is(h2, kind, a) /\ h2[a] = h[a]
  BY DEF Is, FREE
<1>4. \A a \in Cell : Is(h2, "node", a) <=> Is(h, "node", a)
  <2>1. \A a \in Cell : h2[a] = EmptyList \/ Is(h2, "btn", a) \/ Is(h2, "macro", a)
                          => ~Is(h2, "node", a)
    BY DEF Is, EmptyList
  <2>2. \A a \in Cell : Is(h2, "node", a) => h2[a] # FREE
    BY DEF Is, FREE
  <2>3. \A a \in Cell : Is(h2, "node", a) /\ h2[a] = h[a] => Is(h, "node", a)
    BY DEF Is
  <2> QED  BY <1>3, <2>1, <2>2, <2>3
<1>5. Linked(h2, len, at, NULL)
  <2> SUFFICES ASSUME NEW l \in Cell
               PROVE  /\ Is(h2, "list", l) => ListAt(h2, len, at, NULL, l)
                      /\ ~Is(h2, "list", l) => len[l] = 0
    BY DEF Linked
  <2>1. CASE Is(h, "list", l)
    <3>1. ListAt(h, len, at, NULL, l) /\ h2[l] = h[l] /\ Is(h2, "list", l)
      BY <1>1, <1>3, <2>1 DEF Linked
    <3>2. ASSUME NEW k \in 1 .. len[l] PROVE NodeAt(h2, len, at, NULL, l, k)
      <4>1. NodeAt(h, len, at, NULL, l, k)
        BY <3>1 DEF ListAt
      <4>2. Is(h2, "node", at[l][k]) /\ h2[at[l][k]] = h[at[l][k]]
        BY <1>3, <4>1 DEF NodeAt, Is
      <4> QED  BY <4>1, <4>2 DEF NodeAt
    <3> QED  BY <3>1, <3>2 DEF ListAt
  <2>2. CASE ~Is(h, "list", l)
    <3>1. len[l] = 0
      BY <1>1, <2>2 DEF Linked
    <3>2. ASSUME Is(h2, "list", l) PROVE h2[l] = EmptyList
      <4>1. h2[l] # FREE /\ ~Is(h2, "btn", l) /\ ~Is(h2, "macro", l)
        BY <3>2 DEF Is, FREE
      <4>2. h[l] = FREE
        BY <2>2, <3>2 DEF Is
      <4> QED  BY <4>1, <4>2
    <3>3. h2[l] = EmptyList => ListAt(h2, len, at, NULL, l)
      BY <3>1 DEF ListAt, EmptyList
    <3> QED  BY <3>1, <3>2, <3>3
  <2> QED  BY <2>1, <2>2
<1>6. NodesOwned(h2, len, at)
  BY <1>1, <1>4 DEF NodesOwned
<1>7. \A l \in Cell : \A k \in 1 .. len[l] :
        /\ at[l][k] \in Cell /\ Is(h, "node", at[l][k]) /\ h2[at[l][k]] = h[at[l][k]]
        /\ Is(h, IF l \in PadLists THEN "macro" ELSE "btn", h[at[l][k]].value)
  <2> SUFFICES ASSUME NEW l \in Cell, NEW k \in 1 .. len[l]
               PROVE  /\ at[l][k] \in Cell /\ Is(h, "node", at[l][k])
                      /\ h2[at[l][k]] = h[at[l][k]]
                      /\ Is(h, IF l \in PadLists THEN "macro" ELSE "btn", h[at[l][k]].value)
    OBVIOUS
  <2>1. Is(h, "list", l)
    BY <1>1 DEF Linked
  <2>2. Is(h, "node", at[l][k]) /\ at[l][k] \in Cell
    <3>1. ListAt(h, len, at, NULL, l)
      BY <1>1, <2>1 DEF Linked
    <3> QED  BY <3>1 DEF ListAt, NodeAt, Is
  <2> QED  BY <1>2, <1>3, <2>2 DEF ValuesFit
<1>8. ValuesFit(h2, len, at)
  <2> SUFFICES ASSUME NEW l \in Cell, NEW k \in 1 .. len[l]
               PROVE  Is(h2, IF l \in PadLists THEN "macro" ELSE "btn", h2[at[l][k]].value)
    BY DEF ValuesFit
  <2>1. h2[at[l][k]] = h[at[l][k]]
    BY <1>7
  <2>2. Is(h, IF l \in PadLists THEN "macro" ELSE "btn", h[at[l][k]].value)
    BY <1>7
  <2>3. h[at[l][k]].value \in Cell
    BY <2>2 DEF Is
  <2> QED  BY <1>3, <2>1, <2>2, <2>3
<1>9. \A a \in Cell : Is(h2, "node", a) => Is(h, "node", a) /\ h2[a] = h[a]
  BY <1>3, <1>4
<1>10. ValuesApart(h2)
  BY <1>2, <1>9 DEF ValuesApart
<1>11. ValuesOwned(h2, out2)
  <2> SUFFICES ASSUME NEW v \in Cell, Is(h2, "btn", v) \/ Is(h2, "macro", v), v \notin out2
               PROVE  \E a \in Cell : Is(h2, "node", a) /\ h2[a].value = v
    BY DEF ValuesOwned
  <2>1. v \notin out /\ h[v] # FREE
    OBVIOUS
  <2>2. Is(h, "btn", v) \/ Is(h, "macro", v)
    BY <2>1 DEF Is
  <2>3. PICK a \in Cell : Is(h, "node", a) /\ h[a].value = v
    BY <1>2, <2>1, <2>2 DEF ValuesOwned
  <2> QED  BY <1>3, <2>3
<1>12. Outside(h2, out2)
  <2> SUFFICES ASSUME NEW v \in out2
               PROVE  /\ Is(h2, "btn", v) \/ Is(h2, "macro", v)
                      /\ \A a \in Cell : Is(h2, "node", a) => h2[a].value # v
    BY DEF Outside
  <2>1. CASE v \in out
    <3>1. /\ Is(h, "btn", v) \/ Is(h, "macro", v)
          /\ \A a \in Cell : Is(h, "node", a) => h[a].value # v
      BY <1>2, <2>1 DEF Outside
    <3>2. v \in Cell
      BY <3>1 DEF Is
    <3> QED  BY <1>3, <1>9, <3>1, <3>2
  <2>2. CASE v \in Cell /\ h[v] = FREE /\ (Is(h2, "btn", v) \/ Is(h2, "macro", v))
    <3>1. ASSUME NEW a \in Cell, Is(h2, "node", a) PROVE h2[a].value # v
      <4>1. Is(h, "node", a) /\ h2[a] = h[a]
        BY <1>9, <3>1
      <4>2. PICK l \in Cell : \E k \in 1 .. len[l] : a = at[l][k]
        BY <1>1, <4>1 DEF NodesOwned
      <4>3. PICK k \in 1 .. len[l] : a = at[l][k]
        BY <4>2
      <4>4. Is(h, IF l \in PadLists THEN "macro" ELSE "btn", h[a].value)
        BY <1>7, <4>3
      <4> QED  BY <2>2, <4>1, <4>4 DEF Is, FREE
    <3> QED  BY <2>2, <3>1
  <2> QED  BY <2>1, <2>2
<1>13. PadsThere(h2)
  <2>1. PadsThere(h)
    BY DEF Heap
  <2> QED  BY <1>3, <2>1 DEF PadsThere, Is
<1> QED  BY <1>5, <1>6, <1>8, <1>10, <1>11, <1>12, <1>13

\* A new button is no list's yet, ...
LEMMA NewButton ==
  ASSUME NEW h, NEW len, NEW at, NEW gone, NEW out, Heap(h, len, at, gone, out, NULL),
         NEW v \in Cell, h[v] = FREE, NEW b \in Btn
  PROVE  Heap([h EXCEPT ![v] = [kind |-> "btn", btn |-> b]], len, at, gone, out \cup {v}, NULL)
<1> DEFINE c == [kind |-> "btn", btn |-> b]
           h2 == [h EXCEPT ![v] = c]
<1>1. /\ h \in [Cell -> Block] /\ len \in [Cell -> Nat] /\ at \in [Cell -> [Nat -> Cell]]
      /\ Apart(len, at) /\ PartsFit(h, gone) /\ PartsApart(h, gone) /\ ListsOwned(h, gone)
  BY DEF Heap
<1>2. c \in Block /\ c.kind = "btn" /\ c # FREE
  BY DEF Block, FREE
<1> HIDE DEF c
<1>3. /\ h2 \in [Cell -> Block] /\ h2[v] = c /\ Is(h2, "btn", v)
      /\ \A a \in Cell \ {v} : h2[a] = h[a]
  BY <1>1, <1>2 DEF Is
<1> HIDE DEF h2
<1>4. \A a \in Cell : h[a] # FREE => h2[a] = h[a]
  BY <1>3
<1>5. \A a \in Cell : h[a] = FREE /\ h2[a] # FREE =>
        h2[a] = EmptyList \/ Is(h2, "btn", a) \/ Is(h2, "macro", a)
  BY <1>3
<1>6. out \cup {v} = out \cup {a \in Cell : h[a] = FREE /\ (Is(h2, "btn", a) \/ Is(h2, "macro", a))}
  <2>1. \A a \in Cell : h[a] = FREE /\ (Is(h2, "btn", a) \/ Is(h2, "macro", a)) <=> a = v
    <3>1. \A a \in Cell : h[a] = FREE /\ a # v => ~Is(h2, "btn", a) /\ ~Is(h2, "macro", a)
      BY <1>3 DEF Is, FREE
    <3> QED  BY <1>3, <3>1
  <2> QED  BY <2>1
<1>7. /\ Linked(h2, len, at, NULL) /\ NodesOwned(h2, len, at) /\ ValuesFit(h2, len, at)
      /\ ValuesApart(h2) /\ ValuesOwned(h2, out \cup {v}) /\ Outside(h2, out \cup {v})
      /\ PadsThere(h2)
  BY <1>3, <1>4, <1>5, <1>6, Grown
<1>8. \A kind \in {"list", "macro"}, a \in Cell :
        Is(h2, kind, a) <=> Is(h, kind, a) /\ h2[a] = h[a]
  BY <1>2, <1>3 DEF Is, FREE
<1>9. \A m \in Cell : Whole(h2, gone, m) <=> Whole(h, gone, m) /\ h2[m] = h[m]
  BY <1>8 DEF Whole
<1>10. PartsFit(h2, gone)
  <2> SUFFICES ASSUME NEW m \in Cell, Whole(h2, gone, m)
               PROVE  /\ Is(h2, "list", h2[m].act) /\ Is(h2, "list", h2[m].press)
                      /\ h2[m].act # h2[m].press
                      /\ h2[m].act \notin PadLists /\ h2[m].press \notin PadLists
    BY DEF PartsFit
  <2>1. /\ h2[m] = h[m]
        /\ Is(h, "list", h[m].act) /\ Is(h, "list", h[m].press) /\ h[m].act # h[m].press
        /\ h[m].act \notin PadLists /\ h[m].press \notin PadLists
    BY <1>1, <1>9 DEF PartsFit
  <2>2. h[m].act # v /\ h[m].press # v /\ h[m].act \in Cell /\ h[m].press \in Cell
    BY <2>1 DEF Is, FREE
  <2>3. h2[h[m].act] = h[h[m].act] /\ h2[h[m].press] = h[h[m].press]
    BY <1>3, <2>2
  <2> QED  BY <2>1, <2>3 DEF Is
<1>11. PartsApart(h2, gone)
  BY <1>1, <1>9 DEF PartsApart
<1>12. ListsOwned(h2, gone)
  <2> SUFFICES ASSUME NEW l \in Cell, Is(h2, "list", l), l \notin PadLists
               PROVE  \E m \in Cell : Whole(h2, gone, m) /\ l \in {h2[m].act, h2[m].press}
    BY DEF ListsOwned
  <2>1. PICK m \in Cell : Whole(h, gone, m) /\ l \in {h[m].act, h[m].press}
    BY <1>1, <1>8 DEF ListsOwned
  <2>2. m # v
    BY <2>1 DEF Whole, Is, FREE
  <2> QED  BY <1>3, <1>9, <2>1, <2>2
<1> QED
  BY <1>1, <1>3, <1>7, <1>10, <1>11, <1>12 DEF Heap, h2, c

\* ... and a new macro brings two empty lists of its own.
LEMMA NewMacro ==
  ASSUME NEW h, NEW len, NEW at, NEW out, Heap(h, len, at, {}, out, NULL),
         NEW m \in Cell, NEW a \in Cell, NEW p \in Cell, m # a, m # p, a # p,
         h[m] = FREE, h[a] = FREE, h[p] = FREE
  PROVE  Heap([h EXCEPT ![m] = [kind |-> "macro", act |-> a, press |-> p],
                        ![a] = EmptyList, ![p] = EmptyList],
              len, at, {}, out \cup {m}, NULL)
<1> DEFINE c == [kind |-> "macro", act |-> a, press |-> p]
           h2 == [h EXCEPT ![m] = c, ![a] = EmptyList, ![p] = EmptyList]
<1>1. /\ h \in [Cell -> Block] /\ len \in [Cell -> Nat] /\ at \in [Cell -> [Nat -> Cell]]
      /\ Apart(len, at) /\ PartsFit(h, {}) /\ PartsApart(h, {}) /\ ListsOwned(h, {})
  BY DEF Heap
<1>2. /\ c \in Block /\ c.kind = "macro" /\ c.act = a /\ c.press = p
      /\ EmptyList \in Block /\ EmptyList.kind = "list"
  BY DEF Block, EmptyList, Link
<1> HIDE DEF c
<1>3. /\ h2 \in [Cell -> Block] /\ h2[m] = c /\ h2[a] = EmptyList /\ h2[p] = EmptyList
      /\ \A b \in Cell \ {m, a, p} : h2[b] = h[b]
  BY <1>1, <1>2
<1> HIDE DEF h2
<1>4. Is(h2, "macro", m) /\ Is(h2, "list", a) /\ Is(h2, "list", p)
  BY <1>2, <1>3 DEF Is
<1>5. \A b \in Cell : h[b] # FREE => h2[b] = h[b]
  BY <1>3
<1>6. \A b \in Cell : h[b] = FREE /\ h2[b] # FREE =>
        h2[b] = EmptyList \/ Is(h2, "btn", b) \/ Is(h2, "macro", b)
  BY <1>3, <1>4
<1>7. out \cup {m} = out \cup {b \in Cell : h[b] = FREE /\ (Is(h2, "btn", b) \/ Is(h2, "macro", b))}
  <2>1. \A b \in Cell : h[b] = FREE /\ (Is(h2, "btn", b) \/ Is(h2, "macro", b)) <=> b = m
    <3>1. \A b \in Cell : h[b] = FREE /\ b # m => ~Is(h2, "btn", b) /\ ~Is(h2, "macro", b)
      BY <1>2, <1>3 DEF Is, FREE
    <3> QED  BY <1>4, <3>1
  <2> QED  BY <2>1
<1>8. /\ Linked(h2, len, at, NULL) /\ NodesOwned(h2, len, at) /\ ValuesFit(h2, len, at)
      /\ ValuesApart(h2) /\ ValuesOwned(h2, out \cup {m}) /\ Outside(h2, out \cup {m})
      /\ PadsThere(h2)
  BY <1>3, <1>5, <1>6, <1>7, Grown
<1>9. \A b \in Cell : Whole(h2, {}, b) <=> b = m \/ (Whole(h, {}, b) /\ b \notin {m, a, p})
  <2>1. ~Whole(h2, {}, a) /\ ~Whole(h2, {}, p) /\ Whole(h2, {}, m)
    BY <1>2, <1>3, <1>4 DEF Whole, Is
  <2> QED  BY <1>3, <2>1 DEF Whole, Is
<1>10. \A b \in Cell : Whole(h, {}, b) =>
         /\ b \notin {m, a, p} /\ h2[b] = h[b]
         /\ h[b].act \in Cell \ {m, a, p} /\ h[b].press \in Cell \ {m, a, p}
         /\ Is(h2, "list", h[b].act) /\ Is(h2, "list", h[b].press)
  <2> SUFFICES ASSUME NEW b \in Cell, Whole(h, {}, b)
               PROVE  /\ b \notin {m, a, p} /\ h2[b] = h[b]
                      /\ h[b].act \in Cell \ {m, a, p} /\ h[b].press \in Cell \ {m, a, p}
                      /\ Is(h2, "list", h[b].act) /\ Is(h2, "list", h[b].press)
    OBVIOUS
  <2>1. b \notin {m, a, p}
    BY DEF Whole, Is, FREE
  <2>2. Is(h, "list", h[b].act) /\ Is(h, "list", h[b].press)
    BY <1>1 DEF PartsFit
  <2>3. h[b].act \in Cell \ {m, a, p} /\ h[b].press \in Cell \ {m, a, p}
    BY <2>2 DEF Is, FREE
  <2>4. h2[b] = h[b] /\ h2[h[b].act] = h[h[b].act] /\ h2[h[b].press] = h[h[b].press]
    BY <1>3, <2>1, <2>3
  <2> QED  BY <2>1, <2>2, <2>3, <2>4 DEF Is
<1>11. a \notin PadLists /\ p \notin PadLists
  <2>1. PadsThere(h)
    BY DEF Heap
  <2> QED  BY <2>1 DEF PadsThere, Is, FREE
<1>12. PartsFit(h2, {})
  <2> SUFFICES ASSUME NEW b \in Cell, Whole(h2, {}, b)
               PROVE  /\ Is(h2, "list", h2[b].act) /\ Is(h2, "list", h2[b].press)
                      /\ h2[b].act # h2[b].press
                      /\ h2[b].act \notin PadLists /\ h2[b].press \notin PadLists
    BY DEF PartsFit
  <2>1. CASE b = m
    BY <1>2, <1>3, <1>4, <1>11, <2>1
  <2>2. CASE b # m
    <3>1. Whole(h, {}, b)
      BY <1>9, <2>2
    <3>2. /\ h[b].act # h[b].press
          /\ h[b].act \notin PadLists /\ h[b].press \notin PadLists
      BY <1>1, <3>1 DEF PartsFit
    <3> QED  BY <1>10, <3>1, <3>2
  <2> QED  BY <2>1, <2>2
<1>13. PartsApart(h2, {})
  <2> SUFFICES ASSUME NEW b \in Cell, NEW d \in Cell, Whole(h2, {}, b), Whole(h2, {}, d), b # d
               PROVE  /\ h2[b].act # h2[d].act /\ h2[b].act # h2[d].press
                      /\ h2[b].press # h2[d].press
    BY DEF PartsApart
  <2>1. CASE b = m
    <3>1. Whole(h, {}, d)
      BY <1>9, <2>1
    <3> QED  BY <1>2, <1>3, <1>10, <2>1, <3>1
  <2>2. CASE d = m
    <3>1. Whole(h, {}, b)
      BY <1>9, <2>2
    <3> QED  BY <1>2, <1>3, <1>10, <2>2, <3>1
  <2>3. CASE b # m /\ d # m
    <3>1. Whole(h, {}, b) /\ Whole(h, {}, d)
      BY <1>9, <2>3
    <3>2. PartsApart(h, {})
      BY <1>1
    <3> QED  BY <1>10, <3>1, <3>2 DEF PartsApart
  <2> QED  BY <2>1, <2>2, <2>3
<1>14. ListsOwned(h2, {})
  <2> SUFFICES ASSUME NEW l \in Cell, Is(h2, "list", l), l \notin PadLists
               PROVE  \E b \in Cell : Whole(h2, {}, b) /\ l \in {h2[b].act, h2[b].press}
    BY DEF ListsOwned
  <2>1. CASE l \in {a, p}
    BY <1>2, <1>3, <1>9, <2>1
  <2>2. CASE l \notin {a, p}
    <3>1. l # m
      BY <1>2, <1>3 DEF Is
    <3>2. Is(h, "list", l)
      BY <1>3, <2>2, <3>1 DEF Is
    <3>3. PICK b \in Cell : Whole(h, {}, b) /\ l \in {h[b].act, h[b].press}
      BY <1>1, <3>2 DEF ListsOwned
    <3> QED  BY <1>9, <1>10, <3>3
  <2> QED  BY <2>1, <2>2
<1> QED
  BY <1>1, <1>3, <1>8, <1>12, <1>13, <1>14 DEF Heap, h2, c

Carries(h, n, v) == h[n].value = v

\* A value that is in no list yet gets a node at the end of one.
LEMMA Pushed ==
  ASSUME NEW h, NEW len, NEW at, NEW gone, NEW out, Heap(h, len, at, gone, out, NULL),
         NEW l \in Cell, Is(h, "list", l), NEW v \in out,
         Is(h, IF l \in PadLists THEN "macro" ELSE "btn", v), NEW n \in Cell, h[n] = FREE
  PROVE  /\ Heap(Push(h, l, v, n), [len EXCEPT ![l] = @ + 1],
                 [at EXCEPT ![l][len[l] + 1] = n], gone, out \ {v}, NULL)
         /\ KindsKept(h, Push(h, l, v, n), {n})
         /\ Kept(h, Push(h, l, v, n)) /\ Carries(Push(h, l, v, n), n, v)
<1> DEFINE h2 == Push(h, l, v, n)
           len2 == [len EXCEPT ![l] = @ + 1]
           at2 == [at EXCEPT ![l][len[l] + 1] = n]
           b == at[l][len[l]]
<1>1. h \in [Cell -> Block] /\ len \in [Cell -> Nat] /\ at \in [Cell -> [Nat -> Cell]]
  BY DEF Heap
<1>n. \A m \in Cell : len[m] \in Nat
  BY <1>1
<1>2. Linked(h, len, at, NULL) /\ Apart(len, at) /\ NodesOwned(h, len, at)
  BY DEF Heap
<1>3. ValuesFit(h, len, at) /\ ValuesApart(h) /\ ValuesOwned(h, out) /\ Outside(h, out)
  BY DEF Heap
<1>4. PartsFit(h, gone) /\ PartsApart(h, gone) /\ ListsOwned(h, gone) /\ PadsThere(h)
  BY DEF Heap
<1>5. len2 \in [Cell -> Nat] /\ len2[l] = len[l] + 1 /\ \A m \in Cell \ {l} : len2[m] = len[m]
  <2>1. len[l] + 1 \in Nat /\ len2 = [len EXCEPT ![l] = len[l] + 1]
    BY <1>n
  <2> HIDE DEF len2
  <2> QED  BY <1>1, <2>1
<1>6. /\ at2 \in [Cell -> [Nat -> Cell]] /\ at2[l][len[l] + 1] = n
      /\ \A m \in Cell \ {l} : at2[m] = at[m]
      /\ \A k \in 1 .. len[l] : at2[l][k] = at[l][k]
  <2>1. len[l] + 1 \in Nat /\ at[l] \in [Nat -> Cell]
    <3>1. len[l] + 1 \in Nat
      BY <1>n
    <3>2. at[l] \in [Nat -> Cell]
      BY <1>1
    <3> QED  BY <3>1, <3>2
  <2>2. at2 = [at EXCEPT ![l] = [at[l] EXCEPT ![len[l] + 1] = n]]
    BY <1>1
  <2>3. [at[l] EXCEPT ![len[l] + 1] = n] \in [Nat -> Cell]
    BY <2>1
  <2>4. at2 \in [Cell -> [Nat -> Cell]] /\ at2[l] = [at[l] EXCEPT ![len[l] + 1] = n]
    BY <1>1, <2>2, <2>3
  <2>5. len[l] \in Nat /\ \A k \in 1 .. len[l] : k \in Nat /\ k # len[l] + 1
    BY <1>1
  <2> QED  BY <1>1, <2>1, <2>2, <2>4, <2>5
<1>7. ListAt(h, len, at, NULL, l)
  BY <1>2 DEF Linked
<1>8. v \in Cell /\ v # l /\ v # n /\ l # n
  BY DEF Is, FREE
<1>9. len[l] # 0 => /\ len[l] \in 1 .. len[l] /\ Is(h, "node", b)
                    /\ b \in Cell /\ b # l /\ b # n /\ b # v
  <2>1. len[l] # 0 => len[l] \in 1 .. len[l]
    BY <1>n
  <2>2. len[l] # 0 => Is(h, "node", b)
    BY <1>7, <2>1 DEF ListAt, NodeAt
  <2> QED  BY <2>1, <2>2 DEF Is, FREE
<1>10. /\ h[l] \in [kind : {"list"}, head : Link, bottom : Link, size : Nat]
       /\ h[l].head = (IF len[l] = 0 THEN NULL ELSE at[l][1])
       /\ h[l].bottom = (IF len[l] = 0 THEN NULL ELSE b) /\ h[l].size = len[l]
       /\ h[l].head = NULL <=> len[l] = 0
  <2>1. len[l] # 0 => 1 \in 1 .. len[l]
    BY <1>1
  <2>2. len[l] # 0 => at[l][1] \in Cell
    BY <1>7, <2>1 DEF ListAt, NodeAt, Is
  <2>3. h[l] \in [kind : {"list"}, head : Link, bottom : Link, size : Nat]
    BY <1>1, Kinds
  <2>4. /\ h[l].head = (IF len[l] = 0 THEN NULL ELSE at[l][1])
        /\ h[l].bottom = (IF len[l] = 0 THEN NULL ELSE b) /\ h[l].size = len[l]
    <3>1. l # NULL
      BY DEF Cell, NULL
    <3> QED  BY <1>7, <3>1 DEF ListAt
  <2>5. \A a \in Cell : a # NULL
    BY DEF Cell, NULL
  <2> QED  BY <2>2, <2>3, <2>4, <2>5
<1>11. /\ h2 \in [Cell -> Block]
       /\ h2[n] = Node(v, IF len[l] = 0 THEN NULL ELSE b)
       /\ h2[l] \in [kind : {"list"}, head : Link, bottom : Link, size : Nat]
       /\ h2[l].head = (IF len[l] = 0 THEN n ELSE at[l][1]) /\ h2[l].bottom = n
       /\ h2[l].size = len[l] + 1
       /\ len[l] # 0 => h2[b] = [h[b] EXCEPT !.next = n]
       /\ \A a \in Cell \ {n, l} : len[l] = 0 \/ a # b => h2[a] = h[a]
  <2>1. CASE len[l] = 0
    <3>1. h2 = [h EXCEPT ![n] = Node(v, NULL),
                         ![l] = [EmptyList EXCEPT !.head = n, !.bottom = n, !.size = 1]]
      BY <1>10, <2>1 DEF Push, PushFirst
    <3> DEFINE c == [EmptyList EXCEPT !.head = n, !.bottom = n, !.size = 1]
    <3>2. /\ c \in [kind : {"list"}, head : Link, bottom : Link, size : Nat]
          /\ c.head = n /\ c.bottom = n /\ c.size = 1
      <4>1. EmptyList \in [kind : {"list"}, head : Link, bottom : Link, size : Nat]
        BY DEF EmptyList, Link
      <4>2. n \in Link
        BY DEF Link
      <4> QED  BY <4>1, <4>2
    <3>3. Node(v, NULL) \in Block
      BY <1>8 DEF Node, Block, Link
    <3>4. c \in Block
      BY <3>2 DEF Block
    <3>5. h2 = [h EXCEPT ![n] = Node(v, NULL), ![l] = c]
      BY <3>1
    <3> HIDE DEF h2, c
    <3>6. /\ h2 \in [Cell -> Block] /\ h2[n] = Node(v, NULL) /\ h2[l] = c
          /\ \A a \in Cell \ {n, l} : h2[a] = h[a]
      BY <1>1, <1>8, <3>3, <3>4, <3>5
    <3>7. h2[l].size = len[l] + 1
      BY <2>1, <3>2, <3>6
    <3> QED  BY <2>1, <3>2, <3>6, <3>7
  <2>2. CASE len[l] # 0
    <3>1. h2 = [h EXCEPT ![n] = Node(v, b), ![b].next = n, ![l].bottom = n, ![l].size = @ + 1]
      BY <1>10, <2>2 DEF Push
    <3>2. Node(v, b) \in Block
      BY <1>8, <1>9, <2>2 DEF Node, Block, Link
    <3>3. [h[b] EXCEPT !.next = n] \in Block
      <4>1. h[b] \in [kind : {"node"}, value : Cell, previous : Link, next : Link]
        BY <1>1, <1>9, <2>2, Kinds
      <4> QED  BY <4>1 DEF Block, Link
    <3>4. /\ [h[l] EXCEPT !.bottom = n, !.size = @ + 1]
               \in [kind : {"list"}, head : Link, bottom : Link, size : Nat]
          /\ [h[l] EXCEPT !.bottom = n, !.size = @ + 1].head = h[l].head
          /\ [h[l] EXCEPT !.bottom = n, !.size = @ + 1].bottom = n
          /\ [h[l] EXCEPT !.bottom = n, !.size = @ + 1].size = len[l] + 1
      <4>1. n \in Link /\ h[l].size + 1 \in Nat /\ h[l].size + 1 = len[l] + 1
        BY <1>n, <1>10 DEF Link
      <4> QED  BY <1>10, <4>1
    <3>5. [h[l] EXCEPT !.bottom = n, !.size = @ + 1] \in Block
      BY <3>4 DEF Block
    <3>6. h2 = [h EXCEPT ![n] = Node(v, b), ![b] = [h[b] EXCEPT !.next = n],
                         ![l] = [h[l] EXCEPT !.bottom = n, !.size = @ + 1]]
      BY <1>1, <1>8, <1>9, <2>2, <3>1
    <3> HIDE DEF h2
    <3> QED  BY <1>1, <1>8, <1>9, <1>10, <2>2, <3>2, <3>3, <3>4, <3>5, <3>6
  <2> QED  BY <2>1, <2>2
<1> HIDE DEF h2, len2, at2
<1>12. \A kind \in {"btn", "list", "node", "macro"}, a \in Cell \ {n} :
         Is(h2, kind, a) <=> Is(h, kind, a)
  <2>1. h2[l].kind = "list" /\ h[l].kind = "list"
    BY <1>10, <1>11
  <2>2. len[l] # 0 => h2[b].kind = h[b].kind
    <3>1. len[l] # 0 => h[b] \in [kind : {"node"}, value : Cell, previous : Link, next : Link]
      BY <1>1, <1>9, Kinds
    <3> QED  BY <1>11, <3>1
  <2> QED  BY <1>11, <2>1, <2>2 DEF Is
<1>13. Is(h2, "node", n) /\ h2[n].value = v /\ h2[n].next = NULL
       /\ h2[n].previous = IF len[l] = 0 THEN NULL ELSE b
  BY <1>11 DEF Is, Node
<1>14. \A a \in Cell \ {n} : Is(h, "node", a) =>
         /\ h2[a].value = h[a].value /\ h2[a].previous = h[a].previous
         /\ h2[a].next = IF len[l] # 0 /\ a = b THEN n ELSE h[a].next
  <2> SUFFICES ASSUME NEW a \in Cell \ {n}, Is(h, "node", a)
               PROVE  /\ h2[a].value = h[a].value /\ h2[a].previous = h[a].previous
                      /\ h2[a].next = IF len[l] # 0 /\ a = b THEN n ELSE h[a].next
    OBVIOUS
  <2>1. a # l
    BY DEF Is
  <2>2. CASE len[l] # 0 /\ a = b
    <3>1. h[b] \in [kind : {"node"}, value : Cell, previous : Link, next : Link]
      BY <1>1, <1>9, <2>2, Kinds
    <3> QED  BY <1>11, <2>2, <3>1
  <2>3. CASE ~(len[l] # 0 /\ a = b)
    BY <1>11, <2>1, <2>3
  <2> QED  BY <2>2, <2>3
<1>15. \A a \in Cell : Is(h, "macro", a) \/ Is(h, "btn", a) \/ (Is(h, "list", a) /\ a # l)
                         => a # n /\ h2[a] = h[a]
  BY <1>9, <1>11 DEF Is, FREE
<1>16. \A m \in Cell : \A k \in 1 .. len[m] :
         at[m][k] \in Cell \ {n} /\ Is(h, "node", at[m][k])
  <2> SUFFICES ASSUME NEW m \in Cell, NEW k \in 1 .. len[m]
               PROVE  at[m][k] \in Cell \ {n} /\ Is(h, "node", at[m][k])
    OBVIOUS
  <2>1. Is(h, "list", m)
    BY <1>2 DEF Linked
  <2>2. ListAt(h, len, at, NULL, m)
    BY <1>2, <2>1 DEF Linked
  <2> QED  BY <2>2 DEF ListAt, NodeAt, Is, FREE
<1>17. \A m \in Cell : \A k \in 1 .. len2[m] :
         \/ m = l /\ k = len[l] + 1 /\ at2[m][k] = n
         \/ k \in 1 .. len[m] /\ at2[m][k] = at[m][k]
  <2> SUFFICES ASSUME NEW m \in Cell, NEW k \in 1 .. len2[m]
               PROVE  \/ m = l /\ k = len[l] + 1 /\ at2[m][k] = n
                      \/ k \in 1 .. len[m] /\ at2[m][k] = at[m][k]
    OBVIOUS
  <2>1. CASE m # l
    BY <1>5, <1>6, <2>1
  <2>2. CASE m = l
    <3>1. k \in 1 .. len[l] \/ k = len[l] + 1
      BY <1>n, <1>5, <2>2
    <3> QED  BY <1>6, <2>2, <3>1
  <2> QED  BY <2>1, <2>2
<1>18. ASSUME NEW m \in Cell, NEW k \in 1 .. len2[m] PROVE NodeAt(h2, len2, at2, NULL, m, k)
  <2> SUFFICES /\ Is(h2, "node", at2[m][k])
               /\ h2[at2[m][k]].previous = IF k = 1 THEN NULL ELSE at2[m][k - 1]
               /\ h2[at2[m][k]].next = IF k = len2[m] THEN NULL ELSE at2[m][k + 1]
    BY DEF NodeAt
  <2>1. CASE m = l /\ k = len[l] + 1
    <3>1. at2[m][k] = n /\ k = len2[m]
      BY <1>5, <1>6, <2>1
    <3>2. k = 1 <=> len[l] = 0
      BY <1>n, <2>1
    <3>3. len[l] # 0 => at2[m][k - 1] = b
      <4>1. len[l] \in Nat /\ k - 1 = len[l]
        BY <1>1, <2>1
      <4> QED  BY <1>6, <1>9, <2>1, <4>1
    <3> QED  BY <1>13, <3>1, <3>2, <3>3
  <2>2. CASE k \in 1 .. len[m] /\ at2[m][k] = at[m][k]
    <3> DEFINE a == at[m][k]
    <3>1. a \in Cell \ {n} /\ Is(h, "node", a)
      BY <1>16, <2>2
    <3>2. Is(h, "list", m)
      BY <1>2, <2>2 DEF Linked
    <3>3. NodeAt(h, len, at, NULL, m, k) /\ m # NULL
      BY <1>2, <2>2, <3>2 DEF Linked, ListAt, Cell, NULL
    <3>4. /\ h[a].previous = IF k = 1 THEN NULL ELSE at[m][k - 1]
          /\ h[a].next = IF k = len[m] THEN NULL ELSE at[m][k + 1]
      BY <3>3 DEF NodeAt
    <3>5. k # 1 => at2[m][k - 1] = at[m][k - 1]
      <4>1. k # 1 => k - 1 \in 1 .. len[m]
        BY <1>1, <2>2
      <4> QED  BY <1>6, <4>1
    <3>6. k # len[m] => at2[m][k + 1] = at[m][k + 1] /\ k # len2[m]
      <4>1. k # len[m] => k + 1 \in 1 .. len[m]
        BY <1>n, <2>2
      <4>2. len[m] \in Nat /\ (len2[m] = len[m] \/ len2[m] = len[m] + 1)
        BY <1>n, <1>5
      <4>3. k # len[m] => k # len2[m]
        BY <2>2, <4>2
      <4>4. m # l => at2[m] = at[m]
        BY <1>6
      <4>5. m = l /\ k # len[m] => at2[m][k + 1] = at[m][k + 1]
        BY <1>6, <4>1
      <4> QED  BY <4>3, <4>4, <4>5
    <3>7. CASE len[l] # 0 /\ a = b
      <4>1. m = l /\ k = len[l]
        BY <1>2, <1>9, <2>2, <3>7 DEF Apart
      <4>2. k # len2[m] /\ at2[m][k + 1] = n
        BY <1>1, <1>5, <1>6, <4>1
      <4> QED  BY <1>12, <1>14, <2>2, <3>1, <3>4, <3>5, <3>7, <4>2
    <3>8. CASE ~(len[l] # 0 /\ a = b)
      <4>1. k = len[m] => m # l
        BY <1>1, <2>2, <3>8
      <4>2. k = len[m] => k = len2[m]
        BY <1>5, <4>1
      <4> HIDE DEF a
      <4>3. Is(h2, "node", a) /\ h2[a].previous = h[a].previous /\ h2[a].next = h[a].next
        BY <1>12, <1>14, <3>1, <3>8
      <4>4. at2[m][k] = a
        BY <2>2 DEF a
      <4> QED  BY <3>4, <3>5, <3>6, <4>2, <4>3, <4>4
    <3> QED  BY <3>7, <3>8
  <2> QED  BY <1>17, <2>1, <2>2
<1>19. Linked(h2, len2, at2, NULL)
  <2> SUFFICES ASSUME NEW m \in Cell
               PROVE  /\ Is(h2, "list", m) => ListAt(h2, len2, at2, NULL, m)
                      /\ ~Is(h2, "list", m) => len2[m] = 0
    BY DEF Linked
  <2>1. CASE m = l
    <3>1. len2[l] # 0 /\ len2[l] = len[l] + 1 /\ Is(h2, "list", l)
      BY <1>1, <1>5, <1>8, <1>12
    <3>2. at2[l][1] = IF len[l] = 0 THEN n ELSE at[l][1]
      <4>1. len[l] # 0 => 1 \in 1 .. len[l]
        BY <1>1
      <4> QED  BY <1>6, <4>1
    <3>3. h2[l].head = at2[l][1] /\ h2[l].bottom = at2[l][len2[l]] /\ h2[l].size = len2[l]
      BY <1>6, <1>11, <3>1, <3>2
    <3> QED  BY <1>18, <2>1, <3>1, <3>3 DEF ListAt
  <2>2. CASE m # l
    <3>1. CASE Is(h, "list", m)
      <4>1. ListAt(h, len, at, NULL, m) /\ h2[m] = h[m] /\ Is(h2, "list", m)
        BY <1>2, <1>12, <1>15, <2>2, <3>1 DEF Linked
      <4>2. len2[m] = len[m] /\ at2[m] = at[m]
        BY <1>5, <1>6, <2>2
      <4> QED  BY <1>18, <4>1, <4>2 DEF ListAt
    <3>2. CASE ~Is(h, "list", m)
      <4>1. ~Is(h2, "list", m)
        BY <1>12, <1>13, <3>2 DEF Is
      <4> QED  BY <1>2, <1>5, <2>2, <3>2, <4>1 DEF Linked
    <3> QED  BY <3>1, <3>2
  <2> QED  BY <2>1, <2>2
<1>20. Apart(len2, at2)
  <2> SUFFICES ASSUME NEW m \in Cell, NEW p \in Cell, NEW j \in 1 .. len2[m], NEW k \in 1 .. len2[p],
                      at2[m][j] = at2[p][k]
               PROVE  m = p /\ j = k
    BY DEF Apart
  <2>1. at2[m][j] = n => m = l /\ j = len[l] + 1
    BY <1>16, <1>17
  <2>2. at2[p][k] = n => p = l /\ k = len[l] + 1
    BY <1>16, <1>17
  <2>3. CASE at2[m][j] = n
    BY <2>1, <2>2, <2>3
  <2>4. CASE at2[m][j] # n
    <3>1. j \in 1 .. len[m] /\ at2[m][j] = at[m][j]
      BY <1>17, <2>4
    <3>2. k \in 1 .. len[p] /\ at2[p][k] = at[p][k]
      BY <1>17, <2>4
    <3>3. at[m][j] = at[p][k]
      BY <3>1, <3>2
    <3>4. Apart(len, at)
      BY <1>2
    <3> QED  BY <3>1, <3>2, <3>3, <3>4 DEF Apart
  <2> QED  BY <2>3, <2>4
<1>21. NodesOwned(h2, len2, at2)
  <2> SUFFICES ASSUME NEW a \in Cell, Is(h2, "node", a)
               PROVE  \E m \in Cell : \E k \in 1 .. len2[m] : a = at2[m][k]
    BY DEF NodesOwned
  <2>1. CASE a = n
    <3>1. len[l] + 1 \in 1 .. len2[l]
      BY <1>n, <1>5
    <3> QED  BY <1>6, <2>1, <3>1
  <2>2. CASE a # n
    <3>1. PICK m \in Cell : \E k \in 1 .. len[m] : a = at[m][k]
      BY <1>2, <1>12, <2>2 DEF NodesOwned
    <3>2. PICK k \in 1 .. len[m] : a = at[m][k]
      BY <3>1
    <3>3. at2[m][k] = at[m][k]
      BY <1>6
    <3>4. k \in 1 .. len2[m]
      <4>1. len[m] \in Nat /\ (len2[m] = len[m] \/ len2[m] = len[m] + 1)
        BY <1>1, <1>5
      <4> QED  BY <4>1
    <3> QED  BY <3>2, <3>3, <3>4
  <2> QED  BY <2>1, <2>2
<1>22. ValuesFit(h2, len2, at2)
  <2> SUFFICES ASSUME NEW m \in Cell, NEW k \in 1 .. len2[m]
               PROVE  Is(h2, IF m \in PadLists THEN "macro" ELSE "btn", h2[at2[m][k]].value)
    BY DEF ValuesFit
  <2>1. CASE m = l /\ k = len[l] + 1 /\ at2[m][k] = n
    <3>1. h2[at2[m][k]].value = v
      BY <1>13, <2>1
    <3> QED  BY <1>8, <1>12, <2>1, <3>1
  <2>2. CASE k \in 1 .. len[m] /\ at2[m][k] = at[m][k]
    <3>1. h2[at2[m][k]].value = h[at[m][k]].value
      BY <1>14, <1>16, <2>2
    <3>2. Is(h, IF m \in PadLists THEN "macro" ELSE "btn", h[at[m][k]].value)
      BY <1>3, <2>2 DEF ValuesFit
    <3>3. h[at[m][k]].value \in Cell /\ h[at[m][k]].value # n
      BY <3>2 DEF Is, FREE
    <3> QED  BY <1>12, <3>1, <3>2, <3>3
  <2> QED  BY <1>17, <2>1, <2>2
<1>23. \A a \in Cell : Is(h2, "node", a) <=> a = n \/ Is(h, "node", a)
  BY <1>12, <1>13
<1>24. \A a \in Cell \ {n} : Is(h, "node", a) => h2[a].value = h[a].value /\ h[a].value # v
  BY <1>3, <1>14 DEF Outside
<1>25. ValuesApart(h2)
  <2>1. ValuesApart(h)
    BY <1>3
  <2> QED  BY <1>13, <1>23, <1>24, <2>1 DEF ValuesApart
<1>26. ValuesOwned(h2, out \ {v})
  <2> SUFFICES ASSUME NEW w \in Cell, Is(h2, "btn", w) \/ Is(h2, "macro", w), w \notin out \ {v}
               PROVE  \E a \in Cell : Is(h2, "node", a) /\ h2[a].value = w
    BY DEF ValuesOwned
  <2>1. CASE w = v
    BY <1>13, <2>1
  <2>2. CASE w # v
    <3>1. w # n
      BY <1>13 DEF Is
    <3>2. Is(h, "btn", w) \/ Is(h, "macro", w)
      BY <1>12, <3>1
    <3>3. PICK a \in Cell : Is(h, "node", a) /\ h[a].value = w
      BY <1>3, <2>2, <3>2 DEF ValuesOwned
    <3>4. a # n
      BY <3>3 DEF Is, FREE
    <3> QED  BY <1>23, <1>24, <3>3, <3>4
  <2> QED  BY <2>1, <2>2
<1>27. Outside(h2, out \ {v})
  <2> SUFFICES ASSUME NEW w \in out, w # v
               PROVE  /\ Is(h2, "btn", w) \/ Is(h2, "macro", w)
                      /\ \A a \in Cell : Is(h2, "node", a) => h2[a].value # w
    BY DEF Outside
  <2>1. /\ Is(h, "btn", w) \/ Is(h, "macro", w)
        /\ \A a \in Cell : Is(h, "node", a) => h[a].value # w
    BY <1>3 DEF Outside
  <2>2. w \in Cell /\ w # n
    BY <2>1 DEF Is, FREE
  <2> QED  BY <1>12, <1>13, <1>23, <1>24, <2>1, <2>2
<1>28. \A m \in Cell : Whole(h2, gone, m) <=> Whole(h, gone, m)
  <2>1. ~Is(h, "macro", n) /\ ~Is(h2, "macro", n)
    BY <1>13 DEF Is, FREE
  <2> QED  BY <1>12, <2>1 DEF Whole
<1>29. \A m \in Cell : Whole(h, gone, m) => h2[m] = h[m]
  BY <1>15 DEF Whole
<1>30. \A a \in Cell : Is(h2, "list", a) <=> Is(h, "list", a)
  <2>1. ~Is(h, "list", n) /\ ~Is(h2, "list", n)
    BY <1>13 DEF Is, FREE
  <2> QED  BY <1>12, <2>1
<1>31. PartsFit(h2, gone)
  <2> SUFFICES ASSUME NEW m \in Cell, Whole(h2, gone, m)
               PROVE  /\ Is(h2, "list", h2[m].act) /\ Is(h2, "list", h2[m].press)
                      /\ h2[m].act # h2[m].press
                      /\ h2[m].act \notin PadLists /\ h2[m].press \notin PadLists
    BY DEF PartsFit
  <2>1. /\ h2[m] = h[m]
        /\ Is(h, "list", h[m].act) /\ Is(h, "list", h[m].press) /\ h[m].act # h[m].press
        /\ h[m].act \notin PadLists /\ h[m].press \notin PadLists
    BY <1>4, <1>28, <1>29 DEF PartsFit
  <2>2. h[m].act \in Cell /\ h[m].press \in Cell
    BY <2>1 DEF Is
  <2> QED  BY <1>30, <2>1, <2>2
<1>32. PartsApart(h2, gone)
  BY <1>4, <1>28, <1>29 DEF PartsApart
<1>33. ListsOwned(h2, gone)
  <2> SUFFICES ASSUME NEW m \in Cell, Is(h2, "list", m), m \notin PadLists
               PROVE  \E p \in Cell : Whole(h2, gone, p) /\ m \in {h2[p].act, h2[p].press}
    BY DEF ListsOwned
  <2>1. PICK p \in Cell : Whole(h, gone, p) /\ m \in {h[p].act, h[p].press}
    BY <1>4, <1>30 DEF ListsOwned
  <2> QED  BY <1>28, <1>29, <2>1
<1>34. PadsThere(h2)
  <2>1. \A m \in PadLists : Is(h, "list", m) /\ m \in Cell
    BY <1>4 DEF PadsThere, Is
  <2> QED  BY <1>30, <2>1 DEF PadsThere
<1>35. Heap(h2, len2, at2, gone, out \ {v}, NULL)
  BY <1>2, <1>5, <1>6, <1>11, <1>19, <1>20, <1>21, <1>22, <1>25, <1>26, <1>27, <1>31, <1>32, <1>33,
     <1>34 DEF Heap
<1>36. Kept(h, h2)
  <2>1. ~ Is(h, "node", n)
    BY DEF Is, FREE
  <2> QED  BY <1>15, <1>24, <2>1 DEF Kept
<1> QED  BY <1>12, <1>13, <1>35, <1>36 DEF KindsKept, Carries, h2, len2, at2

\* The two lists of a macro go when they are empty.
LEMMA PartsReleased ==
  ASSUME NEW h, NEW len, NEW at, NEW gone, NEW out, Heap(h, len, at, gone, out, NULL),
         NEW m \in Cell, Whole(h, gone, m), len[h[m].act] = 0, len[h[m].press] = 0
  PROVE  Heap(Freed(h, {h[m].act, h[m].press}), len, at, gone \cup {m}, out, NULL)
<1> DEFINE a == h[m].act
           p == h[m].press
           h2 == Freed(h, {a, p})
           gone2 == gone \cup {m}
<1>1. h \in [Cell -> Block] /\ len \in [Cell -> Nat] /\ at \in [Cell -> [Nat -> Cell]]
  BY DEF Heap
<1>2. Linked(h, len, at, NULL) /\ Apart(len, at) /\ NodesOwned(h, len, at)
  BY DEF Heap
<1>3. ValuesFit(h, len, at) /\ ValuesApart(h) /\ ValuesOwned(h, out) /\ Outside(h, out)
  BY DEF Heap
<1>4. PartsFit(h, gone) /\ PartsApart(h, gone) /\ ListsOwned(h, gone) /\ PadsThere(h)
  BY DEF Heap
<1>5. /\ Is(h, "list", a) /\ Is(h, "list", p) /\ a # p
      /\ a \notin PadLists /\ p \notin PadLists /\ a \in Cell /\ p \in Cell
  BY <1>4 DEF PartsFit, Is
<1>6. /\ h2 \in [Cell -> Block] /\ \A b \in Cell \ {a, p} : h2[b] = h[b]
      /\ h2[a] = FREE /\ h2[p] = FREE
  BY <1>1, <1>5 DEF Freed, Block
<1>7. /\ \A kind \in {"btn", "node", "macro"}, b \in Cell : Is(h2, kind, b) <=> Is(h, kind, b)
      /\ \A b \in Cell : Is(h2, "list", b) <=> Is(h, "list", b) /\ b # a /\ b # p
  <2>1. h[a].kind = "list" /\ h[p].kind = "list" /\ h2[a].kind = "free" /\ h2[p].kind = "free"
    BY <1>5, <1>6 DEF Is, FREE
  <2>2. \A kind \in {"btn", "node", "macro"}, b \in Cell : Is(h2, kind, b) <=> Is(h, kind, b)
    BY <1>6, <2>1 DEF Is
  <2>3. \A b \in Cell : Is(h2, "list", b) <=> Is(h, "list", b) /\ b # a /\ b # p
    BY <1>6, <2>1 DEF Is
  <2> QED  BY <2>2, <2>3
<1>8. \A b \in Cell : Is(h, "btn", b) \/ Is(h, "node", b) \/ Is(h, "macro", b) => h2[b] = h[b]
  BY <1>5, <1>6 DEF Is
<1>9. len[a] = 0 /\ len[p] = 0
  OBVIOUS
<1> HIDE DEF h2, a, p
<1>10. Linked(h2, len, at, NULL)
  <2> SUFFICES ASSUME NEW l \in Cell
               PROVE  /\ Is(h2, "list", l) => ListAt(h2, len, at, NULL, l)
                      /\ ~Is(h2, "list", l) => len[l] = 0
    BY DEF Linked
  <2>1. CASE Is(h2, "list", l)
    <3>1. ListAt(h, len, at, NULL, l) /\ h2[l] = h[l]
      BY <1>2, <1>6, <1>7, <2>1 DEF Linked
    <3>2. ASSUME NEW k \in 1 .. len[l] PROVE NodeAt(h2, len, at, NULL, l, k)
      <4>1. NodeAt(h, len, at, NULL, l, k)
        BY <3>1 DEF ListAt
      <4>2. Is(h2, "node", at[l][k]) /\ h2[at[l][k]] = h[at[l][k]]
        BY <1>7, <1>8, <4>1 DEF NodeAt, Is
      <4> QED  BY <4>1, <4>2 DEF NodeAt
    <3> QED  BY <2>1, <3>1, <3>2 DEF ListAt
  <2>2. CASE ~Is(h2, "list", l)
    BY <1>2, <1>7, <1>9, <2>2 DEF Linked
  <2> QED  BY <2>1, <2>2
<1>11. NodesOwned(h2, len, at)
  BY <1>2, <1>7 DEF NodesOwned
<1>12. ValuesFit(h2, len, at)
  <2> SUFFICES ASSUME NEW l \in Cell, NEW k \in 1 .. len[l]
               PROVE  Is(h2, IF l \in PadLists THEN "macro" ELSE "btn", h2[at[l][k]].value)
    BY DEF ValuesFit
  <2>1. ListAt(h, len, at, NULL, l)
    BY <1>2 DEF Linked
  <2>2. Is(h, "node", at[l][k]) /\ at[l][k] \in Cell
    BY <2>1 DEF ListAt, NodeAt, Is
  <2>3. h2[at[l][k]] = h[at[l][k]]
    BY <1>8, <2>2
  <2>4. Is(h, IF l \in PadLists THEN "macro" ELSE "btn", h[at[l][k]].value)
    BY <1>3 DEF ValuesFit
  <2> QED  BY <1>7, <2>3, <2>4 DEF Is
<1>13. ValuesApart(h2) /\ ValuesOwned(h2, out)
  <2>1. ValuesApart(h) /\ ValuesOwned(h, out)
    BY <1>3
  <2>2. ValuesApart(h2)
    BY <1>7, <1>8, <2>1 DEF ValuesApart
  <2>3. ValuesOwned(h2, out)
    BY <1>7, <1>8, <2>1 DEF ValuesOwned
  <2> QED  BY <2>2, <2>3
<1>14. Outside(h2, out)
  <2> SUFFICES ASSUME NEW w \in out
               PROVE  /\ Is(h2, "btn", w) \/ Is(h2, "macro", w)
                      /\ \A b \in Cell : Is(h2, "node", b) => h2[b].value # w
    BY DEF Outside
  <2>1. /\ Is(h, "btn", w) \/ Is(h, "macro", w)
        /\ \A b \in Cell : Is(h, "node", b) => h[b].value # w
    BY <1>3 DEF Outside
  <2>2. w \in Cell
    BY <2>1 DEF Is
  <2> QED  BY <1>7, <1>8, <2>1, <2>2
<1>15. \A b \in Cell : Whole(h2, gone2, b) <=> Whole(h, gone, b) /\ b # m
  BY <1>7 DEF Whole
<1>16. \A b \in Cell : Whole(h, gone, b) /\ b # m =>
         /\ h2[b] = h[b] /\ h[b].act \in Cell \ {a, p} /\ h[b].press \in Cell \ {a, p}
         /\ Is(h2, "list", h[b].act) /\ Is(h2, "list", h[b].press)
  <2> SUFFICES ASSUME NEW b \in Cell, Whole(h, gone, b), b # m
               PROVE  /\ h2[b] = h[b] /\ h[b].act \in Cell \ {a, p} /\ h[b].press \in Cell \ {a, p}
                      /\ Is(h2, "list", h[b].act) /\ Is(h2, "list", h[b].press)
    OBVIOUS
  <2>1. h2[b] = h[b]
    BY <1>8 DEF Whole
  <2>2. Is(h, "list", h[b].act) /\ Is(h, "list", h[b].press)
    BY <1>4 DEF PartsFit
  <2>3. h[b].act \in Cell /\ h[b].press \in Cell
    BY <2>2 DEF Is
  <2>4. h[b].act \notin {a, p} /\ h[b].press \notin {a, p}
    BY <1>4 DEF PartsApart, a, p
  <2> QED  BY <1>7, <2>1, <2>2, <2>3, <2>4
<1>17. PartsFit(h2, gone2)
  <2> SUFFICES ASSUME NEW b \in Cell, Whole(h2, gone2, b)
               PROVE  /\ Is(h2, "list", h2[b].act) /\ Is(h2, "list", h2[b].press)
                      /\ h2[b].act # h2[b].press
                      /\ h2[b].act \notin PadLists /\ h2[b].press \notin PadLists
    BY DEF PartsFit
  <2>1. Whole(h, gone, b) /\ b # m
    BY <1>15
  <2>2. h[b].act # h[b].press /\ h[b].act \notin PadLists /\ h[b].press \notin PadLists
    BY <1>4, <2>1 DEF PartsFit
  <2> QED  BY <1>16, <2>1, <2>2
<1>18. PartsApart(h2, gone2)
  <2>1. PartsApart(h, gone)
    BY <1>4
  <2> QED  BY <1>15, <1>16, <2>1 DEF PartsApart
<1>19. ListsOwned(h2, gone2)
  <2> SUFFICES ASSUME NEW l \in Cell, Is(h2, "list", l), l \notin PadLists
               PROVE  \E b \in Cell : Whole(h2, gone2, b) /\ l \in {h2[b].act, h2[b].press}
    BY DEF ListsOwned
  <2>1. Is(h, "list", l) /\ l # a /\ l # p
    BY <1>7
  <2>2. PICK b \in Cell : Whole(h, gone, b) /\ l \in {h[b].act, h[b].press}
    BY <1>4, <2>1 DEF ListsOwned
  <2>3. b # m
    BY <2>1, <2>2 DEF a, p
  <2> QED  BY <1>15, <1>16, <2>2, <2>3
<1>20. PadsThere(h2)
  <2>1. \A l \in PadLists : Is(h, "list", l) /\ l \in Cell
    BY <1>4 DEF PadsThere, Is
  <2> QED  BY <1>5, <1>7, <2>1 DEF PadsThere
<1> QED
  BY <1>1, <1>2, <1>6, <1>10, <1>11, <1>12, <1>13, <1>14, <1>17, <1>18, <1>19, <1>20
  DEF Heap, h2, a, p

\* list_clear() may be at any list.
LEMMA Loosened ==
  ASSUME NEW h, NEW len, NEW at, NEW gone, NEW out, NEW l, Heap(h, len, at, gone, out, NULL)
  PROVE  Heap(h, len, at, gone, out, l)
<1>1. \A m \in Cell : m # NULL
  BY DEF Cell, NULL
<1>2. Linked(h, len, at, NULL)
  BY DEF Heap
<1>3. Linked(h, len, at, l)
  <2> SUFFICES ASSUME NEW m \in Cell
               PROVE  /\ Is(h, "list", m) => ListAt(h, len, at, l, m)
                      /\ ~Is(h, "list", m) => len[m] = 0
    BY DEF Linked
  <2>1. ListAt(h, len, at, NULL, m) => ListAt(h, len, at, l, m)
    BY <1>1 DEF ListAt, NodeAt
  <2> QED  BY <1>2, <2>1 DEF Linked
<1> QED  BY <1>3 DEF Heap

\* It may leave one that is empty, ...
LEMMA Tightened ==
  ASSUME NEW h, NEW len, NEW at, NEW gone, NEW out, NEW l \in Cell,
         Heap(h, len, at, gone, out, l), len[l] = 0
  PROVE  Heap(h, len, at, gone, out, NULL)
<1>1. Linked(h, len, at, l)
  BY DEF Heap
<1>2. Linked(h, len, at, NULL)
  <2> SUFFICES ASSUME NEW m \in Cell
               PROVE  /\ Is(h, "list", m) => ListAt(h, len, at, NULL, m)
                      /\ ~Is(h, "list", m) => len[m] = 0
    BY DEF Linked
  <2>1. CASE m = l
    <3>1. \A k \in 1 .. len[m] : NodeAt(h, len, at, NULL, m, k)
      BY <2>1
    <3> QED  BY <1>1, <2>1, <3>1 DEF Linked, ListAt
  <2>2. CASE m # l
    <3>1. ListAt(h, len, at, l, m) => ListAt(h, len, at, NULL, m)
      BY <2>2 DEF ListAt, NodeAt
    <3> QED  BY <1>1, <3>1 DEF Linked
  <2> QED  BY <2>1, <2>2
<1> QED  BY <1>2 DEF Heap

\* ... and only macros count in gone.
LEMMA Forgotten ==
  ASSUME NEW h, NEW len, NEW at, NEW gone, NEW out, NEW l, NEW gone2,
         Heap(h, len, at, gone, out, l), SameMacros(h, gone, gone2)
  PROVE  Heap(h, len, at, gone2, out, l)
<1>1. \A m \in Cell : Whole(h, gone2, m) <=> Whole(h, gone, m)
  BY DEF Whole, SameMacros
<1>2. PartsFit(h, gone2) /\ PartsApart(h, gone2) /\ ListsOwned(h, gone2)
  BY <1>1 DEF Heap, PartsFit, PartsApart, ListsOwned
<1> QED  BY <1>2 DEF Heap

\* The first r macros of a list are other ones than the next.
LEMMA NextIsWhole ==
  ASSUME NEW h, NEW len, NEW at, NEW out, NEW loose, NEW P \in PadLists, P \in Cell, NEW r \in Nat,
         Heap(h, len, at, First(h, at, P, r), out, loose), r < len[P],
         NEW m, m = h[at[P][r + 1]].value
  PROVE  /\ Is(h, "node", at[P][r + 1]) /\ m \in Cell /\ Whole(h, First(h, at, P, r), m)
         /\ Is(h, "list", h[m].act) /\ Is(h, "list", h[m].press) /\ h[m].act # h[m].press
         /\ h[m].act \in Cell /\ h[m].act \notin PadLists
         /\ h[m].press \in Cell /\ h[m].press \notin PadLists
<1>1. len[P] \in Nat /\ Apart(len, at) /\ ValuesApart(h)
  BY DEF Heap
<1>2. r + 1 \in 1 .. len[P] /\ \A k \in 1 .. r : k \in 1 .. len[P] /\ k # r + 1
  BY <1>1
<1>3. \A k \in 1 .. len[P] : Is(h, "node", at[P][k]) /\ at[P][k] \in Cell
  <2> SUFFICES ASSUME NEW k \in 1 .. len[P] PROVE Is(h, "node", at[P][k]) /\ at[P][k] \in Cell
    OBVIOUS
  <2>1. Linked(h, len, at, loose) /\ PadsThere(h)
    BY DEF Heap
  <2>2. ListAt(h, len, at, loose, P)
    BY <2>1 DEF Linked, PadsThere
  <2> QED  BY <2>2 DEF ListAt, NodeAt, Is
<1>4. Is(h, "macro", m) /\ m \in Cell
  BY <1>2 DEF Heap, ValuesFit, Is
<1>5. m \notin First(h, at, P, r)
  <2> SUFFICES ASSUME NEW k \in 1 .. r, h[at[P][k]].value = m PROVE FALSE
    BY DEF First
  <2>1. at[P][k] = at[P][r + 1]
    BY <1>1, <1>2, <1>3 DEF ValuesApart
  <2> QED  BY <1>1, <1>2, <2>1 DEF Apart
<1>6. Whole(h, First(h, at, P, r), m)
  BY <1>4, <1>5 DEF Whole
<1>7. PartsFit(h, First(h, at, P, r))
  BY DEF Heap
<1> QED  BY <1>2, <1>3, <1>4, <1>6, <1>7 DEF PartsFit, Is
-----------------------------------------------------------------------------------------
\* list_clear() frees what its loop leaves.
LEMMA Emptying ==
  ASSUME NEW len, NEW at, NEW gone, NEW out, NEW l \in Cell, Heap(heap, len, at, gone, out, l),
         Is(heap, "list", l), heap[l].head = heap[l].bottom,
         l \in PadLists => \A k \in 1 .. len[l] : heap[at[l][k]].value \in gone,
         NEW gone2, SameMacros(Emptied(l), gone, gone2)
  PROVE  /\ Heap(Emptied(l), [len EXCEPT ![l] = 0], at, gone2, out, NULL)
         /\ NodesKept(heap, Emptied(l), len, at, {l})
         /\ l \notin PadLists => MacrosKept(heap, Emptied(l), {})
         /\ \A m \in Cell : Is(Emptied(l), "macro", m)
              => Is(heap, "macro", m) /\ \A k \in 1 .. len[l] : m # heap[at[l][k]].value
<1>1. /\ heap \in [Cell -> Block] /\ len \in [Cell -> Nat] /\ at \in [Cell -> [Nat -> Cell]]
      /\ Linked(heap, len, at, l) /\ Apart(len, at) /\ ValuesFit(heap, len, at)
  BY DEF Heap
<1>2. ListAt(heap, len, at, l, l) /\ len[l] \in Nat
  BY <1>1 DEF Linked
<1>3. \A k \in 1 .. len[l] : Is(heap, "node", at[l][k]) /\ at[l][k] \in Cell
  BY <1>2 DEF ListAt, NodeAt, Is
<1>4. len[l] \in {0, 1}
  <2> SUFFICES ASSUME len[l] > 1 PROVE FALSE
    BY <1>2
  <2>1. 1 \in 1 .. len[l] /\ len[l] \in 1 .. len[l] /\ len[l] # 1 /\ len[l] # 0
    BY <1>2
  <2>2. at[l][1] = at[l][len[l]]
    BY <1>2, <2>1 DEF ListAt
  <2> QED  BY <1>1, <2>1, <2>2 DEF Apart
<1>5. CASE len[l] = 0
  <2>1. Emptied(l) = heap
    BY <1>2, <1>5 DEF Emptied, ListAt
  <2>2. [len EXCEPT ![l] = 0] = len
    BY <1>1, <1>5
  <2>3. Heap(heap, len, at, gone, out, NULL)
    BY <1>5, Tightened
  <2>4. Heap(heap, len, at, gone2, out, NULL)
    BY <2>1, <2>3, Forgotten
  <2>5. \A k \in 1 .. len[l] : FALSE
    BY <1>5
  <2> QED  BY <2>1, <2>2, <2>4, <2>5 DEF NodesKept, MacrosKept
<1>6. CASE len[l] = 1
  <2> DEFINE b == at[l][len[l]]
             v == heap[b].value
             h2 == Emptied(l)
  <2>1. /\ 1 \in 1 .. len[l] /\ b = at[l][1] /\ b \in Cell /\ Is(heap, "node", b)
        /\ heap[l].bottom = b /\ heap[l].head = b /\ b # NULL
    <3>1. 1 \in 1 .. len[l]
      BY <1>6
    <3>2. b \in Cell /\ Is(heap, "node", b)
      BY <1>3, <1>6, <3>1
    <3> QED  BY <1>2, <1>6, <3>1, <3>2 DEF ListAt, Cell, NULL
  <2>2. Is(heap, IF l \in PadLists THEN "macro" ELSE "btn", v)
    BY <1>1, <1>6, <2>1 DEF ValuesFit
  <2>3. v \in Cell /\ v # l /\ b # l /\ v # b
    BY <2>1, <2>2 DEF Is
  <2>4. h2 = Freed([heap EXCEPT ![l] = EmptyList], {b, v})
    BY <2>1 DEF Emptied
  <2> HIDE DEF h2, b, v
  <2>5. /\ h2 \in [Cell -> Block] /\ h2[b] = FREE /\ h2[v] = FREE /\ h2[l] = EmptyList
        /\ \A a \in Cell \ {b, v, l} : h2[a] = heap[a]
    <3>1. [heap EXCEPT ![l] = EmptyList] \in [Cell -> Block] /\ FREE \in Block
      BY <1>1 DEF EmptyList, Block, Link
    <3>2. \A a \in Cell : h2[a] = IF a \in {b, v} THEN FREE ELSE [heap EXCEPT ![l] = EmptyList][a]
      BY <2>4 DEF Freed
    <3>3. h2 \in [Cell -> Block]
      BY <2>4, <3>1 DEF Freed
    <3>4. h2[b] = FREE /\ h2[v] = FREE
      BY <2>1, <2>3, <3>2
    <3>5. h2[l] = EmptyList
      BY <1>1, <2>3, <3>2
    <3>6. \A a \in Cell \ {b, v, l} : h2[a] = heap[a]
      BY <1>1, <3>2
    <3> QED  BY <3>3, <3>4, <3>5, <3>6
  <2>6. /\ Is(h2, "list", l) /\ h2[l].head = NULL /\ h2[l].bottom = NULL /\ h2[l].size = 0
    BY <2>5 DEF Is, EmptyList
  <2>7. /\ len[l] > 0 /\ b = at[l][len[l]] /\ v = heap[b].value
        /\ l \in PadLists => v \in gone
    BY <1>6, <2>1 DEF b, v
  <2>8. /\ Heap(h2, [len EXCEPT ![l] = @ - 1], at, gone2, out, NULL)
        /\ NodesKept(heap, h2, len, at, {l}) /\ MacrosKept(heap, h2, {v})
        /\ KindsKept(heap, h2, {b, v})
    <3>1. SameMacros(h2, gone, gone2)
      BY DEF h2
    <3>2. Drops(heap, h2, len, at, l, b, v)
      BY <1>6, <2>5, <2>6, <2>7 DEF Drops
    <3>3. l \in PadLists => v \in gone
      BY <2>7
    <3> QED  BY <1>6, <3>1, <3>2, <3>3, Dropped
  <2>9. [len EXCEPT ![l] = @ - 1] = [len EXCEPT ![l] = 0]
    BY <1>1, <1>6
  <2>10. l \notin PadLists => MacrosKept(heap, h2, {})
    <3>1. l \notin PadLists => ~ Is(heap, "macro", v)
      BY <2>2 DEF Is
    <3> QED  BY <2>8, <3>1 DEF MacrosKept
  <2>11. \A m \in Cell : Is(h2, "macro", m)
           => Is(heap, "macro", m) /\ \A k \in 1 .. len[l] : m # heap[at[l][k]].value
    <3> SUFFICES ASSUME NEW m \in Cell, Is(h2, "macro", m), NEW k \in 1 .. len[l]
                 PROVE  Is(heap, "macro", m) /\ m # heap[at[l][k]].value
      BY <1>6
    <3>1. m # b /\ m # v
      BY <2>5 DEF Is, FREE
    <3>2. heap[at[l][k]].value = v
      BY <1>6, <2>7
    <3> QED  BY <2>8, <3>1, <3>2 DEF KindsKept
  <2> QED  BY <2>8, <2>9, <2>10, <2>11 DEF h2
<1> QED  BY <1>4, <1>5, <1>6
---------------------------------------------------------------------
\* malloc() finds a cell while there is one.
Before == {ss \in Nat \X Nat : ss[1] < ss[2]}

LEMMA Fresh ==
  ASSUME NEW n \in Nat, Room(n), NEW taken \in SUBSET Cell, Cardinality(taken) < n
  PROVE  New(taken) \in Cell /\ heap[New(taken)] = FREE /\ New(taken) \notin taken
<1> DEFINE T == {a \in Cell : heap[a] = FREE /\ a \notin taken}
<1>1. IsFiniteSet(Cell) /\ Cardinality(Cell) = NumCells
  <2>1. 1 \in Int /\ NumCells \in Int /\ NumCells \in Nat
    BY ListAssumption
  <2>2. /\ IsFiniteSet(1 .. NumCells)
        /\ Cardinality(1 .. NumCells) = IF 1 > NumCells THEN 0 ELSE NumCells - 1 + 1
    BY <2>1, FS_Interval
  <2> QED  BY <2>1, <2>2 DEF Cell
<1>2. IsFiniteSet(Used) /\ IsFiniteSet(taken)
  BY <1>1, FS_Subset DEF Used
<1>3. T # {}
  <2> SUFFICES ASSUME T = {} PROVE FALSE
    OBVIOUS
  <2>1. Cell = Used \cup taken
    BY DEF Used
  <2>2. Cardinality(Cell) = Cardinality(Used) + Cardinality(taken) - Cardinality(Used \cap taken)
    BY <1>2, <2>1, FS_Union
  <2>3. IsFiniteSet(Used \cap taken)
    BY <1>2, FS_Subset
  <2>4. Cardinality(Used \cap taken) \in Nat /\ Cardinality(Used) \in Nat /\ Cardinality(taken) \in Nat
    BY <1>2, <2>3, FS_CardinalityType
  <2>5. Cardinality(Used) + n <= NumCells
    BY DEF Room
  <2> QED  BY <1>1, <2>2, <2>4, <2>5, ListAssumption
<1>4. \E a \in T : \A b \in T : ~ (b < a)
  <2>1. IsWellFoundedOn(Before, Nat)
    BY NatLessThanWellFounded DEF OpToRel, Before
  <2>2. T \subseteq Nat
    BY ListAssumption DEF Cell
  <2>3. PICK a \in T : \A b \in T : ~ (<<b, a>> \in Before)
    BY <1>3, <2>1, <2>2, WFMin
  <2> QED  BY <2>2, <2>3 DEF Before
<1>5. \E a \in Cell : /\ heap[a] = FREE /\ a \notin taken
                      /\ \A b \in 1 .. a - 1 : heap[b] # FREE \/ b \in taken
  <2>1. PICK a \in T : \A b \in T : ~ (b < a)
    BY <1>4
  <2>2. \A b \in 1 .. a - 1 : b \in Cell /\ b < a
    BY ListAssumption DEF Cell
  <2> QED  BY <2>1, <2>2
<1> QED  BY <1>5 DEF New
-------------------------------------------------------------------------------
Outs == IF macro = NULL THEN {} ELSE {macro}

Sound(len, at, gone) ==
  Heap(heap, len, at, gone, Outs, Loose) /\ Control(len, at, gone)

IInv == \E len, at, gone : Sound(len, at, gone)

LEMMA PadListsAreCells == \A p \in Pads : ListOf(p) \in PadLists /\ ListOf(p) \in Cell
BY ListAssumption DEF Pads, ListOf, PadLists, Cell

LEMMA InitSound == Init => IInv
<1> SUFFICES ASSUME Init PROVE IInv
  OBVIOUS
<1> DEFINE len == [l \in Cell |-> 0]
           at == [l \in Cell |-> [k \in Nat |-> 1]]
<1>1. 1 \in Cell /\ PadLists \subseteq Cell /\ 0 \in Pads
  BY ListAssumption DEF Cell, PadLists, Pads
<1>2. len \in [Cell -> Nat] /\ at \in [Cell -> [Nat -> Cell]] /\ \A l \in Cell : len[l] = 0
  BY <1>1
<1>3. /\ heap \in [Cell -> Block]
      /\ \A a \in Cell : a \in PadLists => heap[a] = EmptyList
      /\ \A a \in Cell : a \notin PadLists => heap[a] = FREE
  <2>1. EmptyList \in Block /\ FREE \in Block
    BY DEF EmptyList, Block, Link
  <2>2. heap = [a \in Cell |-> IF a \in PadLists THEN EmptyList ELSE FREE]
    BY DEF Init, PadLists
  <2> QED  BY <2>1, <2>2
<1>4. \A kind \in {"btn", "list", "node", "macro"}, a \in Cell :
        Is(heap, kind, a) => a \in PadLists /\ kind = "list"
  BY <1>3 DEF Is, EmptyList, FREE
<1>5. \A a \in PadLists : Is(heap, "list", a)
  BY <1>1, <1>3 DEF Is, EmptyList
<1> HIDE DEF len, at
<1>6. \A l \in Cell : \A k \in 1 .. len[l] : FALSE
  BY <1>2
<1>7. Linked(heap, len, at, NULL)
  <2>1. ASSUME NEW l \in Cell, Is(heap, "list", l) PROVE ListAt(heap, len, at, NULL, l)
    BY <1>2, <1>3, <1>4, <1>6, <2>1 DEF ListAt, EmptyList
  <2> QED  BY <1>2, <2>1 DEF Linked
<1>8. /\ Apart(len, at) /\ NodesOwned(heap, len, at) /\ ValuesFit(heap, len, at)
      /\ ValuesApart(heap)
  BY <1>4, <1>6 DEF Apart, NodesOwned, ValuesFit, ValuesApart
<1>9. ValuesOwned(heap, {}) /\ Outside(heap, {}) /\ PadsThere(heap)
  BY <1>4, <1>5 DEF ValuesOwned, Outside, PadsThere
<1>10. PartsFit(heap, {}) /\ PartsApart(heap, {}) /\ ListsOwned(heap, {})
  BY <1>4 DEF PartsFit, PartsApart, ListsOwned, Whole
<1>11. Heap(heap, len, at, {}, {}, NULL)
  BY <1>2, <1>3, <1>7, <1>8, <1>9, <1>10 DEF Heap
<1>12. Outs = {} /\ Loose = NULL
  BY DEF Init, Outs, Loose
<1>13. Control(len, at, {})
  BY <1>1 DEF Control, Init
<1> QED  BY <1>11, <1>12, <1>13 DEF IInv, Sound
-------------------------------------------------------------------------------
\* Putting a macro together: a new one, ...
LEMMA MacroInitSound ==
  ASSUME NEW len, NEW at, NEW gone, Sound(len, at, gone), MacroInit
  PROVE  /\ Sound(len, at, {})' /\ Kept(heap, heap')
         /\ macro' # NULL /\ macro' \in Cell
         /\ heap'[macro'].act \in Cell /\ len[heap'[macro'].act] = 0
         /\ heap'[macro'].press \in Cell /\ len[heap'[macro'].press] = 0
<1> DEFINE m == New({})
           a == New({m})
           p == New({m, a})
<1>1. pc = "idle" /\ macro = NULL /\ Room(3)
  BY DEF MacroInit
<1>2. /\ Heap(heap, len, at, {}, {}, NULL) /\ gone = {}
      /\ node = NULL /\ pad = 0 /\ pad \in Pads
  BY <1>1 DEF Sound, Control, Outs, Loose
<1>3. m \in Cell /\ heap[m] = FREE
  <2>1. {} \in SUBSET Cell /\ Cardinality({}) = 0
    BY FS_EmptySet
  <2> QED  BY <1>1, <2>1, Fresh
<1>4. a \in Cell /\ heap[a] = FREE /\ a # m
  <2>1. {m} \in SUBSET Cell /\ Cardinality({m}) = 1
    BY <1>3, FS_Singleton
  <2>2. a \notin {m}
    BY <1>1, <2>1, Fresh
  <2> QED  BY <1>1, <2>1, <2>2, Fresh
<1>5. p \in Cell /\ heap[p] = FREE /\ p # m /\ p # a
  <2>1. IsFiniteSet({m}) /\ Cardinality({m}) = 1
    BY FS_Singleton
  <2>2. Cardinality({m} \cup {a}) = 2
    <3>1. a \notin {m}
      BY <1>4
    <3> HIDE DEF m, a
    <3>2. Cardinality({m} \cup {a}) = IF a \in {m} THEN Cardinality({m}) ELSE Cardinality({m}) + 1
      BY <2>1, FS_AddElement
    <3> QED  BY <2>1, <3>1, <3>2
  <2>3. {m, a} = {m} \cup {a}
    OBVIOUS
  <2>4. {m, a} \in SUBSET Cell /\ Cardinality({m, a}) = 2
    BY <1>3, <1>4, <2>2, <2>3
  <2>5. p \notin {m, a}
    BY <1>1, <2>4, Fresh
  <2> QED  BY <1>1, <2>4, <2>5, Fresh
<1>6. /\ heap' = [heap EXCEPT ![m] = [kind |-> "macro", act |-> a, press |-> p],
                              ![a] = EmptyList, ![p] = EmptyList]
      /\ macro' = m /\ UNCHANGED <<pc, pad, node, list>>
  BY DEF MacroInit
<1> HIDE DEF m, a, p
<1>7. Heap(heap', len, at, {}, {} \cup {m}, NULL)
  BY <1>2, <1>3, <1>4, <1>5, <1>6, NewMacro
<1>8. Outs' = {} \cup {m} /\ Loose' = NULL
  <2>1. m # NULL
    BY <1>3 DEF Cell, NULL
  <2> QED  BY <1>1, <1>6, <2>1 DEF Outs, Loose
<1>9. Control(len, at, {})'
  <2>1. Is(heap', "macro", macro')
    BY <1>3, <1>4, <1>5, <1>6, <1>2 DEF Heap, Is
  <2> QED  BY <1>1, <1>2, <1>6, <2>1 DEF Control
<1>10. Sound(len, at, {})'
  BY <1>7, <1>8, <1>9 DEF Sound
<1>11. Kept(heap, heap')
  <2>1. heap \in [Cell -> Block]
    BY <1>2 DEF Heap
  <2>2. \A b \in Cell : heap[b] # FREE => heap'[b] = heap[b]
    BY <1>3, <1>4, <1>5, <1>6, <2>1
  <2> QED  BY <2>2 DEF Kept, Is, FREE
<1>12. macro' # NULL /\ macro' = m /\ heap'[m].act = a /\ heap'[m].press = p
  <2>1. heap \in [Cell -> Block] /\ m # NULL
    BY <1>2, <1>3 DEF Heap, Cell, NULL
  <2> QED  BY <1>3, <1>4, <1>5, <1>6, <2>1
<1>13. len[a] = 0 /\ len[p] = 0
  <2>1. Linked(heap, len, at, NULL)
    BY <1>2 DEF Heap
  <2> QED  BY <1>4, <1>5, <2>1 DEF Linked, Is, FREE
<1> QED  BY <1>3, <1>4, <1>5, <1>10, <1>11, <1>12, <1>13

\* A list gets the node n at its end.
Longer(len, at, len2, at2, l, n) ==
  len2 = [len EXCEPT ![l] = @ + 1] /\ at2 = [at EXCEPT ![l][len[l] + 1] = n]

\* ... a button for one of its lists, ...
LEMMA AddBtnSound ==
  ASSUME NEW len, NEW at, NEW gone, Sound(len, at, gone),
         NEW which \in {"act", "press"}, NEW x \in Btn, AddBtn(which, x)
  PROVE  \E len2, at2, n :
           /\ Sound(len2, at2, {})' /\ Kept(heap, heap')
           /\ Longer(len, at, len2, at2, heap[macro][which], n)
           /\ n \in Cell /\ heap'[heap'[n].value].btn = x
<1> DEFINE v == New({})
           n == New({v})
           h1 == [heap EXCEPT ![v] = [kind |-> "btn", btn |-> x]]
           l == heap[macro][which]
<1>1. pc = "idle" /\ macro # NULL /\ Room(2)
  BY DEF AddBtn
<1>2. /\ Heap(heap, len, at, {}, {macro}, NULL)
      /\ node = NULL /\ pad = 0 /\ pad \in Pads /\ Is(heap, "macro", macro)
  BY <1>1 DEF Sound, Control, Outs, Loose
<1>3. heap \in [Cell -> Block] /\ PartsFit(heap, {})
  BY <1>2 DEF Heap
<1>4. Is(heap, "list", l) /\ l \in Cell /\ l \notin PadLists
  <2>1. macro \in Cell /\ Whole(heap, {}, macro)
    BY <1>2 DEF Whole, Is
  <2>2. /\ Is(heap, "list", heap[macro].act) /\ heap[macro].act \notin PadLists
        /\ Is(heap, "list", heap[macro].press) /\ heap[macro].press \notin PadLists
    BY <1>3, <2>1 DEF PartsFit
  <2>3. l = heap[macro].act \/ l = heap[macro].press
    OBVIOUS
  <2> QED  BY <2>2, <2>3 DEF Is
<1>5. v \in Cell /\ heap[v] = FREE
  <2>1. {} \in SUBSET Cell /\ Cardinality({}) = 0
    BY FS_EmptySet
  <2> QED  BY <1>1, <2>1, Fresh
<1>6. n \in Cell /\ heap[n] = FREE /\ n # v
  <2>1. {v} \in SUBSET Cell /\ Cardinality({v}) = 1
    BY <1>5, FS_Singleton
  <2>2. n \notin {v}
    BY <1>1, <2>1, Fresh
  <2> QED  BY <1>1, <2>1, <2>2, Fresh
<1>7. heap' = Push(h1, l, v, n) /\ UNCHANGED <<macro, pc, pad, node, list>>
  BY DEF AddBtn
<1> HIDE DEF v, n, l
<1>8. Heap(h1, len, at, {}, {macro} \cup {v}, NULL)
  BY <1>2, <1>5, NewButton
<1>9. /\ v # macro /\ l # v /\ h1[macro] = heap[macro] /\ h1[l] = heap[l] /\ h1[n] = FREE
      /\ h1[v] = [kind |-> "btn", btn |-> x]
  <2>1. v # macro /\ l # v
    BY <1>2, <1>4, <1>5 DEF Is, FREE
  <2>2. macro \in Cell
    BY <1>2 DEF Is
  <2> QED  BY <1>3, <1>4, <1>5, <1>6, <2>1, <2>2
<1> HIDE DEF h1
<1>10. Is(h1, "list", l) /\ Is(h1, "btn", v) /\ Is(h1, "macro", macro)
  BY <1>2, <1>4, <1>5, <1>9 DEF Is
<1>a. PICK len2, at2 : len2 = [len EXCEPT ![l] = @ + 1] /\ at2 = [at EXCEPT ![l][len[l] + 1] = n]
  OBVIOUS
<1>11. Heap(heap', len2, at2, {}, {macro}, NULL)
  <2>1. v \in {macro} \cup {v} /\ ({macro} \cup {v}) \ {v} = {macro}
    BY <1>9
  <2>2. Is(h1, IF l \in PadLists THEN "macro" ELSE "btn", v)
    BY <1>4, <1>10
  <2>3. Heap(Push(h1, l, v, n), [len EXCEPT ![l] = @ + 1], [at EXCEPT ![l][len[l] + 1] = n],
             {}, ({macro} \cup {v}) \ {v}, NULL)
    BY <1>4, <1>6, <1>8, <1>9, <1>10, <2>1, <2>2, Pushed
  <2> QED  BY <1>7, <1>a, <2>1, <2>3
<1>12. Is(heap', "macro", macro)
  <2>1. macro # n /\ macro \in Cell
    BY <1>2, <1>6 DEF Is, FREE
  <2>2. Is(h1, IF l \in PadLists THEN "macro" ELSE "btn", v)
    BY <1>4, <1>10
  <2>3. v \in {macro} \cup {v}
    OBVIOUS
  <2>4. KindsKept(h1, Push(h1, l, v, n), {n})
    BY <1>4, <1>6, <1>8, <1>9, <1>10, <2>2, <2>3, Pushed
  <2> QED  BY <1>7, <1>10, <2>1, <2>4 DEF KindsKept
<1>13. Outs' = {macro} /\ Loose' = NULL
  BY <1>1, <1>7 DEF Outs, Loose
<1>14. Control(len2, at2, {})'
  BY <1>1, <1>2, <1>7, <1>12 DEF Control
<1>15. Sound(len2, at2, {})'
  BY <1>11, <1>13, <1>14 DEF Sound
<1>16. Kept(h1, heap') /\ heap'[n].value = v
  <2>1. v \in {macro} \cup {v} /\ Is(h1, IF l \in PadLists THEN "macro" ELSE "btn", v)
    BY <1>4, <1>10
  <2>2. Kept(h1, Push(h1, l, v, n)) /\ Carries(Push(h1, l, v, n), n, v)
    BY <1>4, <1>6, <1>8, <1>9, <1>10, <2>1, Pushed
  <2> QED  BY <1>7, <2>2 DEF Carries
<1>17. Kept(heap, h1)
  <2>1. \A a \in Cell : heap[a] # FREE => h1[a] = heap[a]
    BY <1>3, <1>5 DEF h1
  <2> QED  BY <2>1 DEF Kept, Is, FREE
<1>18. Kept(heap, heap')
  <2>1. \A a \in Cell : (Is(heap, "macro", a) \/ Is(heap, "btn", a)) => heap'[a] = heap[a]
    BY <1>16, <1>17 DEF Kept, Is
  <2>2. \A a \in Cell : Is(heap, "node", a) => heap'[a].value = heap[a].value
    <3>1. \A a \in Cell : Is(heap, "node", a) => Is(h1, "node", a) /\ h1[a] = heap[a]
      BY <1>3, <1>5 DEF h1, Is, FREE
    <3> QED  BY <1>16, <3>1 DEF Kept
  <2> QED  BY <2>1, <2>2 DEF Kept
<1>19. heap'[v].btn = x
  <2>1. heap'[v] = h1[v]
    BY <1>5, <1>10, <1>16 DEF Kept
  <2> QED  BY <1>9, <2>1
<1>20. Longer(len, at, len2, at2, l, n)
  BY <1>a DEF Longer
<1>21. \E n2 : /\ Longer(len, at, len2, at2, l, n2) /\ n2 \in Cell /\ heap'[heap'[n2].value].btn = x
  BY <1>6, <1>16, <1>19, <1>20
<1> QED  BY <1>15, <1>18, <1>21 DEF l

\* ... and its way to the list of a pad.
LEMMA MacroAddSound ==
  ASSUME NEW len, NEW at, NEW gone, Sound(len, at, gone), NEW p \in Pads, MacroAdd(p)
  PROVE  \E len2, at2, n :
           /\ Sound(len2, at2, {})' /\ Kept(heap, heap')
           /\ Longer(len, at, len2, at2, ListOf(p), n)
           /\ n \in Cell /\ heap'[n].value = macro
<1> DEFINE n == New({})
           l == ListOf(p)
<1>1. pc = "idle" /\ macro # NULL /\ Room(1)
  BY DEF MacroAdd
<1>2. /\ Heap(heap, len, at, {}, {macro}, NULL)
      /\ node = NULL /\ pad = 0 /\ pad \in Pads /\ Is(heap, "macro", macro)
  BY <1>1 DEF Sound, Control, Outs, Loose
<1>3. l \in Cell /\ l \in PadLists /\ Is(heap, "list", l)
  BY <1>2, PadListsAreCells DEF Heap, PadsThere
<1>4. n \in Cell /\ heap[n] = FREE
  <2>1. {} \in SUBSET Cell /\ Cardinality({}) = 0
    BY FS_EmptySet
  <2> QED  BY <1>1, <2>1, Fresh
<1>5. /\ heap' = Push(heap, l, macro, n) /\ macro' = NULL
      /\ UNCHANGED <<pc, pad, node, list>>
  BY DEF MacroAdd
<1> HIDE DEF n, l
<1>a. PICK len2, at2 : len2 = [len EXCEPT ![l] = @ + 1] /\ at2 = [at EXCEPT ![l][len[l] + 1] = n]
  OBVIOUS
<1>6. Heap(heap', len2, at2, {}, {}, NULL)
  <2>1. macro \in {macro} /\ {macro} \ {macro} = {}
    OBVIOUS
  <2>2. Is(heap, IF l \in PadLists THEN "macro" ELSE "btn", macro)
    BY <1>2, <1>3
  <2>3. Heap(Push(heap, l, macro, n), [len EXCEPT ![l] = @ + 1],
             [at EXCEPT ![l][len[l] + 1] = n], {}, {macro} \ {macro}, NULL)
    BY <1>2, <1>3, <1>4, <2>1, <2>2, Pushed
  <2> QED  BY <1>5, <1>a, <2>1, <2>3
<1>7. Outs' = {} /\ Loose' = NULL
  BY <1>1, <1>5 DEF Outs, Loose
<1>8. Control(len2, at2, {})'
  BY <1>1, <1>2, <1>5 DEF Control
<1>9. Sound(len2, at2, {})'
  BY <1>6, <1>7, <1>8 DEF Sound
<1>10. Kept(heap, heap') /\ heap'[n].value = macro
  <2>1. macro \in {macro} /\ Is(heap, IF l \in PadLists THEN "macro" ELSE "btn", macro)
    BY <1>2, <1>3
  <2>2. Kept(heap, Push(heap, l, macro, n)) /\ Carries(Push(heap, l, macro, n), n, macro)
    BY <1>2, <1>3, <1>4, <2>1, Pushed
  <2> QED  BY <1>5, <2>2 DEF Carries
<1>11. Longer(len, at, len2, at2, l, n)
  BY <1>a DEF Longer
<1>12. \E n2 : Longer(len, at, len2, at2, l, n2) /\ n2 \in Cell /\ heap'[n2].value = macro
  BY <1>4, <1>10, <1>11
<1> QED  BY <1>9, <1>10, <1>12 DEF l

\* Clearing: the call, ...
LEMMA ClearSound ==
  ASSUME NEW len, NEW at, NEW gone, Sound(len, at, gone), Clear
  PROVE  IInv'
<1>1. /\ pc = "idle" /\ macro = NULL /\ pc' = "iter" /\ pad' = 0 /\ node' = NULL
      /\ UNCHANGED <<heap, macro, list>>
  BY DEF Clear
<1>2. Heap(heap, len, at, {}, {}, NULL) /\ pad = 0 /\ pad \in Pads
  BY <1>1 DEF Sound, Control, Outs, Loose
<1>3. Outs' = {} /\ Loose' = NULL /\ heap' = heap
  BY <1>1 DEF Outs, Loose
<1>4. Control(len, at, {})'
  <2>1. \A q \in Pads : ~ (q < pad')
    BY <1>1 DEF Pads
  <2>2. ListOf(pad)' \in Cell
    BY <1>1, <1>2, PadListsAreCells
  <2>3. len[ListOf(pad)'] \in Nat
    BY <1>2, <2>2 DEF Heap
  <2>4. 0 \in 0 .. len[ListOf(pad)'] /\ {} = First(heap', at, ListOf(pad)', 0)
    BY <2>3 DEF First
  <2> QED  BY <1>1, <1>2, <2>1, <2>4 DEF Control
<1>5. Sound(len, at, {})'
  BY <1>2, <1>3, <1>4 DEF Sound
<1> QED  BY <1>5 DEF IInv

\* ... its way from macro to macro, ...
LEMMA VisitSound ==
  ASSUME NEW len, NEW at, NEW gone, Sound(len, at, gone), Visit
  PROVE  IInv'
<1> DEFINE P == ListOf(pad)
           n == Iter(P, node)
<1>1. /\ pc = "iter" /\ pc' = "list" /\ node' = n
      /\ list' = IF n = NULL THEN P ELSE heap[heap[n].value].act
      /\ heap' = heap /\ macro' = macro /\ pad' = pad
  BY DEF Visit
<1>2. Heap(heap, len, at, gone, {}, NULL) /\ pad \in Pads /\ macro = NULL
  BY <1>1 DEF Sound, Control, Outs, Loose
<1>3. /\ P \in Cell /\ P \in PadLists /\ ListAt(heap, len, at, NULL, P)
      /\ P # NULL /\ len[P] \in Nat /\ \A p \in Pads : p < pad => len[ListOf(p)] = 0
  BY <1>1, <1>2, PadListsAreCells DEF Heap, PadsThere, Linked, Sound, Control, Cell, NULL
<1>4. PICK r \in 0 .. len[P] : /\ node = IF r = 0 THEN NULL ELSE at[P][r]
                               /\ gone = First(heap, at, P, r)
  BY <1>1 DEF Sound, Control
<1>5. r \in Nat /\ r <= len[P] /\ (r # 0 => r \in 1 .. len[P]) /\ (r # len[P] => r + 1 \in 1 .. len[P])
  BY <1>3, <1>4
<1>6. \A k \in 1 .. len[P] : at[P][k] \in Cell /\ at[P][k] # NULL
  BY <1>3 DEF ListAt, NodeAt, Is, Cell, NULL
<1>7. n = IF r = len[P] THEN NULL ELSE at[P][r + 1]
  <2>1. CASE r = 0
    <3>1. n = heap[P].head
      BY <1>4, <2>1 DEF Iter
    <3> QED  BY <1>3, <2>1, <3>1 DEF ListAt
  <2>2. CASE r # 0
    <3>1. node = at[P][r] /\ node # NULL
      BY <1>4, <1>5, <1>6, <2>2
    <3>2. n = heap[at[P][r]].next
      BY <3>1 DEF Iter
    <3>3. NodeAt(heap, len, at, NULL, P, r)
      BY <1>3, <1>5, <2>2 DEF ListAt
    <3> QED  BY <1>3, <3>2, <3>3 DEF NodeAt
  <2> QED  BY <2>1, <2>2
<1> HIDE DEF n
<1>8. Heap(heap', len, at, gone, {}, Loose')
  BY <1>1, <1>2, Loosened
<1>9. Outs' = {}
  BY <1>1, <1>2 DEF Outs
<1>10. Control(len, at, gone)'
  <2>1. \A p \in Pads : p < pad' => len[ListOf(p)] = 0
    BY <1>1, <1>3
  <2>2. ListOf(pad)' = P
    BY <1>1 DEF ListOf
  <2> HIDE DEF P
  <2>3. CASE r = len[P]
    <3>1. node' = NULL /\ list' = P /\ gone = First(heap', at, P, len[P])
      BY <1>1, <1>4, <1>7, <2>3
    <3> QED  BY <1>1, <1>2, <2>1, <2>2, <3>1 DEF Control
  <2>4. CASE r # len[P]
    <3>1. r \in 0 .. len[P] - 1
      BY <1>3, <1>5, <2>4
    <3>2. node' = at[P][r + 1] /\ node' # NULL /\ gone = First(heap', at, P, r)
      BY <1>1, <1>4, <1>5, <1>6, <1>7, <2>4
    <3>3. list' = heap'[heap'[node'].value].act
      BY <1>1, <3>2
    <3> QED  BY <1>1, <1>2, <2>1, <2>2, <3>1, <3>2, <3>3 DEF Control
  <2> QED  BY <2>3, <2>4
<1>11. Sound(len, at, gone)'
  BY <1>8, <1>9, <1>10 DEF Sound
<1> QED  BY <1>11 DEF IInv

\* ... and where list_clear() is then: at the list of the pad, when its macros have
\* lost theirs, or at one of those of the macro at node.
AtPad(len, at, gone) ==
  LET P == ListOf(pad)
  IN  node = NULL /\ list = P /\ gone = First(heap, at, P, len[P])

AtMacro(len, at, gone, r) ==
  LET P == ListOf(pad)
      m == heap[node].value
  IN  /\ r \in Nat /\ r < len[P] /\ node = at[P][r + 1] /\ gone = First(heap, at, P, r)
      /\ list = heap[m].act \/ (list = heap[m].press /\ len[heap[m].act] = 0)
      /\ node # NULL /\ node \in Cell /\ Is(heap, "node", node) /\ m \in Cell /\ Whole(heap, gone, m)
      /\ Is(heap, "list", heap[m].act) /\ Is(heap, "list", heap[m].press)
      /\ heap[m].act # heap[m].press
      /\ heap[m].act \in Cell /\ heap[m].act \notin PadLists
      /\ heap[m].press \in Cell /\ heap[m].press \notin PadLists

LEMMA AtList ==
  ASSUME NEW len, NEW at, NEW gone, Sound(len, at, gone), pc = "list"
  PROVE  /\ Heap(heap, len, at, gone, {}, list) /\ macro = NULL /\ pad \in Pads
         /\ ListOf(pad) \in Cell /\ ListOf(pad) \in PadLists /\ len[ListOf(pad)] \in Nat
         /\ \A p \in Pads : p < pad => len[ListOf(p)] = 0
         /\ AtPad(len, at, gone) \/ \E r \in Nat : AtMacro(len, at, gone, r)
         /\ list \in Cell /\ Is(heap, "list", list)
<1> DEFINE P == ListOf(pad)
<1>1. /\ Heap(heap, len, at, gone, {}, list) /\ pad \in Pads /\ macro = NULL
      /\ \A p \in Pads : p < pad => len[ListOf(p)] = 0
  BY DEF Sound, Control, Outs, Loose
<1>2. P \in Cell /\ P \in PadLists /\ len[P] \in Nat /\ Is(heap, "list", P)
  BY <1>1, PadListsAreCells DEF Heap, PadsThere
<1>3. CASE node = NULL
  <2>1. AtPad(len, at, gone)
    BY <1>3 DEF AtPad, Sound, Control
  <2> QED  BY <1>1, <1>2, <2>1 DEF AtPad
<1>4. CASE node # NULL
  <2>1. PICK r \in 0 .. len[P] - 1 :
          /\ node = at[P][r + 1] /\ gone = First(heap, at, P, r)
          /\ \/ list = heap[heap[node].value].act
             \/ list = heap[heap[node].value].press /\ len[heap[heap[node].value].act] = 0
    BY <1>4 DEF Sound, Control
  <2>2. r \in Nat /\ r < len[P]
    BY <1>2, <2>1
  <2> DEFINE m == heap[at[P][r + 1]].value
  <2> HIDE DEF P
  <2>3. Heap(heap, len, at, First(heap, at, P, r), {}, list)
    BY <1>1, <2>1
  <2>4. /\ Is(heap, "node", at[P][r + 1]) /\ m \in Cell /\ Whole(heap, First(heap, at, P, r), m)
        /\ Is(heap, "list", heap[m].act) /\ Is(heap, "list", heap[m].press)
        /\ heap[m].act # heap[m].press
        /\ heap[m].act \in Cell /\ heap[m].act \notin PadLists
        /\ heap[m].press \in Cell /\ heap[m].press \notin PadLists
    BY <1>2, <2>2, <2>3, NextIsWhole
  <2>5. m = heap[node].value /\ node \in Cell
    BY <2>1, <2>4 DEF Is
  <2> HIDE DEF m
  <2>6. AtMacro(len, at, gone, r)
    BY <1>4, <2>1, <2>2, <2>4, <2>5 DEF AtMacro, P
  <2>7. list = heap[m].act \/ list = heap[m].press
    BY <2>1, <2>5
  <2> QED  BY <1>1, <1>2, <2>2, <2>4, <2>6, <2>7 DEF P
<1> QED  BY <1>3, <1>4

\* ... whose loop takes one node after another from the end of a list ...
LEMMA PopSound ==
  ASSUME NEW len, NEW at, NEW gone, Sound(len, at, gone), Pop
  PROVE  IInv'
<1> DEFINE P == ListOf(pad)
           b == at[list][len[list]]
           v == heap[b].value
<1>1. /\ pc = "list" /\ heap[list].head # heap[list].bottom
      /\ heap' = Freed([heap EXCEPT ![list].bottom = heap[heap[list].bottom].previous],
                       {heap[list].bottom, heap[heap[list].bottom].value})
      /\ macro' = macro /\ pc' = pc /\ pad' = pad /\ node' = node /\ list' = list
  BY DEF Pop
<1>2. /\ Heap(heap, len, at, gone, {}, list) /\ macro = NULL /\ pad \in Pads
      /\ P \in Cell /\ P \in PadLists /\ len[P] \in Nat
      /\ \A p \in Pads : p < pad => len[ListOf(p)] = 0
      /\ AtPad(len, at, gone) \/ \E r \in Nat : AtMacro(len, at, gone, r)
      /\ list \in Cell /\ Is(heap, "list", list)
  BY <1>1, AtList
<1>3. /\ heap \in [Cell -> Block] /\ len \in [Cell -> Nat] /\ at \in [Cell -> [Nat -> Cell]]
      /\ ListAt(heap, len, at, list, list) /\ ValuesFit(heap, len, at)
  BY <1>2 DEF Heap, Linked
<1>4. len[list] \in Nat /\ len[list] > 1
  <2>1. len[list] \in Nat
    BY <1>2, <1>3
  <2>2. len[list] # 0 /\ len[list] # 1
    BY <1>1, <1>3 DEF ListAt
  <2> QED  BY <2>1, <2>2
<1>5. len[list] \in 1 .. len[list] /\ len[list] - 1 \in 1 .. len[list] /\ 1 \in 1 .. len[list]
  BY <1>4
<1>6. /\ heap[list].bottom = b /\ b \in Cell /\ Is(heap, "node", b)
      /\ heap[b].previous = at[list][len[list] - 1] /\ at[list][len[list] - 1] \in Cell
  <2>1. heap[list].bottom = b
    BY <1>3, <1>4 DEF ListAt
  <2>2. NodeAt(heap, len, at, list, list, len[list])
    BY <1>3, <1>5 DEF ListAt
  <2>3. NodeAt(heap, len, at, list, list, len[list] - 1)
    BY <1>3, <1>5 DEF ListAt
  <2> QED  BY <1>4, <2>1, <2>2, <2>3 DEF NodeAt, Is
<1>7. /\ Is(heap, IF list \in PadLists THEN "macro" ELSE "btn", v) /\ v \in Cell
      /\ v # b /\ v # list /\ b # list
  <2>1. Is(heap, IF list \in PadLists THEN "macro" ELSE "btn", v)
    BY <1>2, <1>3, <1>5 DEF ValuesFit
  <2> QED  BY <1>2, <1>6, <2>1 DEF Is
<1>8. heap' = Freed([heap EXCEPT ![list].bottom = at[list][len[list] - 1]], {b, v})
  BY <1>1, <1>6
<1>9. v = heap[b].value
  OBVIOUS
<1>10. b = at[list][len[list]]
  OBVIOUS
<1> HIDE DEF b, v, P
<1>11. Drops(heap, heap', len, at, list, b, v)
  <2> DEFINE c == [heap[list] EXCEPT !.bottom = at[list][len[list] - 1]]
             h1 == [heap EXCEPT ![list] = c]
  <2>1. heap[list] \in [kind : {"list"}, head : Link, bottom : Link, size : Nat]
    BY <1>2, <1>3, Kinds
  <2>2. at[list][len[list] - 1] \in Link
    BY <1>6 DEF Link
  <2>3. /\ c \in Block /\ c.kind = "list" /\ c.head = heap[list].head
        /\ c.bottom = at[list][len[list] - 1]
    BY <2>1, <2>2 DEF Block
  <2>4. heap' = Freed(h1, {b, v})
    BY <1>8
  <2> HIDE DEF c
  <2>5. h1 \in [Cell -> Block] /\ h1[list] = c /\ \A a \in Cell \ {list} : h1[a] = heap[a]
    BY <1>2, <1>3, <2>3
  <2> HIDE DEF h1
  <2>6. \A a \in Cell : heap'[a] = IF a \in {b, v} THEN FREE ELSE h1[a]
    BY <2>4 DEF Freed
  <2>7. heap' \in [Cell -> Block]
    <3>1. FREE \in Block
      BY DEF Block
    <3> QED  BY <2>4, <2>5, <3>1 DEF Freed
  <2>8. heap'[b] = FREE /\ heap'[v] = FREE
    BY <1>6, <1>7, <2>6
  <2>9. heap'[list] = c
    BY <1>2, <1>7, <2>5, <2>6
  <2>10. \A a \in Cell \ {b, v, list} : heap'[a] = heap[a]
    BY <2>5, <2>6
  <2>11. Is(heap', "list", list)
    BY <1>2, <2>3, <2>9 DEF Is
  <2>12. heap'[list].head = at[list][1] /\ heap'[list].bottom = at[list][len[list] - 1]
    BY <1>3, <1>4, <2>3, <2>9 DEF ListAt
  <2> QED  BY <1>2, <1>4, <1>9, <1>10, <2>7, <2>8, <2>10, <2>11, <2>12 DEF Drops
<1>12. PICK len2 : len2 = [len EXCEPT ![list] = @ - 1]
  OBVIOUS
<1>13. len2[list] = len[list] - 1 /\ \A l \in Cell \ {list} : len2[l] = len[l]
  BY <1>2, <1>3, <1>12
<1>14. PICK gone2 : gone2 = IF list = P THEN First(heap', at, P, len2[P]) ELSE gone
  OBVIOUS
<1>15. AtPad(len, at, gone) => list = P /\ gone = First(heap, at, P, len[P])
  BY DEF AtPad, P
<1>16. (\E r \in Nat : AtMacro(len, at, gone, r)) => list \notin PadLists /\ list # P
  BY <1>2 DEF AtMacro
<1>17. list \in PadLists => v \in gone /\ list = P
  <2> SUFFICES ASSUME list \in PadLists PROVE v \in gone /\ list = P
    OBVIOUS
  <2>1. list = P /\ gone = First(heap, at, P, len[P])
    BY <1>2, <1>15, <1>16
  <2> QED  BY <1>5, <1>9, <1>10, <2>1 DEF First
<1>18. SameMacros(heap', gone, gone2)
  <2>1. CASE list = P
    <3>1. gone = First(heap, at, P, len[P])
      BY <1>2, <1>15, <1>16, <2>1
    <3>2. \A k \in 1 .. len[P] - 1 : heap'[at[P][k]] = heap[at[P][k]]
      <4>1. SameMacros(heap', gone, gone)
        BY DEF SameMacros
      <4>2. list = list \/ len[list] = 1
        OBVIOUS
      <4>3. FrontKept(heap, heap', len, at, list)
        BY <1>2, <1>11, <1>17, <4>1, <4>2, Dropped
      <4> QED  BY <2>1, <4>3 DEF FrontKept
    <3>3. ASSUME NEW m \in Cell, Is(heap', "macro", m) PROVE m \in gone2 <=> m \in gone
      <4>1. m # v
        BY <1>11, <3>3 DEF Drops, Is, FREE
      <4>2. gone2 = {heap'[at[P][k]].value : k \in 1 .. len2[P]}
        BY <1>14, <2>1 DEF First
      <4>3. gone = {heap[at[P][k]].value : k \in 1 .. len[P]}
        BY <3>1 DEF First
      <4>4. \A k \in 1 .. len2[P] : k \in 1 .. len[P] /\ heap'[at[P][k]].value = heap[at[P][k]].value
        BY <1>4, <1>13, <2>1, <3>2
      <4>5. \A k \in 1 .. len[P] : k \in 1 .. len2[P] \/ heap[at[P][k]].value = v
        <5>1. \A k \in 1 .. len[P] : k \in 1 .. len2[P] \/ k = len[P]
          BY <1>4, <1>13, <2>1
        <5> QED  BY <1>9, <1>10, <2>1, <5>1
      <4>6. m \in gone2 => m \in gone
        BY <4>2, <4>3, <4>4
      <4>7. m \in gone => m \in gone2
        BY <4>1, <4>2, <4>3, <4>4, <4>5
      <4> QED  BY <4>6, <4>7
    <3> QED  BY <3>3 DEF SameMacros
  <2>2. CASE list # P
    BY <1>14, <2>2 DEF SameMacros
  <2> QED  BY <2>1, <2>2
<1>19. /\ Heap(heap', len2, at, gone2, {}, list)
       /\ NodesKept(heap, heap', len, at, {list}) /\ MacrosKept(heap, heap', {v})
  <2>1. list = list \/ len[list] = 1
    OBVIOUS
  <2> QED  BY <1>2, <1>11, <1>12, <1>17, <1>18, <2>1, Dropped
<1>20. Outs' = {} /\ Loose' = list
  BY <1>1, <1>2 DEF Outs, Loose
<1>21. Control(len2, at, gone2)'
  <2>1. ListOf(pad)' = P
    BY <1>1 DEF ListOf, P
  <2>2. \A p \in Pads : p < pad' => len2[ListOf(p)] = 0
    <3> SUFFICES ASSUME NEW p \in Pads, p < pad PROVE len2[ListOf(p)] = 0
      BY <1>1
    <3>1. ListOf(p) \in Cell /\ len[ListOf(p)] = 0
      BY <1>2, PadListsAreCells
    <3>2. ListOf(p) # list
      BY <1>4, <3>1
    <3> QED  BY <1>13, <3>1, <3>2
  <2>3. CASE AtPad(len, at, gone)
    <3>1. node' = NULL /\ list' = P /\ gone2 = First(heap', at, P, len2[P])
      BY <1>1, <1>14, <1>15, <2>3 DEF AtPad
    <3> QED  BY <1>1, <1>2, <2>1, <2>2, <3>1 DEF Control
  <2>4. ASSUME NEW r \in Nat, AtMacro(len, at, gone, r) PROVE Control(len2, at, gone2)'
    <3> DEFINE m == heap[node].value
    <3>1. /\ r < len[P] /\ node = at[P][r + 1] /\ gone = First(heap, at, P, r)
          /\ list = heap[m].act \/ (list = heap[m].press /\ len[heap[m].act] = 0)
          /\ node # NULL /\ m \in Cell /\ Is(heap, "macro", m)
          /\ heap[m].act # heap[m].press /\ heap[m].act \in Cell
      BY <2>4 DEF AtMacro, Whole, P
    <3>2. list # P /\ list \notin PadLists /\ len2[P] = len[P] /\ gone2 = gone
      BY <1>2, <1>13, <1>14, <1>16, <2>4
    <3>3. \A k \in 1 .. len[P] : heap'[at[P][k]] = heap[at[P][k]]
      BY <1>2, <1>19, <3>2 DEF NodesKept
    <3>4. \A k \in 1 .. r : k \in 1 .. len[P]
      BY <1>2, <3>1
    <3>5. gone2 = First(heap', at, P, r)
      BY <3>1, <3>2, <3>3, <3>4 DEF First
    <3>6. heap'[node'].value = m
      <4>1. r + 1 \in 1 .. len[P]
        BY <1>2, <3>1
      <4> QED  BY <1>1, <3>1, <3>3, <4>1
    <3>7. heap'[m] = heap[m]
      <4>1. m # v
        BY <1>7, <3>1, <3>2 DEF Is
      <4> QED  BY <1>19, <3>1, <4>1 DEF MacrosKept
    <3> HIDE DEF m
    <3>8. list' = heap'[m].act \/ (list' = heap'[m].press /\ len2[heap'[m].act] = 0)
      BY <1>1, <1>13, <3>1, <3>7
    <3>9. r \in 0 .. len2[P] - 1
      BY <1>2, <3>1, <3>2
    <3>10. node' = at[P][r + 1] /\ node' # NULL
      BY <1>1, <3>1
    <3> QED  BY <1>1, <1>2, <2>1, <2>2, <3>5, <3>6, <3>8, <3>9, <3>10 DEF Control
  <2> QED  BY <1>2, <2>3, <2>4
<1>22. Sound(len2, at, gone2)'
  BY <1>1, <1>19, <1>20, <1>21 DEF Sound
<1> QED  BY <1>22 DEF IInv

AllEmpty(len) == \A p \in Pads : len[ListOf(p)] = 0

\* ... and ends: with the first list of a macro, then its second, then the pad's own.
LEMMA FinishSound ==
  ASSUME NEW len, NEW at, NEW gone, Sound(len, at, gone), Finish
  PROVE  \E len2, gone2 : Sound(len2, at, gone2)' /\ (pc' = "idle" => AllEmpty(len2))
<1> DEFINE P == ListOf(pad)
           m == heap[node].value
<1>1. pc = "list" /\ heap[list].head = heap[list].bottom /\ macro' = macro /\ node' = node
  BY DEF Finish
<1>2. /\ Heap(heap, len, at, gone, {}, list) /\ macro = NULL /\ pad \in Pads
      /\ P \in Cell /\ P \in PadLists /\ len[P] \in Nat
      /\ \A p \in Pads : p < pad => len[ListOf(p)] = 0
      /\ AtPad(len, at, gone) \/ \E r \in Nat : AtMacro(len, at, gone, r)
      /\ list \in Cell /\ Is(heap, "list", list)
  BY <1>1, AtList
<1>3. PICK len2 : len2 = [len EXCEPT ![list] = 0]
  OBVIOUS
<1>4. len2[list] = 0 /\ \A l \in Cell \ {list} : len2[l] = len[l]
  BY <1>2, <1>3 DEF Heap
<1>5. \A p \in Pads : p < pad => len2[ListOf(p)] = 0
  <2> SUFFICES ASSUME NEW p \in Pads, p < pad PROVE len2[ListOf(p)] = 0
    OBVIOUS
  <2>1. ListOf(p) \in Cell /\ len[ListOf(p)] = 0
    BY <1>2, PadListsAreCells
  <2> QED  BY <1>4, <2>1
<1>6. Outs' = {}
  BY <1>1, <1>2 DEF Outs
<1>7. ASSUME NEW r \in Nat, AtMacro(len, at, gone, r)
      PROVE  \E gone2 : Sound(len2, at, gone2)' /\ pc' # "idle"
  <2> DEFINE h2 == Emptied(list)
  <2>1. /\ r < len[P] /\ node = at[P][r + 1] /\ gone = First(heap, at, P, r)
        /\ list = heap[m].act \/ (list = heap[m].press /\ len[heap[m].act] = 0)
        /\ node # NULL /\ m \in Cell /\ Whole(heap, gone, m) /\ Is(heap, "macro", m)
        /\ heap[m].act # heap[m].press /\ heap[m].act \in Cell /\ heap[m].press \in Cell
        /\ list \notin PadLists
    BY <1>7 DEF AtMacro, Whole
  <2>2. /\ Heap(h2, len2, at, gone, {}, NULL)
        /\ NodesKept(heap, h2, len, at, {list}) /\ MacrosKept(heap, h2, {})
    <3>1. SameMacros(h2, gone, gone)
      BY DEF SameMacros
    <3> QED  BY <1>1, <1>2, <1>3, <2>1, <3>1, Emptying
  <2>3. list # P /\ len2[P] = len[P]
    BY <1>2, <1>4, <2>1
  <2>4. /\ \A k \in 1 .. len[P] : h2[at[P][k]] = heap[at[P][k]]
        /\ h2[m] = heap[m]
    BY <1>2, <2>1, <2>2, <2>3 DEF NodesKept, MacrosKept
  <2>5. r + 1 \in 1 .. len[P] /\ \A k \in 1 .. r + 1 : k \in 1 .. len[P]
    BY <1>2, <2>1
  <2> HIDE DEF h2
  <2>6. CASE list = heap[m].act
    <3>1. /\ heap' = h2 /\ list' = heap[m].press /\ pc' = "list" /\ pad' = pad
      BY <1>1, <2>1, <2>6 DEF Finish, h2
    <3>2. Heap(heap', len2, at, gone, {}, Loose')
      BY <2>2, <3>1, Loosened
    <3>3. ListOf(pad)' = P
      BY <3>1 DEF ListOf
    <3>4. heap'[node'].value = m
      BY <1>1, <2>1, <2>4, <2>5, <3>1
    <3>5. gone = First(heap', at, P, r)
      <4>1. \A k \in 1 .. r : k \in 1 .. len[P]
        BY <1>2, <2>1
      <4> QED  BY <2>1, <2>4, <3>1, <4>1 DEF First
    <3>6. r \in 0 .. len2[P] - 1 /\ node' = at[P][r + 1] /\ node' # NULL
      BY <1>1, <1>2, <2>1, <2>3
    <3> HIDE DEF m, P
    <3>7. list' = heap'[m].press /\ len2[heap'[m].act] = 0
      BY <1>4, <2>4, <2>6, <3>1
    <3>8. \A p \in Pads : p < pad' => len2[ListOf(p)] = 0
      BY <1>5, <3>1
    <3>9. Control(len2, at, gone)'
      BY <1>1, <1>2, <3>1, <3>3, <3>4, <3>5, <3>6, <3>7, <3>8 DEF Control
    <3>10. Sound(len2, at, gone)'
      BY <1>6, <3>2, <3>9 DEF Sound
    <3> QED  BY <3>1, <3>10
  <2>7. CASE list = heap[m].press /\ len[heap[m].act] = 0
    <3> DEFINE h3 == Freed(h2, {h2[m].act, h2[m].press})
    <3>1. heap' = h3 /\ pc' = "iter" /\ pad' = pad
      <4>1. heap' = Released(h2, m) /\ pc' = "iter" /\ pad' = pad
        BY <1>1, <2>1, <2>7 DEF Finish, h2
      <4> QED  BY <2>4, <4>1 DEF Released
    <3>2. Whole(h2, gone, m)
      BY <2>1, <2>4 DEF Whole, Is
    <3>3. len2[h2[m].act] = 0 /\ len2[h2[m].press] = 0
      BY <1>4, <2>1, <2>4, <2>7
    <3>4. PICK gone2 : gone2 = gone \cup {m}
      OBVIOUS
    <3>5. Heap(h3, len2, at, gone2, {}, NULL)
      BY <2>1, <2>2, <3>2, <3>3, <3>4, PartsReleased
    <3>6. Loose' = NULL
      BY <3>1 DEF Loose
    <3>7. \A k \in 1 .. len[P] : h3[at[P][k]] = heap[at[P][k]]
      <4> SUFFICES ASSUME NEW k \in 1 .. len[P] PROVE h3[at[P][k]] = heap[at[P][k]]
        OBVIOUS
      <4>1. Linked(heap, len, at, list) /\ PadsThere(heap) /\ PartsFit(heap, gone)
        BY <1>2 DEF Heap
      <4>2. ListAt(heap, len, at, list, P)
        BY <1>2, <4>1 DEF Linked, PadsThere
      <4>3. Is(heap, "node", at[P][k]) /\ at[P][k] \in Cell
        BY <4>2 DEF ListAt, NodeAt, Is
      <4>4. Is(heap, "list", heap[m].act) /\ Is(heap, "list", heap[m].press)
        BY <2>1, <4>1 DEF PartsFit
      <4>5. at[P][k] \notin {h2[m].act, h2[m].press}
        BY <2>4, <4>3, <4>4 DEF Is
      <4> QED  BY <2>4, <4>3, <4>5 DEF Freed
    <3>8. gone2 = First(heap', at, P, r + 1)
      <4>1. \A k \in 1 .. r : k \in 1 .. r + 1
        BY <2>1
      <4>2. \A k \in 1 .. r + 1 : k \in 1 .. r \/ k = r + 1
        BY <2>1
      <4>3. r + 1 \in 1 .. r + 1 /\ heap[at[P][r + 1]].value = m
        BY <2>1
      <4>4. First(heap', at, P, r + 1) = {heap[at[P][k]].value : k \in 1 .. r + 1}
        BY <2>5, <3>1, <3>7 DEF First
      <4> QED  BY <2>1, <3>4, <4>1, <4>2, <4>3, <4>4 DEF First
    <3>9. r + 1 \in 0 .. len2[P] /\ r + 1 # 0 /\ node' = at[P][r + 1]
      BY <1>1, <1>2, <2>1, <2>3
    <3>10. ListOf(pad)' = P
      BY <3>1 DEF ListOf
    <3>11. \A p \in Pads : p < pad' => len2[ListOf(p)] = 0
      BY <1>5, <3>1
    <3> HIDE DEF m, P, h3
    <3>12. Control(len2, at, gone2)'
      BY <1>1, <1>2, <3>1, <3>8, <3>9, <3>10, <3>11 DEF Control
    <3>13. Sound(len2, at, gone2)'
      BY <1>6, <3>1, <3>5, <3>6, <3>12 DEF Sound
    <3> QED  BY <3>1, <3>13
  <2> QED  BY <2>1, <2>6, <2>7
<1>8. CASE AtPad(len, at, gone)
  <2>1. node = NULL /\ list = P /\ gone = First(heap, at, P, len[P])
    BY <1>8 DEF AtPad
  <2>2. /\ heap' = Emptied(list) /\ pad' = (pad + 1) % NumPads
        /\ pc' = IF pad' = 0 THEN "idle" ELSE "iter"
    BY <1>1, <2>1 DEF Finish
  <2>3. \A m2 \in Cell : Is(heap', "macro", m2) => m2 \notin gone
    <3>1. SameMacros(heap', gone, gone \cap {a \in Cell : Is(heap', "macro", a)})
      BY DEF SameMacros
    <3>2. \A k \in 1 .. len[list] : heap[at[list][k]].value \in gone
      BY <2>1 DEF First
    <3>3. \A m2 \in Cell : Is(Emptied(list), "macro", m2)
            => Is(heap, "macro", m2) /\ \A k \in 1 .. len[list] : m2 # heap[at[list][k]].value
      BY <1>1, <1>2, <2>2, <3>1, <3>2, Emptying
    <3> QED  BY <2>1, <2>2, <3>3 DEF First
  <2>4. Heap(heap', len2, at, {}, {}, NULL)
    <3>1. SameMacros(Emptied(list), gone, {})
      BY <2>2, <2>3 DEF SameMacros
    <3>2. \A k \in 1 .. len[list] : heap[at[list][k]].value \in gone
      BY <2>1 DEF First
    <3>3. Heap(Emptied(list), [len EXCEPT ![list] = 0], at, {}, {}, NULL)
      BY <1>1, <1>2, <3>1, <3>2, Emptying
    <3> QED  BY <1>3, <2>2, <3>3
  <2>5. Loose' = NULL
    BY <2>2 DEF Loose
  <2>6. /\ pad' \in Pads
        /\ pad' # 0 => \A p \in Pads : p < pad' => p < pad \/ p = pad
    <3>1. pad \in Nat /\ pad + 1 <= NumPads /\ NumPads \in Nat \ {0}
      BY <1>2, ListAssumption DEF Pads
    <3>2. CASE pad + 1 < NumPads
      <4>1. pad' = pad + 1
        BY <2>2, <3>1, <3>2
      <4> QED  BY <3>1, <3>2, <4>1 DEF Pads
    <3>3. CASE pad + 1 = NumPads
      <4>1. pad' = 0
        BY <2>2, <3>1, <3>3
      <4> QED  BY <3>1, <4>1 DEF Pads
    <3> QED  BY <3>1, <3>2, <3>3
  <2>7. Control(len2, at, {})'
    <3>1. CASE pad' = 0
      BY <1>1, <1>2, <2>1, <2>2, <2>6, <3>1 DEF Control
    <3>2. CASE pad' # 0
      <4>1. \A p \in Pads : p < pad' => len2[ListOf(p)] = 0
        BY <1>4, <1>5, <2>1, <2>6, <3>2
      <4>2. ListOf(pad)' \in Cell /\ len2[ListOf(pad)'] \in Nat
        BY <2>4, <2>6, PadListsAreCells DEF Heap, ListOf
      <4>3. 0 \in 0 .. len2[ListOf(pad)'] /\ {} = First(heap', at, ListOf(pad)', 0)
        BY <4>2 DEF First
      <4> QED  BY <1>1, <1>2, <2>1, <2>2, <2>6, <3>2, <4>1, <4>3 DEF Control
    <3> QED  BY <3>1, <3>2
  <2>8. Sound(len2, at, {})'
    BY <1>6, <2>4, <2>5, <2>7 DEF Sound
  <2>9. pc' = "idle" => \A p \in Pads : len2[ListOf(p)] = 0
    <3>1. pad' = 0 => \A p \in Pads : p < pad \/ p = pad
      <4>1. pad \in Nat /\ pad + 1 <= NumPads /\ NumPads \in Nat \ {0}
        BY <1>2, ListAssumption DEF Pads
      <4>2. pad + 1 < NumPads => pad' = pad + 1
        BY <2>2, <4>1
      <4> QED  BY <4>1, <4>2 DEF Pads
    <3>2. pc' = "idle" => pad' = 0
      BY <2>2
    <3> QED  BY <1>4, <1>5, <2>1, <3>1, <3>2
  <2> QED  BY <2>8, <2>9 DEF AllEmpty
<1> QED  BY <1>2, <1>7, <1>8

LEMMA StepSound == IInv /\ [Next]_vars => IInv'
<1> SUFFICES ASSUME IInv, [Next]_vars PROVE IInv'
  OBVIOUS
<1>1. PICK len, at, gone : Sound(len, at, gone)
  BY DEF IInv
<1>2. CASE MacroInit
  <2>1. Sound(len, at, {})'
    BY <1>1, <1>2, MacroInitSound
  <2> QED  BY <2>1 DEF IInv
<1>3. CASE Clear
  BY <1>1, <1>3, ClearSound
<1>4. CASE Visit
  BY <1>1, <1>4, VisitSound
<1>5. CASE Pop
  BY <1>1, <1>5, PopSound
<1>6. CASE Finish
  <2>1. \E len2, gone2 : Sound(len2, at, gone2)' /\ (pc' = "idle" => AllEmpty(len2))
    BY <1>1, <1>6, FinishSound
  <2>2. \E len2, gone2 : Sound(len2, at, gone2)'
    BY ONLY <2>1
  <2> QED  BY <2>2 DEF IInv
<1>7. ASSUME NEW which \in {"act", "press"}, NEW b \in Btn, AddBtn(which, b) PROVE IInv'
  BY <1>1, <1>7, AddBtnSound DEF IInv
<1>8. ASSUME NEW p \in Pads, MacroAdd(p) PROVE IInv'
  BY <1>1, <1>8, MacroAddSound DEF IInv
<1>9. CASE UNCHANGED vars
  <2>1. /\ heap' = heap /\ macro' = macro /\ pc' = pc /\ pad' = pad
        /\ node' = node /\ list' = list
    BY <1>9 DEF vars
  <2>2. Sound(len, at, gone)'
    BY <1>1, <2>1 DEF Sound, Control, Outs, Loose, ListOf
  <2> QED  BY <2>2 DEF IInv
<1> QED  BY <1>2, <1>3, <1>4, <1>5, <1>6, <1>7, <1>8, <1>9 DEF Next

\* The heap that list.c and gamepad.c work on always is what they take it for.
THEOREM AlwaysSound == Spec => []IInv
  BY InitSound, StepSound, PTL DEF Spec
-------------------------------------------------------------------------------
\* A clear reads and frees nothing but what it takes for a node, a list or a value.
LEMMA SoundVisit ==
  ASSUME NEW len, NEW at, NEW gone, Sound(len, at, gone), pc = "iter"
  PROVE  VisitSafe
<1> DEFINE P == ListOf(pad)
           n == Iter(P, node)
<1>1. Heap(heap, len, at, gone, {}, NULL) /\ pad \in Pads
  BY DEF Sound, Control, Outs, Loose
<1>2. /\ P \in Cell /\ P \in PadLists /\ Is(heap, "list", P) /\ ListAt(heap, len, at, NULL, P)
      /\ P # NULL /\ len[P] \in Nat
  BY <1>1, PadListsAreCells DEF Heap, PadsThere, Linked, Cell, NULL
<1>3. PICK r \in 0 .. len[P] : node = IF r = 0 THEN NULL ELSE at[P][r]
  BY DEF Sound, Control
<1>4. r \in Nat /\ (r # 0 => r \in 1 .. len[P]) /\ (r # len[P] => r + 1 \in 1 .. len[P])
  BY <1>2, <1>3
<1>5. \A k \in 1 .. len[P] : NodeAt(heap, len, at, NULL, P, k) /\ Is(heap, "node", at[P][k])
                             /\ at[P][k] # NULL /\ Is(heap, "macro", heap[at[P][k]].value)
  <2> SUFFICES ASSUME NEW k \in 1 .. len[P]
               PROVE  /\ NodeAt(heap, len, at, NULL, P, k) /\ Is(heap, "node", at[P][k])
                      /\ at[P][k] # NULL /\ Is(heap, "macro", heap[at[P][k]].value)
    OBVIOUS
  <2>1. NodeAt(heap, len, at, NULL, P, k)
    BY <1>2 DEF ListAt
  <2>2. ValuesFit(heap, len, at)
    BY <1>1 DEF Heap
  <2>3. Is(heap, "macro", heap[at[P][k]].value)
    BY <1>2, <2>2 DEF ValuesFit
  <2> QED  BY <2>1, <2>3 DEF NodeAt, Is, Cell, NULL
<1>6. n = IF r = len[P] THEN NULL ELSE at[P][r + 1]
  <2>1. CASE r = 0
    BY <1>2, <1>3, <2>1 DEF Iter, ListAt
  <2>2. CASE r # 0
    <3>1. node = at[P][r] /\ node # NULL /\ NodeAt(heap, len, at, NULL, P, r)
      BY <1>3, <1>4, <1>5, <2>2
    <3> QED  BY <1>2, <3>1 DEF Iter, NodeAt
  <2> QED  BY <2>1, <2>2
<1>7. IF node = NULL THEN Is(heap, "list", P) ELSE Is(heap, "node", node)
  BY <1>2, <1>3, <1>4, <1>5
<1>8. n = NULL \/ (Is(heap, "node", n) /\ Is(heap, "macro", heap[n].value))
  BY <1>4, <1>5, <1>6
<1> QED  BY <1>7, <1>8 DEF VisitSafe, IsA, Is

LEMMA SoundClear ==
  ASSUME NEW len, NEW at, NEW gone, Sound(len, at, gone), pc = "list"
  PROVE  ClearSafe
<1>1. /\ Heap(heap, len, at, gone, {}, list)
      /\ AtPad(len, at, gone) \/ \E r \in Nat : AtMacro(len, at, gone, r)
      /\ list \in Cell /\ Is(heap, "list", list)
  BY AtList
<1>2. ListAt(heap, len, at, list, list) /\ len[list] \in Nat /\ ValuesFit(heap, len, at)
  BY <1>1 DEF Heap, Linked
<1>3. \/ heap[list].head = NULL /\ heap[list].bottom = NULL
      \/ /\ Is(heap, "node", heap[list].bottom)
         /\ heap[heap[list].bottom].value \in Cell
         /\ heap[heap[heap[list].bottom].value] # FREE
  <2>1. CASE len[list] = 0
    BY <1>2, <2>1 DEF ListAt
  <2>2. CASE len[list] # 0
    <3>1. len[list] \in 1 .. len[list] /\ heap[list].bottom = at[list][len[list]]
      BY <1>2, <2>2 DEF ListAt
    <3>2. Is(heap, "node", heap[list].bottom)
      BY <1>2, <3>1 DEF ListAt, NodeAt
    <3>3. Is(heap, IF list \in PadLists THEN "macro" ELSE "btn", heap[heap[list].bottom].value)
      BY <1>1, <1>2, <3>1 DEF ValuesFit
    <3> QED  BY <3>2, <3>3 DEF Is, FREE
  <2> QED  BY <2>1, <2>2
<1>4. node # NULL => Is(heap, "node", node) /\ Is(heap, "macro", heap[node].value)
  BY <1>1 DEF AtPad, AtMacro, Whole
<1> QED  BY <1>1, <1>3, <1>4 DEF ClearSafe, IsA, Is, Live

\* gamepads_macro_clear() and list_clear() follow no pointer to a cell that was freed
\* before or is not of the type they take it for.
THEOREM ClearNeverStrays == Spec => []NeverStray
<1>1. IInv => NeverStray
  BY SoundVisit, SoundClear DEF IInv, NeverStray
<1> QED  BY <1>1, AlwaysSound, PTL
-------------------------------------------------------------------------------
\* Two functions that agree at k when they agree below k agree.
LEMMA Determined ==
  ASSUME NEW S \in SUBSET Nat, NEW f, NEW g,
         \A k \in S : (\A j \in S : j < k => f[j] = g[j]) => f[k] = g[k]
  PROVE  \A k \in S : f[k] = g[k]
<1> DEFINE T == {k \in S : f[k] # g[k]}
<1> SUFFICES ASSUME T # {} PROVE FALSE
  OBVIOUS
<1>1. IsWellFoundedOn(Before, Nat)
  BY NatLessThanWellFounded DEF OpToRel, Before
<1>2. T \subseteq Nat
  OBVIOUS
<1>3. PICK k \in T : \A j \in T : ~ (<<j, k>> \in Before)
  BY <1>1, <1>2, WFMin
<1>4. \A j \in S : j < k => f[j] = g[j]
  BY <1>2, <1>3 DEF Before
<1> QED  BY <1>3, <1>4

\* Walking a list from its head meets its nodes, and then NULL.
LEMMA LengthFits ==
  ASSUME NEW len, NEW at, NEW gone, NEW out, NEW loose, Heap(heap, len, at, gone, out, loose),
         NEW l \in Cell, Is(heap, "list", l)
  PROVE  len[l] \in Nat /\ len[l] <= NumCells
<1> DEFINE f == [k \in 1 .. len[l] |-> at[l][k]]
<1>1. len[l] \in Nat /\ Apart(len, at) /\ ListAt(heap, len, at, loose, l)
  BY DEF Heap, Linked
<1>2. \A k \in 1 .. len[l] : at[l][k] \in Cell
  BY <1>1 DEF ListAt, NodeAt, Is
<1>3. IsFiniteSet(1 .. NumCells) /\ Cardinality(1 .. NumCells) = NumCells
  <2>1. 1 \in Int /\ NumCells \in Int /\ NumCells \in Nat
    BY ListAssumption
  <2>2. /\ IsFiniteSet(1 .. NumCells)
        /\ Cardinality(1 .. NumCells) = IF 1 > NumCells THEN 0 ELSE NumCells - 1 + 1
    BY <2>1, FS_Interval
  <2> QED  BY <2>1, <2>2
<1>4. IsFiniteSet(1 .. len[l]) /\ Cardinality(1 .. len[l]) = len[l]
  <2>1. 1 \in Int /\ len[l] \in Int
    BY <1>1
  <2>2. /\ IsFiniteSet(1 .. len[l])
        /\ Cardinality(1 .. len[l]) = IF 1 > len[l] THEN 0 ELSE len[l] - 1 + 1
    BY <2>1, FS_Interval
  <2> QED  BY <1>1, <2>2
<1>5. f \in [1 .. len[l] -> 1 .. NumCells]
  BY <1>2 DEF Cell
<1>6. \A j, k \in 1 .. len[l] : f[j] = f[k] => j = k
  BY <1>1 DEF Apart
<1> HIDE DEF f
<1>7. ASSUME NumCells < len[l] PROVE FALSE
  <2>1. Cardinality(1 .. NumCells) < Cardinality(1 .. len[l])
    BY <1>3, <1>4, <1>7
  <2>2. \E j, k \in 1 .. len[l] : j # k /\ f[j] = f[k]
    <3> DEFINE S == 1 .. len[l]
               T == 1 .. NumCells
    <3>1. IsFiniteSet(S) /\ IsFiniteSet(T) /\ Cardinality(T) < Cardinality(S) /\ f \in [S -> T]
      BY <1>3, <1>4, <1>5, <2>1
    <3> HIDE DEF S, T
    <3>2. \E j, k \in S : j # k /\ f[j] = f[k]
      BY <3>1, FS_PigeonHole
    <3> QED  BY <3>2 DEF S
  <2> QED  BY <1>6, <2>2
<1> QED  BY <1>1, <1>7, ListAssumption

LEMMA ChainIs ==
  ASSUME NEW len, NEW at, NEW gone, NEW out, Heap(heap, len, at, gone, out, NULL),
         NEW l \in Cell, Is(heap, "list", l)
  PROVE  Chain(l) = [k \in 1 .. len[l] |-> at[l][k]]
<1> DEFINE after == [n \in Cell \cup {NULL} |-> IF IsA("node", n) THEN Iter(l, n) ELSE NULL]
           Turn(g) == [k \in Cell |-> IF k = 1 THEN Iter(l, NULL) ELSE after[g[k - 1]]]
           met == CHOOSE g : g = Turn(g)
           F == [k \in Cell |-> IF k <= len[l] THEN at[l][k] ELSE NULL]
<1>1. Chain(l) = [k \in {i \in Cell : met[i] # NULL} |-> met[k]]
  BY DEF Chain
<1>2. len[l] \in Nat /\ len[l] <= NumCells /\ ListAt(heap, len, at, NULL, l) /\ l # NULL
  <2>1. len[l] \in Nat /\ len[l] <= NumCells
    BY LengthFits
  <2>2. ListAt(heap, len, at, NULL, l)
    BY DEF Heap, Linked
  <2> QED  BY <2>1, <2>2 DEF Cell, NULL
<1>3. \A k \in 1 .. len[l] :
        /\ k \in Cell /\ at[l][k] \in Cell /\ at[l][k] # NULL /\ IsA("node", at[l][k])
        /\ heap[at[l][k]].next = IF k = len[l] THEN NULL ELSE at[l][k + 1]
  <2> SUFFICES ASSUME NEW k \in 1 .. len[l]
               PROVE  /\ k \in Cell /\ at[l][k] \in Cell /\ at[l][k] # NULL /\ IsA("node", at[l][k])
                      /\ heap[at[l][k]].next = IF k = len[l] THEN NULL ELSE at[l][k + 1]
    OBVIOUS
  <2>1. NodeAt(heap, len, at, NULL, l, k)
    BY <1>2 DEF ListAt
  <2>2. k \in Cell
    BY <1>2, ListAssumption DEF Cell
  <2>3. at[l][k] \in Cell /\ IsA("node", at[l][k])
    BY <2>1 DEF NodeAt, Is, IsA
  <2>4. at[l][k] # NULL
    BY <2>3 DEF Cell, NULL
  <2> QED  BY <1>2, <2>1, <2>2, <2>3, <2>4 DEF NodeAt
<1>4. /\ \A k \in 1 .. len[l] : after[at[l][k]] = IF k = len[l] THEN NULL ELSE at[l][k + 1]
      /\ after[NULL] = NULL
      /\ Iter(l, NULL) = IF len[l] = 0 THEN NULL ELSE at[l][1]
  <2>1. \A k \in 1 .. len[l] : after[at[l][k]] = heap[at[l][k]].next
    BY <1>3 DEF Iter
  <2>2. after[NULL] = NULL
    BY DEF IsA, Cell, NULL
  <2>3. Iter(l, NULL) = IF len[l] = 0 THEN NULL ELSE at[l][1]
    BY <1>2 DEF ListAt, Iter
  <2> QED  BY <1>3, <2>1, <2>2, <2>3
<1> HIDE DEF after
<1>5. ASSUME NEW g, NEW k \in Cell, k # 1 => k - 1 \in Cell /\ g[k - 1] = F[k - 1]
      PROVE  Turn(g)[k] = F[k]
  <2>1. F[k] = IF k <= len[l] THEN at[l][k] ELSE NULL
    OBVIOUS
  <2>2. k \in Nat /\ k >= 1
    BY ListAssumption DEF Cell
  <2>3. CASE k = 1
    <3>1. Turn(g)[k] = Iter(l, NULL)
      BY <2>3
    <3>2. k <= len[l] <=> len[l] # 0
      BY <1>2, <2>3
    <3> QED  BY <1>4, <2>1, <2>3, <3>1, <3>2
  <2>4. CASE k # 1
    <3>1. Turn(g)[k] = after[F[k - 1]]
      BY <1>5, <2>4
    <3>2. F[k - 1] = IF k - 1 <= len[l] THEN at[l][k - 1] ELSE NULL
      BY <1>5, <2>4
    <3> HIDE DEF F, Turn
    <3>3. CASE k - 1 <= len[l]
      <4>1. k - 1 \in 1 .. len[l] /\ (k - 1 = len[l] <=> ~ (k <= len[l])) /\ k - 1 + 1 = k
        BY <1>2, <2>2, <2>4, <3>3
      <4>2. after[at[l][k - 1]] = IF k - 1 = len[l] THEN NULL ELSE at[l][k - 1 + 1]
        BY <1>4, <4>1
      <4> QED  BY <2>1, <3>1, <3>2, <3>3, <4>1, <4>2
    <3>4. CASE ~ (k - 1 <= len[l])
      <4>1. ~ (k <= len[l])
        BY <1>2, <2>2, <3>4
      <4> QED  BY <1>4, <2>1, <3>1, <3>2, <3>4, <4>1
    <3> QED  BY <3>3, <3>4
  <2> QED  BY <2>3, <2>4
<1>6. \A k \in Cell : k # 1 => k - 1 \in Cell
  BY ListAssumption DEF Cell
<1>7. F = Turn(F)
  <2>1. \A k \in Cell : Turn(F)[k] = F[k]
    BY <1>5, <1>6
  <2>2. F = [k \in Cell |-> F[k]] /\ Turn(F) = [k \in Cell |-> Turn(F)[k]]
    OBVIOUS
  <2> HIDE DEF F, Turn
  <2> QED  BY <2>1, <2>2
<1>8. met = Turn(met)
  <2> HIDE DEF F, Turn
  <2> QED  BY <1>7
<1> HIDE DEF met
<1>9. \A k \in Cell : met[k] = F[k]
  <2> HIDE DEF F, Turn
  <2>1. Cell \in SUBSET Nat
    BY ListAssumption DEF Cell
  <2>2. ASSUME NEW k \in Cell, \A j \in Cell : j < k => met[j] = F[j] PROVE met[k] = F[k]
    <3>1. k # 1 => k - 1 \in Cell /\ k - 1 < k
      BY <1>6, <2>1
    <3>2. Turn(met)[k] = F[k]
      BY <1>5, <2>2, <3>1
    <3> QED  BY <1>8, <3>2
  <2> QED  BY <2>1, <2>2, Determined
<1>10. {i \in Cell : met[i] # NULL} = 1 .. len[l]
  <2>1. \A i \in Cell : met[i] # NULL <=> i \in 1 .. len[l]
    <3> SUFFICES ASSUME NEW i \in Cell PROVE met[i] # NULL <=> i \in 1 .. len[l]
      OBVIOUS
    <3>1. met[i] = IF i <= len[l] THEN at[l][i] ELSE NULL
      BY <1>9
    <3>2. i <= len[l] <=> i \in 1 .. len[l]
      BY <1>2, ListAssumption DEF Cell
    <3> QED  BY <1>3, <3>1, <3>2
  <2> QED  BY <1>3, <2>1
<1>11. \A k \in 1 .. len[l] : met[k] = at[l][k]
  <2> SUFFICES ASSUME NEW k \in 1 .. len[l] PROVE met[k] = at[l][k]
    OBVIOUS
  <2>1. k \in Cell /\ k <= len[l]
    BY <1>2, <1>3
  <2> QED  BY <1>9, <2>1
<1> HIDE DEF F
<1> QED  BY <1>1, <1>10, <1>11

LEMMA ItemsAre ==
  ASSUME NEW len, NEW at, NEW gone, NEW out, Heap(heap, len, at, gone, out, NULL),
         NEW l \in Cell, Is(heap, "list", l)
  PROVE  /\ len[l] \in Nat
         /\ Chain(l) = [k \in 1 .. len[l] |-> at[l][k]] /\ Chain(l) \in Seq(Cell)
         /\ Items(l) = [k \in 1 .. len[l] |-> heap[at[l][k]].value] /\ Items(l) \in Seq(Cell)
         /\ \A k \in 1 .. len[l] : at[l][k] \in Cell /\ Is(heap, "node", at[l][k])
         /\ \A k \in 1 .. len[l] :
              /\ heap[at[l][k]].value \in Cell
              /\ Is(heap, IF l \in PadLists THEN "macro" ELSE "btn", heap[at[l][k]].value)
<1>1. len[l] \in Nat /\ ListAt(heap, len, at, NULL, l) /\ ValuesFit(heap, len, at)
  BY DEF Heap, Linked
<1>2. \A k \in 1 .. len[l] : at[l][k] \in Cell /\ Is(heap, "node", at[l][k])
  BY <1>1 DEF ListAt, NodeAt, Is
<1>3. \A k \in 1 .. len[l] :
        /\ heap[at[l][k]].value \in Cell
        /\ Is(heap, IF l \in PadLists THEN "macro" ELSE "btn", heap[at[l][k]].value)
  BY <1>1 DEF ValuesFit, Is
<1>4. Chain(l) = [k \in 1 .. len[l] |-> at[l][k]]
  BY ChainIs
<1> DEFINE c == [k \in 1 .. len[l] |-> at[l][k]]
           i == [k \in 1 .. len[l] |-> heap[at[l][k]].value]
<1>5. c \in Seq(Cell) /\ DOMAIN c = 1 .. len[l]
  BY <1>1, <1>2
<1>6. Values[c] = i
  <2>1. Values[c] = [k \in DOMAIN c |-> heap[c[k]].value]
    BY <1>5 DEF Values
  <2> QED  BY <1>5, <2>1
<1>7. i \in Seq(Cell)
  BY <1>1, <1>3
<1> QED  BY <1>1, <1>2, <1>3, <1>4, <1>5, <1>6, <1>7 DEF Items

LEMMA CellsOfAre ==
  ASSUME NEW len, NEW at, NEW gone, NEW out, Heap(heap, len, at, gone, out, NULL),
         NEW l \in Cell, Is(heap, "list", l)
  PROVE  /\ CellsOf(l) \subseteq Used /\ l \in CellsOf(l)
         /\ \A k \in 1 .. len[l] : at[l][k] \in CellsOf(l) /\ heap[at[l][k]].value \in CellsOf(l)
<1>1. /\ Chain(l) = [k \in 1 .. len[l] |-> at[l][k]]
      /\ Items(l) = [k \in 1 .. len[l] |-> heap[at[l][k]].value]
  BY ItemsAre
<1>2. In(Chain(l)) = {at[l][k] : k \in 1 .. len[l]}
  BY <1>1 DEF In
<1>3. In(Items(l)) = {heap[at[l][k]].value : k \in 1 .. len[l]}
  BY <1>1 DEF In
<1>4. \A kind \in {"btn", "list", "node", "macro"}, a \in Cell : Is(heap, kind, a) => a \in Used
  BY DEF Is, FREE, Used
<1>5. \A k \in 1 .. len[l] : at[l][k] \in Used
  BY <1>4, ItemsAre
<1>6. \A k \in 1 .. len[l] : heap[at[l][k]].value \in Used
  <2> SUFFICES ASSUME NEW k \in 1 .. len[l] PROVE heap[at[l][k]].value \in Used
    OBVIOUS
  <2>1. /\ heap[at[l][k]].value \in Cell
        /\ Is(heap, IF l \in PadLists THEN "macro" ELSE "btn", heap[at[l][k]].value)
    BY ItemsAre
  <2> QED  BY <1>4, <2>1
<1> QED  BY <1>2, <1>3, <1>4, <1>5, <1>6 DEF CellsOf

LEMMA UsedIsOwned ==
  ASSUME NEW len, NEW at, NEW gone, Sound(len, at, gone), pc = "idle"
  PROVE  Used = Owned
<1>1. Heap(heap, len, at, {}, Outs, NULL) /\ (macro # NULL => Is(heap, "macro", macro))
  BY DEF Sound, Control, Loose
<1>2. /\ heap \in [Cell -> Block] /\ Linked(heap, len, at, NULL) /\ NodesOwned(heap, len, at)
      /\ ValuesFit(heap, len, at) /\ ValuesOwned(heap, Outs) /\ PartsFit(heap, {})
      /\ ListsOwned(heap, {}) /\ PadsThere(heap)
  BY <1>1 DEF Heap
<1>3. \A m \in Cell : Is(heap, "macro", m) => Whole(heap, {}, m)
  BY DEF Whole
<1> DEFINE Installed == UNION {In(Items(ListOf(p))) : p \in Pads}
<1>4. /\ \A p \in Pads : CellsOf(ListOf(p)) \subseteq Owned
      /\ \A m \in Installed : MacroCells(m) \subseteq Owned
      /\ macro # NULL => MacroCells(macro) \subseteq Owned
      /\ \A a \in Owned : \/ \E p \in Pads : a \in CellsOf(ListOf(p))
                          \/ \E m \in Installed : a \in MacroCells(m)
                          \/ macro # NULL /\ a \in MacroCells(macro)
  <2> DEFINE A == {CellsOf(ListOf(p)) : p \in Pads}
             B == {MacroCells(m) : m \in Installed}
             C == IF macro = NULL THEN {} ELSE MacroCells(macro)
  <2>1. Owned = (UNION (A \cup B)) \cup C
    BY DEF Owned
  <2>2. /\ \A p \in Pads : CellsOf(ListOf(p)) \in A
        /\ \A S \in A : \E p \in Pads : S = CellsOf(ListOf(p))
    OBVIOUS
  <2>3. /\ \A m \in Installed : MacroCells(m) \in B
        /\ \A S \in B : \E m \in Installed : S = MacroCells(m)
    <3> HIDE DEF Installed
    <3> QED  OBVIOUS
  <2>4. macro # NULL => C = MacroCells(macro)
    OBVIOUS
  <2>5. \A a \in C : macro # NULL /\ a \in MacroCells(macro)
    OBVIOUS
  <2> HIDE DEF A, B, C, Installed
  <2>6. \A p \in Pads : CellsOf(ListOf(p)) \subseteq Owned
    BY <2>1, <2>2
  <2>7. \A m \in Installed : MacroCells(m) \subseteq Owned
    BY <2>1, <2>3
  <2>8. macro # NULL => MacroCells(macro) \subseteq Owned
    BY <2>1, <2>4
  <2>9. ASSUME NEW a \in Owned
        PROVE  \/ \E p \in Pads : a \in CellsOf(ListOf(p))
               \/ \E m \in Installed : a \in MacroCells(m)
               \/ macro # NULL /\ a \in MacroCells(macro)
    <3>1. CASE a \in C
      BY <2>5, <3>1
    <3>2. CASE a \in UNION (A \cup B)
      <4>1. PICK S \in A \cup B : a \in S
        BY <3>2
      <4> QED  BY <2>2, <2>3, <4>1
    <3> QED  BY <2>1, <3>1, <3>2
  <2> QED  BY <2>6, <2>7, <2>8, <2>9
<1>5. \A l \in PadLists : \E p \in Pads : l = ListOf(p)
  <2> SUFFICES ASSUME NEW l \in PadLists PROVE \E p \in Pads : l = ListOf(p)
    OBVIOUS
  <2>1. l - 1 \in Pads /\ l = l - 1 + 1
    BY ListAssumption DEF PadLists, Pads
  <2> QED  BY <2>1 DEF ListOf
<1>6. ASSUME NEW m \in Installed PROVE Is(heap, "macro", m) /\ m \in Cell
  <2>1. PICK p \in Pads : m \in In(Items(ListOf(p)))
    BY <1>6
  <2>2. ListOf(p) \in PadLists /\ ListOf(p) \in Cell /\ Is(heap, "list", ListOf(p))
    BY <1>2, PadListsAreCells DEF PadsThere
  <2>3. Items(ListOf(p)) = [k \in 1 .. len[ListOf(p)] |-> heap[at[ListOf(p)][k]].value]
    BY <1>1, <2>2, ItemsAre
  <2>4. PICK k \in 1 .. len[ListOf(p)] : m = heap[at[ListOf(p)][k]].value
    BY <2>1, <2>3 DEF In
  <2>5. Is(heap, "macro", m)
    BY <1>2, <2>2, <2>4 DEF ValuesFit
  <2> QED  BY <2>5 DEF Is
<1>7. ASSUME NEW m \in Cell, Is(heap, "macro", m) PROVE MacroCells(m) \subseteq Owned
  <2>1. CASE m \in Outs
    BY <1>4, <2>1 DEF Outs
  <2>2. CASE m \notin Outs
    <3>1. PICK a \in Cell : Is(heap, "node", a) /\ heap[a].value = m
      BY <1>2, <1>7, <2>2 DEF ValuesOwned
    <3>2. PICK l \in Cell : \E k \in 1 .. len[l] : a = at[l][k]
      BY <1>2, <3>1 DEF NodesOwned
    <3>3. PICK k \in 1 .. len[l] : a = at[l][k]
      BY <3>2
    <3>4. Is(heap, IF l \in PadLists THEN "macro" ELSE "btn", m)
      BY <1>2, <3>1, <3>3 DEF ValuesFit
    <3>5. l \in PadLists
      BY <1>7, <3>4 DEF Is
    <3>6. PICK p \in Pads : l = ListOf(p)
      BY <1>5, <3>5
    <3>7. Is(heap, "list", l)
      BY <1>2, <3>5 DEF PadsThere
    <3>8. Items(l) = [j \in 1 .. len[l] |-> heap[at[l][j]].value]
      BY <1>1, <3>7, ItemsAre
    <3>9. m \in In(Items(l))
      BY <3>1, <3>3, <3>8 DEF In
    <3>10. m \in Installed
      BY <3>6, <3>9
    <3> QED  BY <1>4, <3>10
  <2> QED  BY <2>1, <2>2
<1>8. ASSUME NEW l \in Cell, Is(heap, "list", l) PROVE CellsOf(l) \subseteq Owned
  <2>1. CASE l \in PadLists
    BY <1>4, <1>5, <2>1
  <2>2. CASE l \notin PadLists
    <3>1. PICK m \in Cell : Whole(heap, {}, m) /\ l \in {heap[m].act, heap[m].press}
      BY <1>2, <1>8, <2>2 DEF ListsOwned
    <3>2. MacroCells(m) \subseteq Owned
      BY <1>7, <3>1 DEF Whole
    <3> QED  BY <3>1, <3>2 DEF MacroCells
  <2> QED  BY <2>1, <2>2
<1>9. ASSUME NEW a \in Cell, Is(heap, "node", a) PROVE a \in Owned /\ heap[a].value \in Owned
  <2>1. PICK l \in Cell : \E k \in 1 .. len[l] : a = at[l][k]
    BY <1>2, <1>9 DEF NodesOwned
  <2>2. PICK k \in 1 .. len[l] : a = at[l][k]
    BY <2>1
  <2>3. Is(heap, "list", l)
    BY <1>2, <2>2 DEF Linked
  <2>4. at[l][k] \in CellsOf(l) /\ heap[at[l][k]].value \in CellsOf(l)
    BY <1>1, <2>3, CellsOfAre
  <2> QED  BY <1>8, <2>2, <2>3, <2>4
<1>10. ASSUME NEW a \in Used PROVE a \in Owned
  <2>1. /\ a \in Cell
        /\ \/ Is(heap, "btn", a) \/ Is(heap, "list", a)
           \/ Is(heap, "node", a) \/ Is(heap, "macro", a)
    <3>1. a \in Cell /\ heap[a] # FREE
      BY DEF Used
    <3> QED  BY <1>2, <3>1, Kinds DEF Is
  <2>2. CASE Is(heap, "btn", a)
    <3>1. a \notin Outs
      BY <1>1, <2>2 DEF Outs, Is
    <3>2. PICK b \in Cell : Is(heap, "node", b) /\ heap[b].value = a
      BY <1>2, <2>1, <2>2, <3>1 DEF ValuesOwned
    <3> QED  BY <1>9, <3>2
  <2>3. CASE Is(heap, "list", a)
    <3>1. a \in CellsOf(a)
      BY <1>1, <2>1, <2>3, CellsOfAre
    <3> QED  BY <1>8, <2>1, <2>3, <3>1
  <2>4. CASE Is(heap, "node", a)
    BY <1>9, <2>1, <2>4
  <2>5. CASE Is(heap, "macro", a)
    <3>1. a \in MacroCells(a)
      BY DEF MacroCells
    <3> QED  BY <1>7, <2>1, <2>5, <3>1
  <2> QED  BY <2>1, <2>2, <2>3, <2>4, <2>5
<1>11. ASSUME NEW l \in Cell, Is(heap, "list", l) PROVE CellsOf(l) \subseteq Used
  BY <1>1, <1>11, CellsOfAre
<1>12. ASSUME NEW m \in Cell, Is(heap, "macro", m) PROVE MacroCells(m) \subseteq Used
  <2>1. /\ Is(heap, "list", heap[m].act) /\ heap[m].act \in Cell
        /\ Is(heap, "list", heap[m].press) /\ heap[m].press \in Cell
    BY <1>2, <1>3, <1>12 DEF PartsFit, Is
  <2>2. m \in Used
    BY <1>12 DEF Used, Is, FREE
  <2> QED  BY <1>11, <2>1, <2>2 DEF MacroCells
<1>13. ASSUME NEW a \in Owned PROVE a \in Used
  <2>1. \A p \in Pads : CellsOf(ListOf(p)) \subseteq Used
    BY <1>2, <1>11, PadListsAreCells DEF PadsThere
  <2>2. \A m \in Installed : MacroCells(m) \subseteq Used
    BY <1>6, <1>12
  <2>3. macro # NULL => MacroCells(macro) \subseteq Used
    BY <1>1, <1>12 DEF Is
  <2> QED  BY <1>4, <2>1, <2>2, <2>3
<1> QED  BY <1>10, <1>13

\* Between two calls every cell that malloc() gave is in the lists of a pad or in the
\* macro that is put together: clearing frees all that it should.
THEOREM NothingLeaks == Spec => []NoLeak
<1>1. IInv => NoLeak
  BY UsedIsOwned DEF IInv, NoLeak
<1> QED  BY <1>1, AlwaysSound, PTL

\* list_get() gets what the walk meets there.
LEMMA GetIs ==
  ASSUME NEW len, NEW at, NEW gone, NEW out, Heap(heap, len, at, gone, out, NULL),
         NEW l \in Cell, Is(heap, "list", l), NEW i \in Nat, i < len[l]
  PROVE  Get(l, i) = heap[at[l][i + 1]].value
<1> DEFINE Turn(g) == [k \in 0 .. i |-> IF k = 0 THEN heap[l].head ELSE heap[g[k - 1]].next]
           walk == CHOOSE g : g = Turn(g)
           F == [k \in 0 .. i |-> at[l][k + 1]]
<1>1. Get(l, i) = IF i >= heap[l].size THEN NULL ELSE heap[walk[i]].value
  BY DEF Get
<1>2. len[l] \in Nat /\ ListAt(heap, len, at, NULL, l) /\ l # NULL
  BY DEF Heap, Linked, Cell, NULL
<1>3. heap[l].size = len[l] /\ heap[l].head = at[l][1]
  BY <1>2 DEF ListAt
<1>4. \A k \in 1 .. len[l] : heap[at[l][k]].next = IF k = len[l] THEN NULL ELSE at[l][k + 1]
  BY <1>2 DEF ListAt, NodeAt
<1>5. ASSUME NEW g, NEW k \in 0 .. i, k # 0 => k - 1 \in 0 .. i /\ g[k - 1] = F[k - 1]
      PROVE  Turn(g)[k] = F[k]
  <2>1. F[k] = at[l][k + 1]
    OBVIOUS
  <2>2. CASE k = 0
    BY <1>3, <2>1, <2>2
  <2>3. CASE k # 0
    <3>1. Turn(g)[k] = heap[F[k - 1]].next
      BY <1>5, <2>3
    <3>2. F[k - 1] = at[l][k - 1 + 1]
      BY <1>5, <2>3
    <3> HIDE DEF F, Turn
    <3>3. k - 1 + 1 = k /\ k \in 1 .. len[l] /\ k # len[l]
      BY <1>2, <2>3
    <3> QED  BY <1>4, <2>1, <3>1, <3>2, <3>3
  <2> QED  BY <2>2, <2>3
<1>6. \A k \in 0 .. i : k # 0 => k - 1 \in 0 .. i /\ k - 1 < k
  OBVIOUS
<1>7. F = Turn(F)
  <2>1. \A k \in 0 .. i : Turn(F)[k] = F[k]
    BY <1>5, <1>6
  <2>2. F = [k \in 0 .. i |-> F[k]] /\ Turn(F) = [k \in 0 .. i |-> Turn(F)[k]]
    OBVIOUS
  <2> HIDE DEF F, Turn
  <2> QED  BY <2>1, <2>2
<1>8. walk = Turn(walk)
  <2> HIDE DEF F, Turn
  <2> QED  BY <1>7
<1> HIDE DEF walk
<1>9. \A k \in 0 .. i : walk[k] = F[k]
  <2> HIDE DEF F, Turn
  <2> DEFINE S == 0 .. i
  <2>1. S \in SUBSET Nat
    OBVIOUS
  <2>2. ASSUME NEW k \in S, \A j \in S : j < k => walk[j] = F[j] PROVE walk[k] = F[k]
    <3>1. Turn(walk)[k] = F[k]
      BY <1>5, <1>6, <2>2
    <3> QED  BY <1>8, <3>1
  <2> HIDE DEF S
  <2>3. \A k \in S : walk[k] = F[k]
    BY <2>1, <2>2, Determined
  <2> QED  BY <2>3 DEF S
<1>10. walk[i] = at[l][i + 1]
  BY <1>9
<1> QED  BY <1>1, <1>2, <1>3, <1>10

\* list_length(), list_get(), the iteration of list_iter() and the previous pointers
\* tell the same of every list.
THEOREM WalksAlwaysAgree == Spec => []WalksAgree
<1>1. IInv => WalksAgree
  <2> SUFFICES ASSUME IInv, pc = "idle", NEW l \in Cell, IsA("list", l) PROVE Agree(l)
    BY DEF WalksAgree
  <2>1. PICK len, at, gone : Sound(len, at, gone)
    BY DEF IInv
  <2>2. Heap(heap, len, at, gone, Outs, NULL) /\ Is(heap, "list", l)
    BY <2>1 DEF Sound, Loose, IsA, Is
  <2>3. len[l] \in Nat /\ ListAt(heap, len, at, NULL, l) /\ l # NULL
    BY <2>2 DEF Heap, Linked, Cell, NULL
  <2> DEFINE c == Chain(l)
  <2>4. c = [k \in 1 .. len[l] |-> at[l][k]]
    BY <2>2, ChainIs
  <2>5. Len(c) = len[l] /\ DOMAIN c = 1 .. len[l] /\ \A k \in DOMAIN c : c[k] = at[l][k]
    BY <2>3, <2>4
  <2> HIDE DEF c
  <2>6. Length(l) = len[l]
    BY <2>3 DEF ListAt, Length
  <2>7. ASSUME NEW k \in DOMAIN c PROVE Get(l, k - 1) = heap[c[k]].value
    <3>1. k - 1 \in Nat /\ k - 1 < len[l] /\ k - 1 + 1 = k
      BY <2>3, <2>5
    <3>2. Get(l, k - 1) = heap[at[l][k - 1 + 1]].value
      BY <2>2, <3>1, GetIs
    <3> QED  BY <2>5, <3>1, <3>2
  <2>8. Get(l, Length(l)) = NULL
    <3>1. heap[l].size >= heap[l].size
      BY <2>3 DEF ListAt
    <3> QED  BY <3>1 DEF Get, Length
  <2>9. ASSUME NEW k \in DOMAIN c
        PROVE  heap[c[k]].previous = IF k = 1 THEN NULL ELSE c[k - 1]
    <3>1. k \in 1 .. len[l] /\ (k # 1 => k - 1 \in 1 .. len[l])
      BY <2>3, <2>5
    <3>2. NodeAt(heap, len, at, NULL, l, k)
      BY <2>3, <3>1 DEF ListAt
    <3> QED  BY <2>5, <3>1, <3>2 DEF NodeAt
  <2> QED  BY <2>5, <2>6, <2>7, <2>8, <2>9 DEF Agree, c
<1> QED  BY <1>1, AlwaysSound, PTL
-------------------------------------------------------------------------------
\* The lists as MacroLists has them.
AbsLists == [p \in Pads |-> IF pc = "idle" THEN Macros[Items(ListOf(p))] ELSE <<>>]
AbsMacro == IF macro = NULL THEN None ELSE MacroAt(macro)

BtnsOf(h, len, at, l)    == [k \in 1 .. len[l] |-> h[h[at[l][k]].value].btn]
MacroOf(h, len, at, m)   == [act   |-> BtnsOf(h, len, at, h[m].act),
                             press |-> BtnsOf(h, len, at, h[m].press)]
MacrosOf(h, len, at, l)  == [k \in 1 .. len[l] |-> MacroOf(h, len, at, h[at[l][k]].value)]
ListsOf(h, len, at)      == [p \in Pads |-> MacrosOf(h, len, at, ListOf(p))]
StagedOf(h, len, at, m)  == IF m = NULL THEN None ELSE MacroOf(h, len, at, m)

MacroVal == [act : Seq(Btn), press : Seq(Btn)]

LEMMA BtnsAre ==
  ASSUME NEW h, NEW len, NEW at, NEW gone, NEW out, Heap(h, len, at, gone, out, NULL),
         NEW l \in Cell, l \notin PadLists
  PROVE  /\ BtnsOf(h, len, at, l) \in Seq(Btn) /\ len[l] \in Nat
         /\ Len(BtnsOf(h, len, at, l)) = len[l]
<1> DEFINE n == len[l]
           s == BtnsOf(h, len, at, l)
<1>1. h \in [Cell -> Block] /\ n \in Nat /\ ValuesFit(h, len, at)
  BY DEF Heap
<1>2. \A k \in 1 .. n : h[h[at[l][k]].value].btn \in Btn
  <2> SUFFICES ASSUME NEW k \in 1 .. n PROVE h[h[at[l][k]].value].btn \in Btn
    OBVIOUS
  <2>1. Is(h, "btn", h[at[l][k]].value)
    BY <1>1 DEF ValuesFit
  <2>2. h[h[at[l][k]].value] \in [kind : {"btn"}, btn : Btn]
    BY <1>1, <2>1, Kinds DEF Is
  <2> QED  BY <2>2
<1>3. s = [k \in 1 .. n |-> h[h[at[l][k]].value].btn]
  BY DEF BtnsOf
<1> HIDE DEF n, s
<1>4. s \in [1 .. n -> Btn]
  BY <1>2, <1>3
<1>5. s \in Seq(Btn) /\ Len(s) = n
  BY <1>1, <1>4
<1> QED  BY <1>1, <1>5 DEF n, s

LEMMA MacroIs ==
  ASSUME NEW h, NEW len, NEW at, NEW gone, NEW out, Heap(h, len, at, gone, out, NULL),
         NEW m \in Cell, Whole(h, gone, m)
  PROVE  MacroOf(h, len, at, m) \in MacroVal
<1>1. /\ Is(h, "list", h[m].act) /\ Is(h, "list", h[m].press)
      /\ h[m].act \notin PadLists /\ h[m].press \notin PadLists
  BY DEF Heap, PartsFit
<1>2. BtnsOf(h, len, at, h[m].act) \in Seq(Btn) /\ BtnsOf(h, len, at, h[m].press) \in Seq(Btn)
  BY <1>1, BtnsAre DEF Is
<1> QED  BY <1>2 DEF MacroOf, MacroVal

LEMMA MacrosAre ==
  ASSUME NEW h, NEW len, NEW at, NEW out, Heap(h, len, at, {}, out, NULL),
         NEW l \in PadLists, l \in Cell
  PROVE  /\ MacrosOf(h, len, at, l) \in Seq(MacroVal) /\ len[l] \in Nat
         /\ Len(MacrosOf(h, len, at, l)) = len[l]
<1> DEFINE n == len[l]
           s == MacrosOf(h, len, at, l)
           e(k) == MacroOf(h, len, at, h[at[l][k]].value)
<1>1. n \in Nat /\ ValuesFit(h, len, at)
  BY DEF Heap
<1>2. \A k \in 1 .. n : e(k) \in MacroVal
  <2> SUFFICES ASSUME NEW k \in 1 .. n PROVE e(k) \in MacroVal
    OBVIOUS
  <2>1. Is(h, "macro", h[at[l][k]].value)
    BY <1>1 DEF ValuesFit
  <2>2. h[at[l][k]].value \in Cell /\ Whole(h, {}, h[at[l][k]].value)
    BY <2>1 DEF Is, Whole
  <2> QED  BY <2>2, MacroIs
<1>3. s = [k \in 1 .. n |-> e(k)]
  BY DEF MacrosOf
<1> HIDE DEF n, s, e
<1>4. s \in [1 .. n -> MacroVal]
  BY <1>2, <1>3
<1>5. s \in Seq(MacroVal) /\ Len(s) = n
  BY <1>1, <1>4
<1> QED  BY <1>1, <1>5 DEF n, s

LEMMA Shown ==
  ASSUME NEW len, NEW at, NEW gone, Sound(len, at, gone), pc = "idle"
  PROVE  AbsLists = ListsOf(heap, len, at) /\ AbsMacro = StagedOf(heap, len, at, macro)
<1>1. Heap(heap, len, at, {}, Outs, NULL) /\ (macro # NULL => Is(heap, "macro", macro))
  BY DEF Sound, Control, Loose
<1>2. ASSUME NEW l \in Cell, Is(heap, "list", l), l \notin PadLists
      PROVE  Buttons[Items(l)] = BtnsOf(heap, len, at, l)
  <2> DEFINE i == Items(l)
  <2>1. i \in Seq(Cell) /\ i = [k \in 1 .. len[l] |-> heap[at[l][k]].value]
    BY <1>1, <1>2, ItemsAre
  <2> HIDE DEF i
  <2>2. Buttons[i] = [k \in DOMAIN i |-> heap[i[k]].btn]
    BY <2>1 DEF Buttons
  <2>3. DOMAIN i = 1 .. len[l] /\ \A k \in 1 .. len[l] : i[k] = heap[at[l][k]].value
    BY <2>1
  <2>4. Buttons[i] = [k \in 1 .. len[l] |-> heap[heap[at[l][k]].value].btn]
    BY <2>2, <2>3
  <2> QED  BY <2>4 DEF BtnsOf, i
<1>3. ASSUME NEW m \in Cell, Is(heap, "macro", m)
      PROVE  MacroAt(m) = MacroOf(heap, len, at, m)
  <2>1. /\ Is(heap, "list", heap[m].act) /\ Is(heap, "list", heap[m].press)
        /\ heap[m].act \notin PadLists /\ heap[m].press \notin PadLists
    BY <1>1, <1>3 DEF Heap, PartsFit, Whole
  <2>2. /\ Buttons[Items(heap[m].act)] = BtnsOf(heap, len, at, heap[m].act)
        /\ Buttons[Items(heap[m].press)] = BtnsOf(heap, len, at, heap[m].press)
    BY <1>2, <2>1 DEF Is
  <2> QED  BY <2>2 DEF MacroAt, MacroOf
<1>4. ASSUME NEW p \in Pads
      PROVE  Macros[Items(ListOf(p))] = MacrosOf(heap, len, at, ListOf(p))
  <2> DEFINE l == ListOf(p)
             i == Items(l)
  <2>1. l \in Cell /\ l \in PadLists /\ Is(heap, "list", l)
    BY <1>1, PadListsAreCells DEF Heap, PadsThere
  <2> HIDE DEF l
  <2>2. /\ i \in Seq(Cell) /\ i = [k \in 1 .. len[l] |-> heap[at[l][k]].value]
        /\ \A k \in 1 .. len[l] : Is(heap, "macro", heap[at[l][k]].value)
    BY <1>1, <2>1, ItemsAre
  <2> HIDE DEF i
  <2>3. Macros[i] = [k \in DOMAIN i |-> MacroAt(i[k])]
    BY <2>2 DEF Macros
  <2>4. DOMAIN i = 1 .. len[l] /\ \A k \in 1 .. len[l] : i[k] = heap[at[l][k]].value
    BY <2>2
  <2>5. \A k \in 1 .. len[l] : MacroAt(i[k]) = MacroOf(heap, len, at, heap[at[l][k]].value)
    BY <1>3, <2>2, <2>4 DEF Is
  <2>6. Macros[i] = [k \in 1 .. len[l] |-> MacroOf(heap, len, at, heap[at[l][k]].value)]
    BY <2>3, <2>4, <2>5
  <2> QED  BY <2>6 DEF MacrosOf, i, l
<1>5. AbsLists = ListsOf(heap, len, at)
  BY <1>4 DEF AbsLists, ListsOf
<1>6. AbsMacro = StagedOf(heap, len, at, macro)
  BY <1>1, <1>3 DEF AbsMacro, StagedOf, Is
<1> QED  BY <1>5, <1>6

\* The same, to be had of the next state too.
ShownNow ==
  \A len, at, gone : Sound(len, at, gone) /\ pc = "idle" =>
    AbsLists = ListsOf(heap, len, at) /\ AbsMacro = StagedOf(heap, len, at, macro)

LEMMA ShownNext == ShownNow'
<1>1. ShownNow
  BY Shown DEF ShownNow
<1> QED  BY <1>1, PTL

\* What stays of the lists, and what comes to one at its end.
SameList(len, at, len2, at2, l) ==
  len2[l] = len[l] /\ \A k \in 1 .. len[l] : at2[l][k] = at[l][k]

LEMMA SameBtns ==
  ASSUME NEW h, NEW len, NEW at, NEW gone, NEW out, Heap(h, len, at, gone, out, NULL),
         NEW l \in Cell, Is(h, "list", l), l \notin PadLists,
         NEW h2, Kept(h, h2), NEW len2, NEW at2, SameList(len, at, len2, at2, l)
  PROVE  BtnsOf(h2, len2, at2, l) = BtnsOf(h, len, at, l)
<1>1. len[l] \in Nat /\ ListAt(h, len, at, NULL, l) /\ ValuesFit(h, len, at)
  BY DEF Heap, Linked
<1>2. \A k \in 1 .. len[l] : h2[h2[at2[l][k]].value].btn = h[h[at[l][k]].value].btn
  <2> SUFFICES ASSUME NEW k \in 1 .. len[l]
               PROVE  h2[h2[at2[l][k]].value].btn = h[h[at[l][k]].value].btn
    OBVIOUS
  <2>1. Is(h, "node", at[l][k])
    BY <1>1 DEF ListAt, NodeAt
  <2>2. Is(h, "btn", h[at[l][k]].value)
    BY <1>1 DEF ValuesFit
  <2>3. at2[l][k] = at[l][k]
    BY DEF SameList
  <2>4. h2[at[l][k]].value = h[at[l][k]].value
    BY <2>1 DEF Kept, Is
  <2>5. h2[h[at[l][k]].value] = h[h[at[l][k]].value]
    BY <2>2 DEF Kept, Is
  <2> QED  BY <2>3, <2>4, <2>5
<1>3. len2[l] = len[l]
  BY DEF SameList
<1> QED  BY <1>2, <1>3 DEF BtnsOf

LEMMA SameMacro ==
  ASSUME NEW h, NEW len, NEW at, NEW gone, NEW out, Heap(h, len, at, gone, out, NULL),
         NEW m \in Cell, Whole(h, gone, m),
         NEW h2, Kept(h, h2), NEW len2, NEW at2,
         SameList(len, at, len2, at2, h[m].act), SameList(len, at, len2, at2, h[m].press)
  PROVE  MacroOf(h2, len2, at2, m) = MacroOf(h, len, at, m)
<1>1. /\ Is(h, "list", h[m].act) /\ Is(h, "list", h[m].press)
      /\ h[m].act \in Cell /\ h[m].press \in Cell
      /\ h[m].act \notin PadLists /\ h[m].press \notin PadLists
  BY DEF Heap, PartsFit, Is
<1>2. h2[m] = h[m]
  BY DEF Whole, Kept
<1>3. BtnsOf(h2, len2, at2, h[m].act) = BtnsOf(h, len, at, h[m].act)
  BY <1>1, SameBtns
<1>4. BtnsOf(h2, len2, at2, h[m].press) = BtnsOf(h, len, at, h[m].press)
  BY <1>1, SameBtns
<1> QED  BY <1>2, <1>3, <1>4 DEF MacroOf

\* Nothing happens to the lists of the macros that a pad has.
MacrosSame(h, len, at, len2, at2, l) ==
  \A k \in 1 .. len[l] : LET m == h[at[l][k]].value
                         IN  /\ SameList(len, at, len2, at2, h[m].act)
                             /\ SameList(len, at, len2, at2, h[m].press)

LEMMA SameValues ==
  ASSUME NEW h, NEW len, NEW at, NEW out, Heap(h, len, at, {}, out, NULL),
         NEW l \in Cell, l \in PadLists, NEW h2, Kept(h, h2), NEW len2, NEW at2,
         MacrosSame(h, len, at, len2, at2, l), NEW k \in 1 .. len[l], at2[l][k] = at[l][k]
  PROVE  /\ MacroOf(h2, len2, at2, h2[at2[l][k]].value) = MacroOf(h, len, at, h[at[l][k]].value)
         /\ MacroOf(h, len, at, h[at[l][k]].value) \in MacroVal
<1> DEFINE m == h[at[l][k]].value
<1>1. Is(h, "list", l) /\ ListAt(h, len, at, NULL, l) /\ ValuesFit(h, len, at)
  BY DEF Heap, PadsThere, Linked
<1>2. Is(h, "node", at[l][k]) /\ Is(h, "macro", m)
  BY <1>1 DEF ListAt, NodeAt, ValuesFit
<1>3. h2[at2[l][k]].value = m
  BY <1>2 DEF Kept, Is
<1>4. SameList(len, at, len2, at2, h[m].act) /\ SameList(len, at, len2, at2, h[m].press)
  BY DEF MacrosSame
<1>5. m \in Cell /\ Whole(h, {}, m)
  BY <1>2 DEF Whole, Is
<1> HIDE DEF m
<1>6. MacroOf(h2, len2, at2, m) = MacroOf(h, len, at, m)
  BY <1>4, <1>5, SameMacro
<1>7. MacroOf(h, len, at, m) \in MacroVal
  BY <1>5, MacroIs
<1> QED  BY <1>3, <1>6, <1>7 DEF m

LEMMA SamePadList ==
  ASSUME NEW h, NEW len, NEW at, NEW out, Heap(h, len, at, {}, out, NULL),
         NEW l \in Cell, l \in PadLists, NEW h2, Kept(h, h2), NEW len2, NEW at2,
         SameList(len, at, len2, at2, l), MacrosSame(h, len, at, len2, at2, l)
  PROVE  MacrosOf(h2, len2, at2, l) = MacrosOf(h, len, at, l)
<1>1. \A k \in 1 .. len[l] :
        MacroOf(h2, len2, at2, h2[at2[l][k]].value) = MacroOf(h, len, at, h[at[l][k]].value)
  <2> SUFFICES ASSUME NEW k \in 1 .. len[l]
               PROVE  MacroOf(h2, len2, at2, h2[at2[l][k]].value)
                        = MacroOf(h, len, at, h[at[l][k]].value)
    OBVIOUS
  <2>1. at2[l][k] = at[l][k]
    BY DEF SameList
  <2> QED  BY <2>1, SameValues
<1>2. len2[l] = len[l]
  BY DEF SameList
<1> QED  BY <1>1, <1>2 DEF MacrosOf

Places(len, at) == len \in [Cell -> Nat] /\ at \in [Cell -> [Nat -> Cell]]

Extended(len, at, len2, at2, l, n) ==
  /\ \A m \in Cell \ {l} : SameList(len, at, len2, at2, m)
  /\ len2[l] = len[l] + 1 /\ at2[l][len[l] + 1] = n
  /\ \A k \in 1 .. len[l] : at2[l][k] = at[l][k]

LEMMA LongerIs ==
  ASSUME NEW len, NEW at, Places(len, at), NEW l \in Cell, NEW n \in Cell,
         NEW len2, NEW at2, Longer(len, at, len2, at2, l, n)
  PROVE  Extended(len, at, len2, at2, l, n)
<1> USE DEF Places
<1>1. len2 = [len EXCEPT ![l] = @ + 1] /\ at2 = [at EXCEPT ![l][len[l] + 1] = n]
  BY DEF Longer
<1>2. \A m \in Cell \ {l} : len2[m] = len[m] /\ at2[m] = at[m]
  BY <1>1
<1>3. len2[l] = len[l] + 1 /\ at2[l] = [at[l] EXCEPT ![len[l] + 1] = n]
  BY <1>1
<1>4. len[l] \in Nat
  OBVIOUS
<1>7. len[l] + 1 \in Nat
  BY ONLY <1>4
<1>8. at[l] \in [Nat -> Cell]
  OBVIOUS
<1>5. at2[l][len[l] + 1] = n
  BY <1>3, <1>7, <1>8
<1>6. \A k \in 1 .. len[l] : at2[l][k] = at[l][k]
  BY <1>3, <1>4, <1>8
<1> QED  BY <1>2, <1>3, <1>5, <1>6 DEF SameList, Extended

LEMMA Appended ==
  ASSUME NEW S, NEW n \in Nat, NEW s \in Seq(S), Len(s) = n, NEW t \in Seq(S), Len(t) = n + 1,
         \A k \in 1 .. n : t[k] = s[k], NEW e \in S, t[n + 1] = e
  PROVE  t = Append(s, e)
<1>1. /\ Append(s, e) \in Seq(S) /\ Len(Append(s, e)) = n + 1
      /\ \A k \in 1 .. n : Append(s, e)[k] = s[k]
      /\ Append(s, e)[n + 1] = e
  BY AppendProperties
<1>2. \A k \in 1 .. Len(t) : t[k] = Append(s, e)[k]
  <2> SUFFICES ASSUME NEW k \in 1 .. n + 1 PROVE t[k] = Append(s, e)[k]
    OBVIOUS
  <2>1. k \in 1 .. n \/ k = n + 1
    OBVIOUS
  <2> QED  BY <1>1, <2>1
<1> QED  BY <1>1, <1>2, SeqEqual

\* Each call does to the sequences what MacroLists wants of it: an empty macro, ...
LEMMA MacroInitKeeps ==
  ASSUME IInv, MacroInit
  PROVE  Lists!MacroInit
<1>1. PICK len, at, gone : Sound(len, at, gone)
  BY DEF IInv
<1>2. pc = "idle" /\ macro = NULL /\ pc' = "idle"
  BY DEF MacroInit
<1>3. /\ Heap(heap, len, at, {}, {}, NULL) /\ len \in [Cell -> Nat]
      /\ AbsLists = ListsOf(heap, len, at)
  BY <1>1, <1>2, Shown DEF Sound, Control, Outs, Loose, Heap
<1>4. /\ Sound(len, at, {})' /\ Kept(heap, heap')
      /\ macro' # NULL /\ macro' \in Cell
      /\ heap'[macro'].act \in Cell /\ len[heap'[macro'].act] = 0
      /\ heap'[macro'].press \in Cell /\ len[heap'[macro'].press] = 0
  BY <1>1, MacroInitSound
<1>5. AbsLists' = ListsOf(heap', len, at) /\ AbsMacro' = StagedOf(heap', len, at, macro')
  BY <1>2, <1>4, ShownNext DEF ShownNow
<1>6. ASSUME NEW p \in Pads
      PROVE  MacrosOf(heap', len, at, ListOf(p)) = MacrosOf(heap, len, at, ListOf(p))
  <2>1. /\ SameList(len, at, len, at, ListOf(p))
        /\ MacrosSame(heap, len, at, len, at, ListOf(p))
    BY DEF SameList, MacrosSame
  <2> QED  BY <1>3, <1>4, <2>1, PadListsAreCells, SamePadList
<1>7. AbsLists' = AbsLists
  BY <1>3, <1>5, <1>6 DEF ListsOf
<1>8. AbsMacro' = [act |-> <<>>, press |-> <<>>]
  <2>1. AbsMacro' = MacroOf(heap', len, at, macro')
    BY <1>4, <1>5 DEF StagedOf
  <2>2. ASSUME NEW l, len[l] = 0 PROVE BtnsOf(heap', len, at, l) = <<>>
    <3>1. 1 .. len[l] = {}
      BY <2>2
    <3> QED  BY <3>1 DEF BtnsOf
  <2> QED  BY <1>4, <2>1, <2>2 DEF MacroOf
<1>9. AbsMacro = None
  BY <1>2 DEF AbsMacro
<1> QED  BY <1>7, <1>8, <1>9 DEF AbsLists, AbsMacro, Lists!MacroInit, Lists!EmptyMacro

\* ... a button at the end of one of its lists, ...
LEMMA AddBtnKeeps ==
  ASSUME IInv, NEW which \in {"act", "press"}, NEW b \in Btn, AddBtn(which, b)
  PROVE  Lists!AddBtn(which, b)
<1> DEFINE l == heap[macro][which]
           other == IF which = "act" THEN "press" ELSE "act"
<1>1. PICK len, at, gone : Sound(len, at, gone)
  BY DEF IInv
<1>2. pc = "idle" /\ macro # NULL /\ pc' = "idle" /\ macro' = macro
  BY DEF AddBtn
<1>3. /\ Heap(heap, len, at, {}, {macro}, NULL) /\ Is(heap, "macro", macro)
      /\ AbsLists = ListsOf(heap, len, at) /\ AbsMacro = StagedOf(heap, len, at, macro)
  BY <1>1, <1>2, Shown DEF Sound, Control, Outs, Loose
<1>4. PICK len2, at2, n :
        /\ Sound(len2, at2, {})' /\ Kept(heap, heap')
        /\ Longer(len, at, len2, at2, l, n)
        /\ n \in Cell /\ heap'[heap'[n].value].btn = b
  BY <1>1, AddBtnSound
<1>5. /\ Heap(heap', len2, at2, {}, {macro}, NULL)
      /\ AbsLists' = ListsOf(heap', len2, at2) /\ AbsMacro' = StagedOf(heap', len2, at2, macro)
  BY <1>2, <1>4, ShownNext DEF ShownNow, Sound, Outs, Loose
<1>6. /\ macro \in Cell /\ Whole(heap, {}, macro) /\ heap'[macro] = heap[macro]
      /\ heap[macro].act # heap[macro].press
      /\ l \in Cell /\ l \notin PadLists /\ Is(heap, "list", l)
      /\ heap[macro][other] \in Cell /\ heap[macro][other] \notin PadLists
      /\ Is(heap, "list", heap[macro][other]) /\ heap[macro][other] # l
  <2>1. macro \in Cell /\ Whole(heap, {}, macro) /\ heap'[macro] = heap[macro]
    BY <1>3, <1>4 DEF Is, Whole, Kept
  <2>2. /\ Is(heap, "list", heap[macro].act) /\ heap[macro].act \notin PadLists
        /\ Is(heap, "list", heap[macro].press) /\ heap[macro].press \notin PadLists
        /\ heap[macro].act # heap[macro].press
    BY <1>3, <2>1 DEF Heap, PartsFit
  <2> QED  BY <2>1, <2>2 DEF Is
<1>7. /\ \A m \in Cell \ {l} : SameList(len, at, len2, at2, m)
      /\ len2[l] = len[l] + 1 /\ at2[l][len[l] + 1] = n
      /\ \A k \in 1 .. len[l] : at2[l][k] = at[l][k]
  <2>1. Places(len, at)
    BY <1>3 DEF Heap, Places
  <2>2. Extended(len, at, len2, at2, l, n)
    BY <1>4, <1>6, <2>1, LongerIs
  <2> QED  BY <2>2 DEF Extended
<1>8. ASSUME NEW p \in Pads
      PROVE  MacrosOf(heap', len2, at2, ListOf(p)) = MacrosOf(heap, len, at, ListOf(p))
  <2>1. ListOf(p) \in Cell /\ ListOf(p) \in PadLists
    BY PadListsAreCells
  <2>2. SameList(len, at, len2, at2, ListOf(p))
    BY <1>6, <1>7, <2>1
  <2>3. MacrosSame(heap, len, at, len2, at2, ListOf(p))
    <3> SUFFICES ASSUME NEW k \in 1 .. len[ListOf(p)], NEW m, m = heap[at[ListOf(p)][k]].value
                 PROVE  /\ SameList(len, at, len2, at2, heap[m].act)
                        /\ SameList(len, at, len2, at2, heap[m].press)
      BY DEF MacrosSame
    <3>1. /\ Is(heap, "list", ListOf(p)) /\ ListAt(heap, len, at, NULL, ListOf(p))
          /\ ValuesFit(heap, len, at) /\ Outside(heap, {macro})
          /\ PartsFit(heap, {}) /\ PartsApart(heap, {})
      BY <1>3, <2>1 DEF Heap, PadsThere, Linked
    <3>2. Is(heap, "node", at[ListOf(p)][k]) /\ Is(heap, "macro", m)
      BY <2>1, <3>1 DEF ListAt, NodeAt, ValuesFit
    <3>3. m # macro
      BY <3>1, <3>2 DEF Outside, Is
    <3>4. m \in Cell /\ Whole(heap, {}, m)
      BY <3>2 DEF Whole, Is
    <3>5. heap[m].act # l /\ heap[m].press # l
      BY <1>6, <3>1, <3>3, <3>4 DEF PartsApart
    <3>6. heap[m].act \in Cell /\ heap[m].press \in Cell
      BY <3>1, <3>4 DEF PartsFit, Is
    <3> QED  BY <1>7, <3>5, <3>6
  <2> QED  BY <1>3, <1>4, <2>1, <2>2, <2>3, SamePadList
<1>9. AbsLists' = AbsLists
  BY <1>3, <1>5, <1>8 DEF ListsOf
<1>10. BtnsOf(heap', len2, at2, heap[macro][other]) = BtnsOf(heap, len, at, heap[macro][other])
  BY <1>3, <1>4, <1>6, <1>7, SameBtns
<1>11. BtnsOf(heap', len2, at2, l) = Append(BtnsOf(heap, len, at, l), b)
  <2> DEFINE s == BtnsOf(heap, len, at, l)
             t == BtnsOf(heap', len2, at2, l)
  <2>1. s \in Seq(Btn) /\ len[l] \in Nat /\ Len(s) = len[l]
    BY <1>3, <1>6, BtnsAre
  <2>2. t \in Seq(Btn) /\ Len(t) = len[l] + 1
    BY <1>5, <1>6, <1>7, BtnsAre
  <2>3. \A k \in 1 .. len[l] : s[k] = heap[heap[at[l][k]].value].btn
    BY DEF BtnsOf
  <2>4. \A k \in 1 .. len[l] + 1 : t[k] = heap'[heap'[at2[l][k]].value].btn
    BY <1>7 DEF BtnsOf
  <2>5. t[len[l] + 1] = b
    <3>1. len[l] + 1 \in 1 .. len[l] + 1
      BY <2>1
    <3> QED  BY <1>4, <1>7, <2>4, <3>1
  <2>6. ASSUME NEW k \in 1 .. len[l] PROVE t[k] = s[k]
    <3>1. ListAt(heap, len, at, NULL, l) /\ ValuesFit(heap, len, at)
      BY <1>3, <1>6 DEF Heap, Linked
    <3>2. Is(heap, "node", at[l][k]) /\ Is(heap, "btn", heap[at[l][k]].value)
      BY <1>6, <3>1 DEF ListAt, NodeAt, ValuesFit
    <3>3. heap'[at[l][k]].value = heap[at[l][k]].value
      BY <1>4, <3>2 DEF Kept, Is
    <3>4. heap'[heap[at[l][k]].value] = heap[heap[at[l][k]].value]
      BY <1>4, <3>2 DEF Kept, Is
    <3>5. k \in 1 .. len[l] + 1
      BY <2>1
    <3>6. at2[l][k] = at[l][k]
      BY <1>7
    <3> HIDE DEF s, t, l
    <3> QED  BY <2>3, <2>4, <3>3, <3>4, <3>5, <3>6
  <2> HIDE DEF s, t, l
  <2>7. t = Append(s, b)
    BY <2>1, <2>2, <2>5, <2>6, Appended
  <2> QED  BY <2>7 DEF s, t
<1>12. AbsMacro' = [AbsMacro EXCEPT ![which] = Append(@, b)]
  <2>1. /\ AbsMacro = [act |-> BtnsOf(heap, len, at, heap[macro].act),
                       press |-> BtnsOf(heap, len, at, heap[macro].press)]
        /\ AbsMacro' = [act |-> BtnsOf(heap', len2, at2, heap[macro].act),
                        press |-> BtnsOf(heap', len2, at2, heap[macro].press)]
    BY <1>2, <1>3, <1>5, <1>6 DEF StagedOf, MacroOf
  <2>2. CASE which = "act"
    BY <1>10, <1>11, <2>1, <2>2
  <2>3. CASE which = "press"
    BY <1>10, <1>11, <2>1, <2>3
  <2> QED  BY <2>2, <2>3
<1>13. AbsMacro # None
  <2>1. AbsMacro \in MacroVal
    BY <1>2, <1>3, <1>6, MacroIs DEF StagedOf
  <2> QED  BY <2>1, ListAssumption DEF MacroVal
<1> QED  BY <1>9, <1>12, <1>13 DEF AbsLists, AbsMacro, Lists!AddBtn

\* ... the macro at the end of the list of a pad, ...
LEMMA MacroAddKeeps ==
  ASSUME IInv, NEW p \in Pads, MacroAdd(p)
  PROVE  Lists!MacroAdd(p)
<1> DEFINE l == ListOf(p)
<1>1. PICK len, at, gone : Sound(len, at, gone)
  BY DEF IInv
<1>2. pc = "idle" /\ macro # NULL /\ pc' = "idle" /\ macro' = NULL
  BY DEF MacroAdd
<1>3. /\ Heap(heap, len, at, {}, {macro}, NULL) /\ Is(heap, "macro", macro)
      /\ AbsLists = ListsOf(heap, len, at) /\ AbsMacro = StagedOf(heap, len, at, macro)
  BY <1>1, <1>2, Shown DEF Sound, Control, Outs, Loose
<1>4. PICK len2, at2, n :
        /\ Sound(len2, at2, {})' /\ Kept(heap, heap')
        /\ Longer(len, at, len2, at2, l, n)
        /\ n \in Cell /\ heap'[n].value = macro
  BY <1>1, MacroAddSound
<1>5. /\ Heap(heap', len2, at2, {}, {}, NULL)
      /\ AbsLists' = ListsOf(heap', len2, at2) /\ AbsMacro' = StagedOf(heap', len2, at2, NULL)
  BY <1>2, <1>4, ShownNext DEF ShownNow, Sound, Outs, Loose
<1>6. macro \in Cell /\ Whole(heap, {}, macro)
  BY <1>3 DEF Is, Whole
<1>7. /\ \A m \in Cell \ {l} : SameList(len, at, len2, at2, m)
      /\ len2[l] = len[l] + 1 /\ at2[l][len[l] + 1] = n
      /\ \A k \in 1 .. len[l] : at2[l][k] = at[l][k]
  <2>1. Places(len, at) /\ l \in Cell
    BY <1>3, PadListsAreCells DEF Heap, Places
  <2>2. Extended(len, at, len2, at2, l, n)
    BY <1>4, <2>1, LongerIs
  <2> QED  BY <2>2 DEF Extended
<1>8. ASSUME NEW m \in Cell, Whole(heap, {}, m)
      PROVE  /\ SameList(len, at, len2, at2, heap[m].act)
             /\ SameList(len, at, len2, at2, heap[m].press)
  <2>1. /\ heap[m].act \in Cell /\ heap[m].act \notin PadLists
        /\ heap[m].press \in Cell /\ heap[m].press \notin PadLists
    BY <1>3, <1>8 DEF Heap, PartsFit, Is
  <2> QED  BY <1>7, <2>1, PadListsAreCells
<1>9. ASSUME NEW q \in Pads PROVE MacrosSame(heap, len, at, len2, at2, ListOf(q))
  <2> SUFFICES ASSUME NEW k \in 1 .. len[ListOf(q)], NEW m, m = heap[at[ListOf(q)][k]].value
               PROVE  /\ SameList(len, at, len2, at2, heap[m].act)
                      /\ SameList(len, at, len2, at2, heap[m].press)
    BY DEF MacrosSame
  <2>1. ListOf(q) \in Cell /\ ListOf(q) \in PadLists /\ ValuesFit(heap, len, at)
    BY <1>3, PadListsAreCells DEF Heap
  <2>2. Is(heap, "macro", m)
    BY <2>1 DEF ValuesFit
  <2> QED  BY <1>8, <2>2 DEF Whole, Is
<1>10. ASSUME NEW q \in Pads, q # p
       PROVE  MacrosOf(heap', len2, at2, ListOf(q)) = MacrosOf(heap, len, at, ListOf(q))
  <2>1. ListOf(q) \in Cell /\ ListOf(q) \in PadLists /\ ListOf(q) # l
    BY <1>10, PadListsAreCells DEF ListOf, Pads
  <2>2. SameList(len, at, len2, at2, ListOf(q))
    BY <1>7, <2>1
  <2> QED  BY <1>3, <1>4, <1>9, <2>1, <2>2, SamePadList
<1>11. MacrosOf(heap', len2, at2, l)
         = Append(MacrosOf(heap, len, at, l), MacroOf(heap, len, at, macro))
  <2> DEFINE s == MacrosOf(heap, len, at, l)
             t == MacrosOf(heap', len2, at2, l)
             e == MacroOf(heap, len, at, macro)
  <2>1. l \in Cell /\ l \in PadLists
    BY PadListsAreCells
  <2>2. s \in Seq(MacroVal) /\ len[l] \in Nat /\ Len(s) = len[l]
    BY <1>3, <2>1, MacrosAre
  <2>3. t \in Seq(MacroVal) /\ Len(t) = len[l] + 1
    BY <1>5, <1>7, <2>1, MacrosAre
  <2>4. e \in MacroVal
    BY <1>3, <1>6, MacroIs
  <2>5. \A k \in 1 .. len[l] : s[k] = MacroOf(heap, len, at, heap[at[l][k]].value)
    BY DEF MacrosOf
  <2>6. \A k \in 1 .. len[l] + 1 : t[k] = MacroOf(heap', len2, at2, heap'[at2[l][k]].value)
    BY <1>7 DEF MacrosOf
  <2>7. t[len[l] + 1] = e
    <3>1. len[l] + 1 \in 1 .. len[l] + 1
      BY <2>2
    <3>2. MacroOf(heap', len2, at2, macro) = e
      BY <1>3, <1>4, <1>6, <1>8, SameMacro
    <3> QED  BY <1>4, <1>7, <2>6, <3>1, <3>2
  <2>8. ASSUME NEW k \in 1 .. len[l] PROVE t[k] = s[k]
    <3>1. at2[l][k] = at[l][k] /\ k \in 1 .. len[l] + 1
      BY <1>7, <2>2
    <3>2. MacroOf(heap', len2, at2, heap'[at2[l][k]].value)
            = MacroOf(heap, len, at, heap[at[l][k]].value)
      BY <1>3, <1>4, <1>9, <2>1, <3>1, SameValues
    <3> HIDE DEF s, t, l
    <3> QED  BY <2>5, <2>6, <3>1, <3>2
  <2> HIDE DEF s, t, e, l
  <2>9. t = Append(s, e)
    BY <2>2, <2>3, <2>4, <2>7, <2>8, Appended
  <2> QED  BY <2>9 DEF s, t, e
<1>12. AbsMacro = MacroOf(heap, len, at, macro) /\ AbsMacro' = None
  BY <1>2, <1>3, <1>5 DEF StagedOf
<1>13. AbsLists' = [AbsLists EXCEPT ![p] = Append(@, AbsMacro)]
  <2> HIDE DEF l
  <2>1. AbsLists = [q \in Pads |-> MacrosOf(heap, len, at, ListOf(q))]
    BY <1>3 DEF ListsOf
  <2>2. AbsLists' = [q \in Pads |-> MacrosOf(heap', len2, at2, ListOf(q))]
    BY <1>5 DEF ListsOf
  <2>3. AbsLists'[p] = Append(AbsLists[p], AbsMacro)
    BY <1>11, <1>12, <2>1, <2>2 DEF l
  <2> QED  BY <1>10, <2>1, <2>2, <2>3
<1>14. AbsMacro # None
  BY <1>3, <1>6, <1>12, MacroIs, ListAssumption DEF MacroVal
<1> QED  BY <1>12, <1>13, <1>14 DEF AbsLists, AbsMacro, Lists!MacroAdd

\* ... and nothing at all, once a clear is called.
LEMMA ClearKeeps ==
  ASSUME Clear
  PROVE  Lists!Clear
<1>1. pc' = "iter" /\ macro = NULL /\ macro' = NULL
  BY DEF Clear
<1>2. AbsLists' = [p \in Pads |-> <<>>] /\ AbsMacro = None /\ AbsMacro' = None
  BY <1>1 DEF AbsLists, AbsMacro
<1> QED  BY <1>2 DEF AbsLists, AbsMacro, Lists!Clear, Lists!Empty

LEMMA ClearingKeeps ==
  ASSUME IInv, Visit \/ Pop \/ Finish
  PROVE  UNCHANGED <<AbsLists, AbsMacro>>
<1>1. PICK len, at, gone : Sound(len, at, gone)
  BY DEF IInv
<1>2. pc # "idle" /\ macro' = macro
  BY DEF Visit, Pop, Finish
<1>3. macro = NULL
  BY <1>1, <1>2 DEF Sound, Control
<1>4. AbsLists = [p \in Pads |-> <<>>]
  BY <1>2 DEF AbsLists
<1>5. pc' # "idle" => AbsLists' = [p \in Pads |-> <<>>]
  BY DEF AbsLists
<1>6. pc' = "idle" => AbsLists' = [p \in Pads |-> <<>>]
  <2> SUFFICES ASSUME pc' = "idle" PROVE AbsLists' = [p \in Pads |-> <<>>]
    OBVIOUS
  <2>1. Finish
    BY <1>2 DEF Visit, Pop
  <2>2. PICK len2, gone2 : Sound(len2, at, gone2)' /\ (pc' = "idle" => AllEmpty(len2))
    BY <1>1, <2>1, FinishSound
  <2>3. AbsLists' = ListsOf(heap', len2, at)
    BY <2>2, ShownNext DEF ShownNow
  <2>4. ASSUME NEW p \in Pads PROVE MacrosOf(heap', len2, at, ListOf(p)) = <<>>
    <3>1. 1 .. len2[ListOf(p)] = {}
      BY <2>2 DEF AllEmpty
    <3> QED  BY <3>1 DEF MacrosOf
  <2> QED  BY <2>3, <2>4 DEF ListsOf
<1>7. AbsMacro' = AbsMacro
  BY <1>2, <1>3 DEF AbsMacro
<1> QED  BY <1>4, <1>5, <1>6, <1>7

LEMMA InitKeeps ==
  ASSUME Init
  PROVE  Lists!Init
<1>1. PICK len, at, gone : Sound(len, at, gone)
  BY InitSound DEF IInv
<1>2. /\ pc = "idle" /\ macro = NULL
      /\ heap = [a \in Cell |-> IF a \in 1 .. NumPads THEN EmptyList ELSE FREE]
  BY DEF Init
<1>3. Heap(heap, len, at, {}, {}, NULL) /\ AbsLists = ListsOf(heap, len, at)
  BY <1>1, <1>2, Shown DEF Sound, Control, Outs, Loose
<1>4. ASSUME NEW p \in Pads PROVE MacrosOf(heap, len, at, ListOf(p)) = <<>>
  <2>1. ListOf(p) \in Cell /\ ListOf(p) \in 1 .. NumPads
    BY PadListsAreCells DEF PadLists
  <2>2. heap[ListOf(p)].size = 0
    BY <1>2, <2>1 DEF EmptyList
  <2>3. ListAt(heap, len, at, NULL, ListOf(p)) /\ ListOf(p) # NULL
    BY <1>3, <2>1 DEF Heap, PadsThere, PadLists, Linked, Cell, NULL
  <2>4. len[ListOf(p)] = 0
    BY <2>2, <2>3 DEF ListAt
  <2>5. 1 .. len[ListOf(p)] = {}
    BY <2>4
  <2> QED  BY <2>5 DEF MacrosOf
<1>5. AbsLists = [p \in Pads |-> <<>>]
  BY <1>3, <1>4 DEF ListsOf
<1>6. AbsMacro = None
  BY <1>2 DEF AbsMacro
<1> QED  BY <1>5, <1>6 DEF AbsLists, AbsMacro, Lists!Init, Lists!Empty

\* list.c, under gamepad.c, implements MacroLists: what is pushed is found again, in
\* order, in the list it was pushed to and in no other, and a clear leaves nothing.
THEOREM ListsKept == Spec => KeepsLists
<1>1. Init => Lists!Init
  BY InitKeeps
<1>2. IInv /\ [Next]_vars => [Lists!Next]_<<AbsLists, AbsMacro>>
  <2> SUFFICES ASSUME IInv, [Next]_vars PROVE [Lists!Next]_<<AbsLists, AbsMacro>>
    OBVIOUS
  <2>1. CASE MacroInit
    BY <2>1, MacroInitKeeps DEF Lists!Next
  <2>2. CASE Clear
    BY <2>2, ClearKeeps DEF Lists!Next
  <2>3. CASE Visit \/ Pop \/ Finish
    BY <2>3, ClearingKeeps
  <2>4. ASSUME NEW which \in {"act", "press"}, NEW b \in Btn, AddBtn(which, b)
        PROVE  Lists!Next
    BY <2>4, AddBtnKeeps DEF Lists!Next
  <2>5. ASSUME NEW p \in Pads, MacroAdd(p) PROVE Lists!Next
    BY <2>5, MacroAddKeeps DEF Lists!Next
  <2>6. CASE UNCHANGED vars
    <3>1. AbsLists' = AbsLists /\ AbsMacro' = AbsMacro
      BY <2>6 DEF vars, AbsLists, AbsMacro, Macros, Items, Values, Chain, Iter, IsA, ListOf,
         MacroAt, Buttons
    <3> QED  BY <3>1
  <2> QED  BY <2>1, <2>2, <2>3, <2>4, <2>5, <2>6 DEF Next
<1> QED  BY <1>1, <1>2, AlwaysSound, PTL DEF KeepsLists, Lists!Spec, Spec, AbsLists, AbsMacro
-------------------------------------------------------------------------------
\* How many turns of its loops a clear may still take.  Each turn frees something, or goes
\* on to the next macro, list or pad.
StageLeft ==
  IF pc = "iter" THEN 2
  ELSE IF node # NULL /\ list = heap[heap[node].value].act THEN 1 ELSE 0

TurnsLeft ==
  IF pc = "idle" THEN 0 ELSE 3 * Cardinality(Used) + 3 * (NumPads - pad) + StageLeft

LEMMA CellsCounted ==
  ASSUME NEW S \in SUBSET Cell
  PROVE  IsFiniteSet(S) /\ Cardinality(S) \in 0 .. NumCells
<1>1. NumCells \in Nat
  BY ListAssumption
<1>2. IsFiniteSet(Cell) /\ Cardinality(Cell) = NumCells
  <2>1. /\ IsFiniteSet(1 .. NumCells)
        /\ Cardinality(1 .. NumCells) = IF 1 > NumCells THEN 0 ELSE NumCells - 1 + 1
    BY <1>1, FS_Interval
  <2> QED  BY <1>1, <2>1 DEF Cell
<1>3. IsFiniteSet(S) /\ Cardinality(S) <= NumCells
  BY <1>2, FS_Subset
<1>4. Cardinality(S) \in Nat
  BY <1>3, FS_CardinalityType
<1> QED  BY <1>1, <1>3, <1>4

\* What is freed is used no more, and less is in use then.
LEMMA UsedFewer ==
  ASSUME Used' \subseteq Used
  PROVE  /\ Cardinality(Used') <= Cardinality(Used)
         /\ \A a \in Cell : a \in Used /\ a \notin Used' => Cardinality(Used') < Cardinality(Used)
<1>1. Used \in SUBSET Cell /\ Used' \in SUBSET Used /\ Used' \in SUBSET Cell
  BY DEF Used
<1>2. IsFiniteSet(Used) /\ Cardinality(Used) \in Nat /\ Cardinality(Used') \in Nat
  <2>1. IsFiniteSet(Used) /\ Cardinality(Used) \in 0 .. NumCells
    BY <1>1, CellsCounted
  <2>2. Cardinality(Used') \in 0 .. NumCells
    BY <1>1, CellsCounted
  <2> QED  BY <2>1, <2>2, ListAssumption
<1>3. /\ Cardinality(Used') <= Cardinality(Used)
      /\ Cardinality(Used) = Cardinality(Used') => Used = Used'
  BY <1>1, <1>2, FS_Subset
<1> QED  BY <1>2, <1>3

\* What the loops rely on.
LEMMA AtTurn ==
  ASSUME IInv, pc # "idle"
  PROVE  /\ heap \in [Cell -> Block] /\ pad \in Pads
         /\ pc = "list" => list \in Cell /\ heap[list] \in
                             [kind : {"list"}, head : Link, bottom : Link, size : Nat]
         /\ pc = "list" /\ node # NULL =>
              heap[heap[node].value].act # heap[heap[node].value].press
<1>1. PICK len, at, gone : Sound(len, at, gone)
  BY DEF IInv
<1>2. heap \in [Cell -> Block] /\ pad \in Pads
  BY <1>1 DEF Sound, Heap, Control
<1>3. pc = "list" => /\ list \in Cell /\ Is(heap, "list", list)
                     /\ AtPad(len, at, gone) \/ \E r \in Nat : AtMacro(len, at, gone, r)
  BY <1>1, AtList
<1>4. pc = "list" /\ node # NULL =>
        heap[heap[node].value].act # heap[heap[node].value].press
  BY <1>3 DEF AtPad, AtMacro
<1> QED  BY <1>2, <1>3, <1>4, Kinds

LEMMA VisitShortens ==
  ASSUME IInv, Visit
  PROVE  TurnsLeft' < TurnsLeft
<1>1. /\ pc = "iter" /\ pc' = "list" /\ heap' = heap /\ pad' = pad
  BY DEF Visit
<1>2. Used' = Used /\ StageLeft' \in {0, 1} /\ StageLeft = 2
  BY <1>1 DEF Used, StageLeft
<1>3. Cardinality(Used) \in Nat /\ pad \in Nat /\ NumPads \in Nat
  <2>1. Cardinality(Used) \in 0 .. NumCells
    BY CellsCounted DEF Used
  <2> QED  BY <1>1, <2>1, AtTurn, ListAssumption DEF Pads
<1> QED  BY <1>1, <1>2, <1>3 DEF TurnsLeft

LEMMA PopShortens ==
  ASSUME IInv, Pop
  PROVE  TurnsLeft' < TurnsLeft
<1> DEFINE b == heap[list].bottom
           h == [heap EXCEPT ![list].bottom = heap[b].previous]
<1>1. /\ pc = "list" /\ pc' = pc /\ pad' = pad /\ ClearSafe /\ heap[list].head # b
      /\ heap' = Freed(h, {b, heap[b].value})
  BY DEF Pop
<1>2. /\ heap \in [Cell -> Block] /\ pad \in Pads /\ list \in Cell
      /\ heap[list] \in [kind : {"list"}, head : Link, bottom : Link, size : Nat]
  BY <1>1, AtTurn
<1>3. \A a \in Cell : h[a] # FREE => heap[a] # FREE
  BY <1>2 DEF FREE
<1>4. b \in Cell /\ heap[b] # FREE
  BY <1>1, <1>2 DEF ClearSafe, IsA, FREE
<1> HIDE DEF h, b
<1>5. Used' \subseteq Used
  BY <1>1, <1>3 DEF Used, Freed
<1>6. b \in Used /\ b \notin Used'
  BY <1>1, <1>4 DEF Used, Freed
<1>7. Cardinality(Used') < Cardinality(Used)
  BY <1>4, <1>5, <1>6, UsedFewer
<1>8. StageLeft \in {0, 1} /\ StageLeft' \in {0, 1}
  BY <1>1 DEF StageLeft
<1>9. Cardinality(Used) \in Nat /\ Cardinality(Used') \in Nat /\ pad \in Nat /\ NumPads \in Nat
  <2>1. Used \in SUBSET Cell /\ Used' \in SUBSET Cell
    BY <1>5 DEF Used
  <2>2. Cardinality(Used) \in 0 .. NumCells /\ Cardinality(Used') \in 0 .. NumCells
    BY <2>1, CellsCounted
  <2> QED  BY <1>2, <2>2, ListAssumption DEF Pads
<1> QED  BY <1>1, <1>7, <1>8, <1>9 DEF TurnsLeft

\* A list that is emptied leaves less in use, unless it was empty.
LEMMA EmptiedFewer ==
  ASSUME IInv, pc = "list", ClearSafe, heap[list].head = heap[list].bottom
  PROVE  /\ \A a \in Cell : Emptied(list)[a] # FREE => heap[a] # FREE
         /\ Emptied(list) = heap \/ \E a \in Cell : heap[a] # FREE /\ Emptied(list)[a] = FREE
<1>1. /\ heap \in [Cell -> Block] /\ list \in Cell
      /\ heap[list] \in [kind : {"list"}, head : Link, bottom : Link, size : Nat]
  BY AtTurn
<1>2. CASE heap[list].bottom = NULL
  BY <1>2 DEF Emptied
<1>3. CASE heap[list].bottom # NULL
  <2> DEFINE h == [heap EXCEPT ![list] = EmptyList]
  <2>1. Emptied(list) = Freed(h, {heap[list].head, heap[heap[list].head].value})
    BY <1>3 DEF Emptied
  <2>2. \A a \in Cell : h[a] # FREE => heap[a] # FREE
    BY <1>1 DEF FREE
  <2>3. heap[list].head \in Cell /\ heap[heap[list].head] # FREE
    BY <1>3 DEF ClearSafe, IsA, FREE
  <2> HIDE DEF h
  <2>4. \A a \in Cell : Emptied(list)[a] # FREE => heap[a] # FREE
    BY <2>1, <2>2 DEF Freed
  <2>5. Emptied(list)[heap[list].head] = FREE
    BY <2>1, <2>3 DEF Freed
  <2> QED  BY <2>3, <2>4, <2>5
<1> QED  BY <1>2, <1>3

LEMMA FinishShortens ==
  ASSUME IInv, Finish
  PROVE  TurnsLeft' < TurnsLeft
<1> DEFINE m == heap[node].value
<1>1. /\ pc = "list" /\ ClearSafe /\ heap[list].head = heap[list].bottom /\ node' = node
      /\ \/ /\ node # NULL /\ list = heap[m].act
            /\ heap' = Emptied(list) /\ list' = heap[m].press
            /\ pc' = pc /\ pad' = pad
         \/ /\ node # NULL /\ list = heap[m].press
            /\ heap' = Released(Emptied(list), m) /\ pc' = "iter" /\ pad' = pad
         \/ /\ node = NULL /\ heap' = Emptied(list)
            /\ pad' = (pad + 1) % NumPads
            /\ pc' = IF pad' = 0 THEN "idle" ELSE "iter"
  BY DEF Finish
<1>2. /\ heap \in [Cell -> Block] /\ pad \in Pads /\ list \in Cell
      /\ heap[list] \in [kind : {"list"}, head : Link, bottom : Link, size : Nat]
      /\ node # NULL => heap[m].act # heap[m].press
  BY <1>1, AtTurn
<1>3. /\ \A a \in Cell : Emptied(list)[a] # FREE => heap[a] # FREE
      /\ Emptied(list) = heap \/ \E a \in Cell : heap[a] # FREE /\ Emptied(list)[a] = FREE
  BY <1>1, EmptiedFewer
<1>4. Used' \subseteq Used
  <2>1. heap' = Emptied(list) \/ heap' = Released(Emptied(list), m)
    BY <1>1
  <2>2. \A a \in Cell : Released(Emptied(list), m)[a] # FREE => Emptied(list)[a] # FREE
    BY DEF Released, Freed
  <2> QED  BY <1>3, <2>1, <2>2 DEF Used
<1>5. Cardinality(Used) \in Nat /\ Cardinality(Used') \in Nat /\ pad \in Nat /\ pad < NumPads
      /\ NumPads \in Nat
  <2>1. Used \in SUBSET Cell /\ Used' \in SUBSET Cell
    BY <1>4 DEF Used
  <2>2. Cardinality(Used) \in 0 .. NumCells /\ Cardinality(Used') \in 0 .. NumCells
    BY <2>1, CellsCounted
  <2> QED  BY <1>2, <2>2, ListAssumption DEF Pads
<1>6. Cardinality(Used') <= Cardinality(Used)
  BY <1>4, UsedFewer
<1>7. ASSUME node # NULL, list = heap[m].act, heap' = Emptied(list), list' = heap[m].press,
             pc' = pc, pad' = pad
      PROVE  TurnsLeft' < TurnsLeft
  <2>1. StageLeft = 1 /\ StageLeft' \in {0, 1}
    BY <1>1, <1>7 DEF StageLeft
  <2>2. CASE heap' = heap
    <3>1. StageLeft' = 0 /\ Used' = Used
      BY <1>1, <1>2, <1>7, <2>2 DEF StageLeft, Used
    <3> QED  BY <1>1, <1>5, <1>7, <2>1, <3>1 DEF TurnsLeft
  <2>3. CASE heap' # heap
    <3>1. PICK a \in Cell : heap[a] # FREE /\ heap'[a] = FREE
      BY <1>3, <1>7, <2>3
    <3>2. Cardinality(Used') < Cardinality(Used)
      BY <1>4, <3>1, UsedFewer DEF Used
    <3> QED  BY <1>1, <1>5, <1>7, <2>1, <3>2 DEF TurnsLeft
  <2> QED  BY <2>2, <2>3
<1>8. ASSUME node # NULL, list = heap[m].press, heap' = Released(Emptied(list), m),
             pc' = "iter", pad' = pad
      PROVE  TurnsLeft' < TurnsLeft
  <2>1. heap'[list] = FREE
    BY <1>2, <1>8 DEF Released, Freed
  <2>2. list \in Used /\ list \notin Used'
    BY <1>2, <2>1 DEF Used, FREE
  <2>3. Cardinality(Used') < Cardinality(Used)
    BY <1>2, <1>4, <2>2, UsedFewer
  <2>4. StageLeft \in {0, 1} /\ StageLeft' = 2
    BY <1>1, <1>8 DEF StageLeft
  <2> QED  BY <1>1, <1>5, <1>8, <2>3, <2>4 DEF TurnsLeft
<1>9. ASSUME pad' = (pad + 1) % NumPads, pc' = IF pad' = 0 THEN "idle" ELSE "iter"
      PROVE  TurnsLeft' < TurnsLeft
  <2>1. StageLeft \in {0, 1}
    BY <1>1 DEF StageLeft
  <2>2. CASE pad' = 0
    BY <1>1, <1>5, <1>9, <2>1, <2>2 DEF TurnsLeft
  <2>3. CASE pad' # 0
    <3>1. pad + 1 < NumPads \/ pad + 1 = NumPads
      BY <1>5
    <3>2. pad + 1 = NumPads => pad' = 0
      BY <1>5, <1>9
    <3>3. pad + 1 < NumPads => pad' = pad + 1
      BY <1>5, <1>9
    <3>4. pad' = pad + 1 /\ pc' = "iter" /\ StageLeft' = 2
      BY <1>9, <2>3, <3>1, <3>2, <3>3 DEF StageLeft
    <3> QED  BY <1>1, <1>5, <1>6, <2>1, <3>4 DEF TurnsLeft
  <2> QED  BY <2>2, <2>3
<1> QED  BY <1>1, <1>7, <1>8, <1>9

LEMMA TurnsBounded ==
  IInv => /\ TurnsLeft \in 0 .. 3 * NumCells + 3 * NumPads + 2
          /\ TurnsLeft = 0 <=> pc = "idle"
<1> SUFFICES ASSUME IInv PROVE /\ TurnsLeft \in 0 .. 3 * NumCells + 3 * NumPads + 2
                               /\ TurnsLeft = 0 <=> pc = "idle"
  OBVIOUS
<1>1. NumCells \in Nat /\ NumPads \in Nat /\ Cardinality(Used) \in 0 .. NumCells
  BY CellsCounted, ListAssumption DEF Used
<1>2. pc # "idle" => pad \in 0 .. NumPads - 1
  BY AtTurn DEF Pads
<1>3. StageLeft \in {0, 1, 2}
  BY DEF StageLeft
<1> QED  BY <1>1, <1>2, <1>3 DEF TurnsLeft

\* A clear of lists of any length is over after a bounded number of turns, although
\* list_clear() and gamepads_macro_clear() follow pointers through what they free: every
\* turn leaves fewer, and none is left only when the clear has returned.
THEOREM ClearShortens ==
  Spec => /\ []( /\ TurnsLeft \in 0 .. 3 * NumCells + 3 * NumPads + 2
                /\ TurnsLeft = 0 <=> pc = "idle")
          /\ [][Clearing => TurnsLeft' < TurnsLeft]_vars
<1>1. IInv /\ [Next]_vars => [Clearing => TurnsLeft' < TurnsLeft]_vars
  BY VisitShortens, PopShortens, FinishShortens DEF Clearing
<1> QED  BY <1>1, TurnsBounded, AlwaysSound, PTL DEF Spec
===============================================================================
