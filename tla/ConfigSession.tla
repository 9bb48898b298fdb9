---------------------------- MODULE ConfigSession ----------------------------
(***************************************************************************)
(* The configuration endpoint of usb_hid.c: a host sends a macro as        *)
(* ADD_START with its header, one ACT per act button, one PRESS per press  *)
(* entry, ADD_STOP; or CLEAR.  Each command is one call of                 *)
(* config_endpoint_out_callback(), which stages the macro on the heap,     *)
(* stores it, rebuilds the lists of installed macros and answers.          *)
(*                                                                         *)
(* The storage is MacroTable (MacroStore shows that storage.c keeps its    *)
(* promise); power may fail between two commands and in the middle of      *)
(* those that write.  Two variables are auxiliary and say what the answers *)
(* told the host: host is what the device has taken of its macro so far,   *)
(* changed that the storage was changed since the last boot.               *)
(*                                                                         *)
(* The heap is counted in units: one for a header, for each element of an  *)
(* array, for each installed macro and for each of its buttons.  It has    *)
(* HeapRoom of them however its free pieces are scattered; a malloc() that *)
(* goes beyond may succeed or return NULL.                                 *)
(***************************************************************************)
EXTENDS StorageBlocks, Sequences, FiniteSets

CONSTANTS
  Pad,          \* the gamepads, 0 .. 3
  MaxCount,     \* the largest count in a header, a byte
  Header,       \* the headers a host may send: [acts, press, pads]
  Button,       \* the button entries it may send
  JUNK,         \* an array element that malloc() returned and nothing wrote
  NULL,
  NullHeader,   \* the counts read through a null macro_new: flash is aliased to
                \* address 0, these are two bytes of the vector table
  HeapRoom      \* the units that the heap has for macros

Tuples(n) == [1 .. n -> Button]
MacrosWith(h) == [hdr : {h}, act : Tuples(h.acts), press : Tuples(h.press)]

ASSUME SessionAssumption ==
  /\ IsFiniteSet(Pad) /\ MaxCount \in Nat
  /\ Header \subseteq [acts : 0 .. MaxCount, press : 0 .. MaxCount, pads : SUBSET Pad]
  /\ NullHeader \in [acts : {0}, press : Nat \ {0}, pads : SUBSET Pad]
  /\ Macro = UNION {MacrosWith(h) : h \in Header}
  /\ JUNK \notin Button
  /\ \A n \in 0 .. MaxCount : NULL \notin [1 .. n -> Button \cup {JUNK}]
  /\ HeapRoom \in Nat \ {0}

VARIABLES
  table,        \* the macro storage
  mode,         \* "up", or "fault" after a bad memory access
  macro_new,    \* "null", "live", or "freed": a dangling pointer
  hdr,          \* the header macro_new points at (pointed at, when freed)
  acts, press,  \* macro_new_buttons: NULL or arrays
  acts_ptr, press_ptr,
  installed,    \* gamepad_macros: for each pad its list, by the block of each macro
  heap,         \* the units in use
  answer,       \* the last command and its answer
  changed,
  host

Store == INSTANCE MacroTable WITH powered <- TRUE

vars == <<table, mode, macro_new, hdr, acts, press, acts_ptr, press_ptr, installed, heap,
          answer, changed, host>>
staging == <<macro_new, hdr, acts, press, acts_ptr, press_ptr>>

NOTHING   == [acts |-> 0, press |-> 0, pads |-> {}]
NoMacros  == [p \in Pad |-> [b \in Block |-> CLEAN]]
AllClean  == [b \in Block |-> CLEAN]
Unwritten(n) == [k \in 1 .. n |-> JUNK]

Answered(cmd, code) ==
  /\ answer' = [cmd |-> cmd, code |-> code]
  /\ changed' = IF cmd \in {"stop", "clear"} /\ code = "ok" THEN TRUE ELSE changed

-----------------------------------------------------------------------------
\* What malloc() returns for an array of n elements on a heap with `used' in use.
Malloc(n, used) == {Unwritten(n)} \cup (IF used + n > HeapRoom THEN {NULL} ELSE {})

Size(array, n) == IF array = NULL THEN 0 ELSE n

\* The units of what is staged, which ADD_START and ADD_STOP free, and of lists.
StagedUse ==
  IF macro_new = "live" THEN 1 + Size(acts, hdr.acts) + Size(press, hdr.press) ELSE 0

\* A header and its two arrays are allocated on a heap with `used' in use.
NewArrays(h, used) ==
  /\ acts' \in Malloc(h.acts, used + 1)
  /\ press' \in Malloc(h.press, used + 1 + Size(acts', h.acts))
  /\ heap' = used + 1 + Size(acts', h.acts) + Size(press', h.press)

Entries(m) == m.hdr.acts + m.hdr.press

HeapUse(lists) ==
  Cardinality({c \in (Pad \X Block) \X (0 .. 2 * MaxCount) :
                 LET m == lists[c[1][1]][c[1][2]] IN m # CLEAN /\ c[2] <= Entries(m)})

\* update_gamepads_macro(): the used blocks in order, each macro pushed to the
\* list of every pad it names.  What a torn block holds is anybody's guess; an
\* erased one claims 255 buttons on every pad.
Readings(t) ==
  {[b \in Block |-> IF t[b] = TORN THEN guess[b] ELSE t[b]] :
     guess \in [{b \in Block : t[b] = TORN} -> Macro \cup {ERASED}]}

Installation(r) ==
  [p \in Pad |-> [b \in Block |->
     IF r[b] \in Macro /\ p \in r[b].hdr.pads THEN r[b] ELSE CLEAN]]

\* What was read when the loop over the blocks is through with b.
UpTo(b, r) == [c \in Block |-> IF c <= b THEN r[c] ELSE CLEAN]

\* While the lists are built, on a heap with `used' in use, each used block in turn
\* needs two arrays for storage_get_macro() besides its copies.
Fits(r, used) ==
  \A b \in Block :
    r[b] # CLEAN =>
      /\ r[b] # ERASED
      /\ used + HeapUse(Installation(UpTo(b, r))) + Entries(r[b]) <= HeapRoom

\* The old lists are freed, which leaves `used' in use, and the new ones built from
\* t; or malloc() runs out and its null pointer is written to, as it surely is over
\* the 255 buttons.
Reinstall(t, used, cmd) ==
  \E r \in Readings(t) :
    \/ /\ \A b \in Block : r[b] # ERASED
       /\ mode' = "up" /\ installed' = Installation(r)
       /\ heap' = used + HeapUse(Installation(r))
       /\ Answered(cmd, "ok")
    \/ /\ ~Fits(r, used)
       /\ mode' = "fault"
       /\ UNCHANGED <<installed, heap, answer, changed>>

-----------------------------------------------------------------------------
\* Plausible bugs, told apart by a property below; no part of the specification.

\* ADD_STOP takes a macro that is not complete.
CompleteAtMost(h) == acts_ptr <= h.acts /\ press_ptr <= h.press

\* ADD_START resets one of the two counters.
AddStartHalfReset(h) ==
  /\ mode = "up"
  /\ h.acts # 0 /\ h.press # 0
  /\ macro_new' = "live" /\ hdr' = h
  /\ NewArrays(h, heap - StagedUse)
  /\ acts_ptr' = 0
  /\ host' = [hdr |-> h, act |-> <<>>, press |-> <<>>]
  /\ Answered("start", "ok")
  /\ UNCHANGED <<table, mode, installed, press_ptr>>

\* ADD_START refuses while a macro is being sent.
AddStartBusy(h) ==
  /\ mode = "up"
  /\ h.acts # 0 /\ h.press # 0
  /\ IF macro_new = "live"
     THEN Answered("start", "unknown") /\ UNCHANGED <<staging, heap, host>>
     ELSE /\ macro_new' = "live" /\ hdr' = h
          /\ NewArrays(h, heap)
          /\ acts_ptr' = 0 /\ press_ptr' = 0
          /\ host' = [hdr |-> h, act |-> <<>>, press |-> <<>>]
          /\ Answered("start", "ok")
  /\ UNCHANGED <<table, mode, installed>>

\* The answer of a refused ACT stays what it was set to first.
ActRefusedOk ==
  /\ mode = "up"
  /\ macro_new = "null" \/ acts = NULL \/ acts_ptr = hdr.acts
  /\ Answered("act", "ok")
  /\ UNCHANGED <<table, mode, staging, installed, heap, host>>

\* ADD_START frees the header of the macro that was staged, but not its arrays.
AddStartLeaks(h) ==
  /\ mode = "up"
  /\ h.acts # 0 /\ h.press # 0
  /\ macro_new' = "live" /\ hdr' = h
  /\ NewArrays(h, IF macro_new = "live" THEN heap - 1 ELSE heap)
  /\ acts_ptr' = 0 /\ press_ptr' = 0
  /\ host' = [hdr |-> h, act |-> <<>>, press |-> <<>>]
  /\ Answered("start", "ok")
  /\ UNCHANGED <<table, mode, installed>>
-----------------------------------------------------------------------------
Init ==
  /\ table \in Delivered
  /\ mode = "up" /\ macro_new = "null" /\ hdr = NOTHING
  /\ acts = NULL /\ press = NULL /\ acts_ptr = 0 /\ press_ptr = 0
  /\ installed = NoMacros /\ heap = 0
  /\ changed = FALSE
  /\ answer = [cmd |-> "none", code |-> "none"]
  /\ host = NULL

\* SGAD_CMD_MACRO_ADD_START with a header that has buttons: what was staged
\* before is freed, whatever became of it.  Nothing tests the arrays for NULL here.
AddStart(h) ==
  /\ mode = "up"
  /\ h.acts # 0 /\ h.press # 0
  /\ macro_new' = "live" /\ hdr' = h
  /\ NewArrays(h, heap - StagedUse)
  /\ acts_ptr' = 0 /\ press_ptr' = 0
  /\ host' = [hdr |-> h, act |-> <<>>, press |-> <<>>]
  /\ Answered("start", "ok")
  /\ UNCHANGED <<table, mode, installed>>

\* The header is copied and freed again, and macro_new keeps pointing at it.
AddStartRefused(h) ==
  /\ mode = "up"
  /\ h.acts = 0 \/ h.press = 0
  /\ macro_new' = "freed" /\ hdr' = h
  /\ acts' = NULL /\ press' = NULL
  /\ heap' = heap - StagedUse
  /\ host' = NULL
  /\ Answered("start", "unknown")
  /\ UNCHANGED <<table, mode, acts_ptr, press_ptr, installed>>

\* There is no room for the header, which is copied to NULL.
AddStartNoRoom ==
  /\ mode = "up" /\ heap - StagedUse + 1 > HeapRoom
  /\ mode' = "fault"
  /\ UNCHANGED <<table, staging, installed, heap, answer, changed, host>>

\* Either of the first two frees a dangling macro_new again; the allocator may notice and
\* ignore it (as these two do), or the heap is broken.
AddStartDoubleFree ==
  /\ mode = "up" /\ macro_new = "freed"
  /\ mode' = "fault"
  /\ UNCHANGED <<table, staging, installed, heap, answer, changed, host>>

\* SGAD_CMD_MACRO_ACT
Act(b) ==
  /\ mode = "up"
  /\ macro_new # "null" /\ acts # NULL /\ acts_ptr # hdr.acts
  /\ acts' = [acts EXCEPT ![acts_ptr + 1] = b]
  /\ acts_ptr' = acts_ptr + 1
  /\ host' = [host EXCEPT !.act = Append(@, b)]
  /\ Answered("act", "ok")
  /\ UNCHANGED <<table, mode, macro_new, hdr, press, press_ptr, installed, heap>>

ActRefused ==
  /\ mode = "up"
  /\ macro_new = "null" \/ acts = NULL \/ acts_ptr = hdr.acts
  /\ Answered("act", "unknown")
  /\ UNCHANGED <<table, mode, staging, installed, heap, host>>

\* SGAD_CMD_MACRO_PRESS
Press(b) ==
  /\ mode = "up"
  /\ macro_new # "null" /\ press # NULL /\ press_ptr # hdr.press
  /\ press' = [press EXCEPT ![press_ptr + 1] = b]
  /\ press_ptr' = press_ptr + 1
  /\ host' = [host EXCEPT !.press = Append(@, b)]
  /\ Answered("press", "ok")
  /\ UNCHANGED <<table, mode, macro_new, hdr, acts, acts_ptr, installed, heap>>

PressRefused ==
  /\ mode = "up"
  /\ macro_new = "null" \/ press = NULL \/ press_ptr = hdr.press
  /\ Answered("press", "unknown")
  /\ UNCHANGED <<table, mode, staging, installed, heap, host>>

\* The header SGAD_CMD_MACRO_ADD_STOP finds behind macro_new, which it does not
\* test; a freed one may have been overwritten.
Pointee ==
  CASE macro_new = "null"  -> {NullHeader}
    [] macro_new = "live"  -> {hdr}
    [] macro_new = "freed" -> Header

Complete(h) == acts_ptr = h.acts /\ press_ptr = h.press

\* What storage_add_macro() copies to the block: the staged macro, or whatever
\* lies behind a null or dangling pointer.
Staged ==
  IF macro_new = "live" THEN {[hdr |-> hdr, act |-> acts, press |-> press]}
  ELSE {TORN, CLEAN}

\* (A plausible bug.)  Nor does the answer of a refused stop change.
AddStopRefusedOk ==
  /\ mode = "up"
  /\ \E h \in Pointee : acts_ptr # h.acts \/ press_ptr # h.press
  /\ Answered("stop", "ok")
  /\ UNCHANGED <<table, mode, staging, installed, heap, host>>

AddStopRefused ==
  /\ mode = "up"
  /\ \E h \in Pointee : ~Complete(h)
  /\ Answered("stop", "unknown")
  /\ UNCHANGED <<table, mode, staging, installed, heap, host>>

\* (A plausible bug.)  ADD_STOP resets one of the two counters.
AddStopHalfReset ==
  /\ mode = "up"
  /\ \E h \in Pointee : Complete(h)
  /\ \E c \in Staged :
       table' = [b \in Block |-> IF FirstOf(b, FreeIn(table)) THEN c ELSE table[b]]
  /\ macro_new' = "null" /\ hdr' = NOTHING /\ acts' = NULL /\ press' = NULL
  /\ host' = NULL
  /\ acts_ptr' = 0 /\ UNCHANGED press_ptr
  /\ Reinstall(table', heap - StagedUse - HeapUse(installed), "stop")

\* (A plausible bug.)  ADD_STOP forgets update_gamepads_macro().
AddStopStale ==
  /\ mode = "up"
  /\ \E h \in Pointee : Complete(h)
  /\ \E c \in Staged :
       table' = [b \in Block |-> IF FirstOf(b, FreeIn(table)) THEN c ELSE table[b]]
  /\ macro_new' = "null" /\ hdr' = NOTHING /\ acts' = NULL /\ press' = NULL
  /\ heap' = heap - StagedUse
  /\ host' = NULL
  /\ Answered("stop", "ok")
  /\ UNCHANGED <<mode, acts_ptr, press_ptr, installed>>

\* A full storage is not an error here: the result of storage_add_macro() is
\* ignored.  macro_new and the arrays are freed, acts_ptr and press_ptr stay.
AddStop ==
  /\ mode = "up"
  /\ \E h \in Pointee : Complete(h)
  /\ \E c \in Staged :
       table' = [b \in Block |-> IF FirstOf(b, FreeIn(table)) THEN c ELSE table[b]]
  /\ macro_new' = "null" /\ hdr' = NOTHING /\ acts' = NULL /\ press' = NULL
  /\ host' = NULL
  /\ UNCHANGED <<acts_ptr, press_ptr>>
  /\ Reinstall(table', heap - StagedUse - HeapUse(installed), "stop")

\* free() of a dangling macro_new, after the macro was stored.
AddStopDoubleFree ==
  /\ mode = "up" /\ macro_new = "freed"
  /\ \E h \in Pointee : Complete(h)
  /\ \E c \in Staged :
       table' = [b \in Block |-> IF FirstOf(b, FreeIn(table)) THEN c ELSE table[b]]
  /\ mode' = "fault"
  /\ UNCHANGED <<staging, installed, heap, answer, changed, host>>

\* SGAD_CMD_MACRO_CLEAR: what is staged stays.
Clear ==
  /\ mode = "up"
  /\ table' = AllClean
  /\ UNCHANGED <<staging, host>>
  /\ Reinstall(table', heap - HeapUse(installed), "clear")

\* SGAD_CMD_MACRO_READ_START and _READ_STOP answer with an uninitialised answ.
ReadMacros ==
  /\ mode = "up"
  /\ \E code \in {"ok", "unknown", "garbage"} : Answered("read", code)
  /\ UNCHANGED <<table, mode, staging, installed, heap, host>>

UnknownCommand ==
  /\ mode = "up"
  /\ Answered("other", "unknown")
  /\ UNCHANGED <<table, mode, staging, installed, heap, host>>

\* Power fails between two commands, while ADD_STOP rewrites a page, or while
\* CLEAR does, after the pages before it.  The next boot finds RAM as in Init;
\* it does not install the stored macros.
Boot ==
  /\ mode' = "up" /\ macro_new' = "null" /\ hdr' = NOTHING
  /\ acts' = NULL /\ press' = NULL /\ acts_ptr' = 0 /\ press_ptr' = 0
  /\ installed' = NoMacros /\ heap' = 0
  /\ changed' = FALSE
  /\ answer' = [cmd |-> "none", code |-> "none"]
  /\ host' = NULL

PowerCycle == Boot /\ UNCHANGED table

PowerCutInStop ==
  /\ mode = "up"
  /\ \E h \in Pointee : Complete(h)
  /\ \E b \in Block :
       /\ FirstOf(b, FreeIn(table))
       /\ Store!CutPage(PageOf[b]) \/ \E c \in Staged : Store!CutAdd(c)
  /\ Boot

PowerCutInClear ==
  /\ mode = "up"
  /\ \E p \in Page : \E upto \in {p, p + 1} :
       \E E \in SUBSET BlocksOf(p) : \E T \in SUBSET (BlocksOf(p) \ E) :
         table' = Damage([b \in Block |-> IF PageOf[b] < upto THEN CLEAN ELSE table[b]], E, T)
  /\ Boot

Next ==
  \/ \E h \in Header : AddStart(h) \/ AddStartRefused(h)
  \/ \E b \in Button : Act(b) \/ Press(b)
  \/ ActRefused \/ PressRefused
  \/ AddStop \/ AddStopRefused
  \/ AddStartNoRoom \/ AddStartDoubleFree \/ AddStopDoubleFree
  \/ Clear \/ ReadMacros \/ UnknownCommand
  \/ PowerCycle \/ PowerCutInStop \/ PowerCutInClear

Spec == Init /\ [][Next]_vars
-----------------------------------------------------------------------------
\* The first n elements of an array are what the host was told they are; the
\* rest is still junk, and there is room for it.  An array for which there was no
\* room takes no element.
Filled(array, n, size, told) ==
  /\ DOMAIN array = 1 .. size /\ n \in 0 .. size /\ Len(told) = n
  /\ \A k \in 1 .. size : array[k] = IF k <= n THEN told[k] ELSE JUNK

Taken(array, n, size, told) ==
  IF array = NULL THEN n = 0 /\ told = <<>> ELSE Filled(array, n, size, told)

\* Device and host agree on the macro that is being sent, over restarts of the
\* session, refused commands and power cuts; no pointer into the arrays runs past
\* its end, and without a started macro there are no arrays (usb_hid.c keeps four
\* static variables and a dangling pointer in step for this).
StagedAsTold ==
  IF macro_new = "live"
  THEN /\ hdr = host.hdr
       /\ Taken(acts, acts_ptr, hdr.acts, host.act)
       /\ Taken(press, press_ptr, hdr.press, host.press)
  ELSE host = NULL /\ acts = NULL /\ press = NULL

\* A stop that is answered OK stores exactly what was sent since the start that
\* was answered OK, complete and in order, in the first free block, and spoils no
\* other block; a full storage stays as it is.
HostMacro == [hdr |-> host.hdr, act |-> host.act, press |-> host.press]

StopAccepted == host # NULL /\ host' = NULL /\ answer' = [cmd |-> "stop", code |-> "ok"]

StoredAsSent ==
  [][StopAccepted =>
       /\ Len(host.act) = host.hdr.acts /\ Len(host.press) = host.hdr.press
       /\ Store!Add(HostMacro) \/ (FreeIn(table) = {} /\ table' = table)]_vars

\* The macros that are installed are those that are stored once a stop or a clear
\* was answered OK since the last boot, and none before that: every change of the
\* storage reaches the lists, and with it those of earlier boots do.
Undamaged == \A b \in Block : table[b] \notin Damaged

InstalledAsStored ==
  mode = "up" /\ Undamaged =>
    installed = IF changed THEN Installation(table) ELSE NoMacros

\* No sequence of sessions, given up, restarted, refused or stored, uses the heap up:
\* while all blocks are readable and no refused header dangles, the device fails only
\* over stored macros whose lists do not fit an otherwise empty heap, or leave no
\* room for one header there.
OnlyStorageFillsHeap ==
  mode = "fault" =>
    \/ ~Undamaged \/ macro_new = "freed"
    \/ ~Fits(table, 0) \/ HeapUse(Installation(table)) + 1 > HeapRoom

\* ADD_STOP reads counts through a null macro_new; if no header the host sends has
\* a zero count, they never match what acts_ptr and press_ptr hold then.
NullNeverComplete == macro_new = "null" => ~Complete(NullHeader)

\* What the answers claim.  ADD_STOP is answered OK only when the macro is stored
\* (storage_add_macro() reports when it is not).
AcceptedIsStored ==
  [][StopAccepted /\ Undamaged =>
       \E b \in Block : table[b] = CLEAN /\ table'[b] = HostMacro]_vars
==============================================================================
