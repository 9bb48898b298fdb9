# SEGA gamepad adapter: specification, model checking and proofs

The firmware (STM32F103, `src/src/*.c`) reads up to four SEGA Mega Drive pads and
shows them to a PC as USB HID joysticks.  A host can store *macros* in the
device's flash over a fifth HID interface; a macro watches for a combination of
buttons and, while it is held, presses and releases other buttons on a schedule.

This directory holds TLA+ modules of that firmware, TLC configurations that check
them on small instances, and TLAPS proofs of their main properties for all
instances.  `PROJECT.json` lists the runs, which definition stands for which
lines of the code, the hazards and the theorems.

## Inventory

| Component | Code | State it keeps | Operations |
|---|---|---|---|
| Macro storage | `storage.c`, `storage.h` | 16 flash pages of eight 256-byte blocks; the page buffer `buf` | `storage_init`, `_clear`, `_add_macro`, `_remove_macro`, `_get_macro_list`, `_get_macro` |
| Configuration endpoint | `usb_hid.c:339-516` | the macro being sent: `macro_new`, `macro_new_buttons`, two counters | commands ADD_START, ACT, PRESS, ADD_STOP, CLEAR, READ_*; `update_gamepads_macro` |
| Macro engine | `gamepad.c:86-171, 220-253` | for each pad a list of macros with two counters per press entry; the button array | `gamepads_macro_clear/_init/_add/_add_btn`, `gamepads_macro_accept`, `gamepad_read` |
| Gamepad reading | `gamepad.c:29-84, 173-218` | the pins; `gamepad_buttons`; the pad's own pulse counter | `gamepads_init`, the select pulses and samples of `gamepad_read` |
| HID IN endpoints | `usb_hid.c:299-337, 518-542` | the endpoint's packet memory (hardware) | `usb_hid_poll` (main loop), `endpoint_in_callback` (interrupt), `usb_hid_setconfig` |
| Linked list | `list.c`, `gamepad.c:86-119` | list heads, nodes and values on the heap | `list_init`, `_push_back`, `_iter`, `_get`, `_length`, `_clear` |
| Start-up and USB device | `main.c`, `usb.c` | `usbd_dev`, port clocks, pin modes, enabled interrupts | `main`, `usb_init`, `usb_set_config`, three interrupt handlers |
| Clock, delays, serial port | `init.c` | the cycle counter | `dwt_init`, `uart_init`, `_usleep`, `_msleep`, `_write` |
| LEDs, debug output | `gpio.c`, `misc.c` | none | `led_init`, `led_info`, `led_boot`, `debugf` |
| Descriptors, control requests | `usb_hid.c:40-297`, `usb.c:24-91` | none (constant tables) | `hid_control_request` |

How they interact.  All of the work happens in the USB interrupt: libopencm3's
`usbd_poll()` calls `endpoint_in_callback()`, which reads a pad, applies its macros
and queues the report, and `config_endpoint_out_callback()`, which runs one
configuration command to its end, flash writes included.  The three USB interrupts
have the same priority, so no handler interrupts another.  The main loop only calls
`usb_hid_poll()`, which starts the endpoints by queueing empty packets.  A command
that changes the storage calls `update_gamepads_macro()`, which frees all lists of
installed macros and builds them again from flash.

What is hard here:

* a page is erased before it is written again, with eight macros in it, and power
  may fail at any moment: what does a cut spoil, and does the next command cope?
* the configuration protocol keeps four static variables and a dangling pointer in
  step over sessions that are abandoned, repeated, refused and interleaved with
  CLEAR;
* the installed macros are a second copy of the stored ones, on a small heap whose
  exhaustion nothing tests for;
* the macro engine's counters are decremented at every read, start uninitialised,
  and macros feed each other through the shared button array;
* the main loop and the interrupt share the IN endpoints, and the interrupt runs
  before `main()` has initialised what it uses.

* an answer of the configuration endpoint is dropped while the last one was not
  fetched, and does not say which command it is for: what may a host conclude?
* the select line multiplexes twelve buttons on six lines, with a counter in the pad
  that the adapter cannot see, while the player goes on playing;
* the lists are freed backwards while somebody iterates over them forwards;
* the delays compare 32-bit cycle counts that wrap, and start before most of the chip
  is initialised.

The properties each component has to have for this are the hazards' `properties`
in `PROJECT.json`; those that no module covers say why.

## Modules

| Module | What it is |
|---|---|
| `StorageBlocks` | blocks, pages, contents of a block, and which block a scan finds |
| `MacroTable` | **abstract**: what the storage promises, one step per operation |
| `MacroStore` | `storage.c` over flash: buffer, erase, program block by block, power cuts; implements `MacroTable` |
| `StorageScan` | the offsets of `storage.h` at their real size, and the scan loops |
| `MacroButtons` | macros and button arrays: what activates a macro, which entry decides a button, the report |
| `MacroTimeline` | **abstract**: what a macro promises the player, counted in reads |
| `MacroEngine` | `gamepads_macro_accept()` and `gamepad_read()` with their counters; implements `MacroTimeline` |
| `ConfigSession` | `config_endpoint_out_callback()` and `update_gamepads_macro()` over `MacroTable` |
| `ConfigLink` | composes `ConfigSession` with the two endpoints and a host that stores one macro, with time-outs, repeated commands, bus resets and power cycles |
| `HidEndpoints` | `main()` and `usb_hid_poll()` against `endpoint_in_callback()`, configuration and bus resets |
| `Delay` | `_usleep()` and `_msleep()` on a cycle counter that wraps |
| `BootSequence` | composes `Delay` with `main()` up to its loop, every operation on the chip a step, and the USB interrupt |
| `PadProtocol` | the select pulses of `gamepad_read()` against three- and six-button pads |
| `HidReports` | the report descriptors and reports, and a host's parser for them, as functions |
| `PadToHost` | composes `PadProtocol`, `MacroButtons` and `HidReports`: from the pad to the joystick the host sees |
| `MacroLists` | **abstract**: the installed macros as sequences |
| `LinkedList` | `list.c` and its users in `gamepad.c` on a heap of cells; implements `MacroLists` |
| `MacroStoreProofs`, `StorageScanProofs`, `MacroEngineProofs`, `HidEndpointsProofs`, `ConfigProofs`, `BootSequenceProofs`, `PadProtocolProofs`, `LinkedListProofs` | theorems and their proofs |
| `MC...` | instances for TLC |

`MacroStore` shows that `storage.c` implements `MacroTable`, and `ConfigSession`
uses `MacroTable` in its place.  In the same way `LinkedList` shows that the lists are the
sequences that `ConfigSession` and `MacroEngine` take them for.  `StorageScan` justifies that the other two speak of
"the first free block" where the code walks offsets.

In each module the operators under "Plausible bugs" are variants of a definition
that one of the properties rejects; no specification uses them.

### `MacroStore`

`flash` is the storage area, one value per block: `CLEAN` (first byte zero), a macro,
`ERASED` (0xff), or `TORN`.  The scans take the last two for used blocks, as the code
does.  An operation that writes is *erase*, then one step per block, then return;
`pc`, `op`, `page`, `target` and `todo` are the program counter and locals of the code.
The flash does not know what the caller meant, so what programming a cell that was
not erased gives is `TORN`.  A power cut in an erase leaves any block of the page
old, erased or torn; a cut in a write tears the block under the head.  One that comes
after a block's first byte became zero leaves a block that is free to every scan and
counts as `CLEAN`; for a block that was erased first, that is the block as it will be.

`storage_remove_macro()` has no caller in this repository; it is part of the
interface of `storage.h` and modelled with the rest.

### `StorageScan`

The constants of `storage.h` (page 2048, 128 blocks, packed records), the two masks,
and the loops of `storage_find_free()` / `storage_find_macro()` (one loop with two
tests) and `storage_get_macro_list()`.  `i` is the `uint8_t` that indexes the map.

### `MacroEngine`

`at` is the position in `gamepad_read()`: 0 between two reads, `k` before the k-th
macro.  `buttons` is the button array as the set of its non-zero bytes; 1 and 0xff
are told apart nowhere, since every test masks with 1 or tests for zero.  `left` holds
`time_delay_last` and `time_press_last`, which start as anything (`Leftover`) because
`update_gamepads_macro()` copies a struct in which it did not set them.  `held` is an
auxiliary variable that counts for how many reads in a row a macro was active, and is
`UNARMED` until a read found it inactive.  `MacroTimeline` has the same variables
except `left`, and says by `held` alone what each entry does.

### `ConfigSession`

One action per outcome of a command.  `macro_new` is null, live or freed (dangling);
`acts` and `press` are the two arrays, with `JUNK` where nothing was written.  `host`
is an auxiliary variable: what the answers told the host that the device has.
Behind a dangling pointer the model finds any header (the heap may have reused it);
behind a null one it finds `NullHeader`, two bytes of the vector table, since flash is
aliased to address 0 on this chip.  A second `free()` of a dangling pointer either is
ignored or breaks the heap (`mode = "fault"`).  A macro read from a torn block is any
macro.  Power may fail between commands, and within ADD_STOP and CLEAR with the
damage `MacroTable` allows.  `installed` says for each pad and block which macro is in the
pad's list; the order of the list is `LinkedList`'s.  `changed` is auxiliary too: a stop or a clear was
answered OK since the last boot.

`heap` counts what is allocated in units: one for a header, for each element of an array,
for each installed macro and for each of its buttons.  No `malloc()` of the code is tested, and
one that would take the heap beyond `HeapRoom` may or may not return NULL, since
fragmentation is not modelled.  What NULL does depends on who gets it.  The header of
ADD_START is copied to it at once, a fault (`AddStartNoRoom`).  The two arrays of a session are
only stored: ACT and PRESS test them and answer UNKNOWN, so that the session cannot be
completed and the next ADD_START frees what there is of it.  In `update_gamepads_macro()` the lists, and
for each block in turn the two arrays of `storage_get_macro()`, are written to at once, a
fault (`Fits`, `Reinstall`).  An erased block claims 255 buttons on every pad, for which no
heap of the device has room.

Assumed of the host: act and press counts within 6 and 28 (the code tests for zero
only, and beyond the limits its behaviour is undefined), button numbers within 0..11,
names that are not empty.

### `HidEndpoints`

`stage` is how far `main()` is: blinking (0), inside `gamepads_init()` after it set
`gamepad_gpio` (1), past it (2), past `storage_init()` (3), in the loop (4).  `cursor`
and `step` are the position in `usb_hid_poll()`, whose every call of
`usbd_ep_write_packet()` is three steps: the test for a waiting packet, the copy, the
arming.  The interrupt handler is one step.  `irq` holds the endpoints whose packet the
host fetched and whose callback has not run.  `late`, which is chosen at the start and
stays, says whether the main program may take steps while an interrupt is pending; on the
chip it is a few instructions at most, so `late` is more than can happen and `~late`
slightly less.
After a fault (`mode`) nothing happens any more, which stands for whatever a bad
memory access does.

`usbd_ep_write_packet()`, the reset of the endpoints and their set-up belong to
libopencm3, which is not part of this repository; they are modelled by what the code
relies on.

### `ConfigLink`

`out` and `in` are the packets that wait in the endpoints 0x05 and 0x85, one in each.  The
device handles a command when it is there, and its answer is dropped if the last one still
waits.  The host's tool is not in this repository; the model has the most careful one that
the protocol allows.  It sends its script command by command.  When an answer is not OK or
does not come in time it starts again with ADD_START.  When it sees a bus reset or a power
cycle it may instead repeat the command it has no answer to, provided it never gave up
waiting before.  That proviso is needed: after a time-out an answer may still be on its way,
the host takes it for the answer of its next command, and from then on is one answer
ahead; if it then repeats a command, the refusal that would tell it that the device had
already taken it hides behind the stale answer, and a wrong macro is stored.  Weak
fairness is assumed of the device's handler and of the host's sending and fetching, none
of time-outs and resets, whose number is bounded (`MaxTimeouts`, `MaxResets`).

### `Delay` and `BootSequence`

`elapsed` in `Delay` is the true time since the call, which the program cannot see.  A *gap*
is the time between two looks at the counter; `Short` says how long a delay may be so that
it ends within one turn of the counter, and the delays of the firmware (2 us, 10 and 150
ms with gaps of a second) are far from it.

`Program` in `BootSequence` is the sequence of what `main()` and the functions it calls do to
the chip, from the source in its order: a clock turned on, a pin's mode, a delay, a piece
of heap.  `chip` is the state they change.  On the chip, a write to a port without a clock
is lost, and three pins belong to JTAG until `uart_init()` remaps them.  The interrupt is
enabled in `usb_init()` and may bring a command at any later step; what it uses is in
`ready` or it is a fault.  `SetConfig` comes after `usb_init()` is through, since the host
takes some 100 ms for its enumeration and the rest of `usb_init()` some microseconds.
An interrupt may read a pad in the loop, which waits as well, but not for itself.

### `PadProtocol`, `HidReports` and `PadToHost`

`kind`, `pulses` and `Shown` are the pad, which is hardware: a three-button pad follows the
level of select, a six-button one counts its rising edges, shows X, Y, Z and MODE after the
third and forgets the count after some 1.5 ms of rest.  `Edge` is one level of select and
what `gamepad_read()` samples after it.  `Press` may happen between any two edges; `ever` and
`always` are what was pressed at some, and at every, moment of the read.

`HidReports` parses the two descriptors item by item as the HID specification says (a value
is a signed byte, usages hold for one main item; `Parsed` is what the host knows after each
item) and takes a report apart by what it found; `PadToHost` puts it behind the samples and
`gamepad_read()`'s report without macros.  All four pads are given the same buttons; that
report n is pad n's is part of the property.  `Seen` says it of any set of buttons.

### `LinkedList`

`heap` maps cells to what is in them; `malloc()` takes the first free one, which reuses
freed cells as early as possible.  The functions of `gamepad.c` that build lists are a step
each; `gamepads_macro_clear()` with `list_clear()` is one step per turn of its loops (`Visit`,
`Pop`, `Finish`), each of which is enabled only if every pointer that it follows leads to a
cell of the right kind.  What an exhausted heap does is `ConfigSession`'s
(`HeapRoom`); here building stops (`Room`).

## Runs

| Run | Instance | Shows |
|---|---|---|
| `macro_store` | 2 pages × 2 blocks, 2 macros, blank or cleared flash | below |
| `storage_scan` | 128 blocks, real offsets, 19 contents around the first, middle and last page boundary | first free block, exact map, termination |
| `macro_engine` | 4 buttons (two opposite directions), 4 lists of macros, times up to 2 | below |
| `config_session` | 2 blocks in one page, 2 pads, 2 buttons, 4 headers of which 2 are refused, a heap of 12 units | below |
| `config_link` | 2 blocks, a macro of two different act buttons and two different press entries, a heap of 20 units, 4 time-outs, 4 resets | below |
| `hid_endpoints` | 2 pads with 2 positions, interrupts prompt or late | below |
| `pad_protocol` | both kinds of pad, the sets of held buttons of `MCHolds` | below |
| `linked_list` | 2 pads, 18 cells, 2 values | below |
| `boot_sequence` | 4 pads and all 28 lines, a counter of 16 values, gaps up to 8 | below |
| `poll_needs_device` (violation) | as `hid_endpoints` | the loop uses a null device when the host is slow |
| `full_storage` (violation) | 3 blocks in 2 pages, 3 headers that all have buttons, a heap of 40 units | a macro that found no room is answered OK |
| `three_buttons` (violation) | `pad_protocol` with a three-button pad only | its directions are reported as X, Y, Z and MODE too |

`macro_store`: cells are erased before they are programmed (`ProgramsErased`); an
operation under way still is what its caller asked for (`OpInv`, the inductive
invariant); every operation has exactly its effect on the table, and a cut spoils at
most the page being rewritten (`RefinesMacroTable`); clearing heals everything
(`ClearHealsAll`); operations return (`OperationsReturn`).  Two blocks per page give a
changed block a neighbour to lose, two pages give CLEAR a cut in between and a page
that must not change, two names give a search something to pass over.

`macro_engine`: counters and timelines agree once a macro is armed (`CountersOnTime`),
each entry does what the timeline says (`RefinesTimeline`), the report is neutral when
the pad is (`NothingPressedNothingSent`), and for still fingers the reports come to
rest although macros trigger each other (`ReportsComeToRest`).  The lists contain a
delayed and an undelayed entry, hidden and kept act buttons, a macro that completes
the next one's combination, and two entries for one button.  Times of 2 take every
counter through start, middle and zero; `MaxHeld` = 3 is just beyond every timeline,
where all entries have come to rest and counting further changes nothing.

`config_session`: device and host agree on what was sent, in every interleaving of
commands (`StagedAsTold`, which includes that no counter runs past its array); an
accepted stop stores that macro, whole, in the first free block, and nothing else
(`StoredAsSent`); nothing is installed after a boot until a stop or a clear is answered OK, and
from then on exactly what is stored (`InstalledAsStored`); no sequence of sessions uses the
heap up, so that only stored macros can (`OnlyStorageFillsHeap`).  Two counts per header make a
session that is restarted with other sizes.  Two full lists on two pads need more than 12
units, and the larger macro on both pads leaves too little for a session: every `malloc()`
fails somewhere in the run, those of the header, of either array and of the lists.  The
run counts states up to the last answer, which no step and no property reads (`MCView`; the
properties read the answer of the next state, which the step determines), and up to an exchange
of the two buttons (`MCSymmetry`), which the module only compares; both are sound as none of the
properties is a liveness property.

`config_link`: whatever is dropped, late, repeated or lost, no other macro than the one the
host wants gets into the storage (`OnlyWanted`); a host that waits for its answers may
trust the last one (`DoneMeansStored`); and once nothing is late any more it gets through
(`EventuallyDone`).  Since each header of this host has buttons, `NullNeverComplete` holds:
`macro_new` is not tested by ADD_STOP, and yet a stop without a start is refused, because
the counters keep the last macro's counts, which are not zero, and the null header's first
count is.  The value (0, 8) of the device's vector table is scaled to (0, 2), which keeps
what matters: the first is zero and the second a count this macro has.  Two different
buttons in each half tell a doubled, missing or swapped one; four time-outs and four resets
let every stale answer meet every command of the script of six, several times over.  The heap
is large enough for the session and both blocks; on a smaller one the host would be refused
for ever, and `EventuallyDone` does not hold.

`hid_endpoints`: `gamepad_read()` is never called inside `gamepads_init()`
(`NeverReadsEarly`), since an endpoint has no packet to report before the main loop
gave it one; an endpoint of a device that stays configured is fetched from again and
again (`AlwaysServed`), although main loop and interrupt may overwrite or forestall each
other's packets and a bus reset breaks the chain of callbacks.  With prompt interrupts,
what the main loop saw when it tested an endpoint still holds when it writes
(`ReportsStay`).  With late interrupts that is false: between test and write a
callback may come due, and then a report is replaced by an empty packet, or not queued at all
since the main loop's packet is there already (`Crossed`).  What is lost this way is made good: however often
the two crossed, once they no longer do, a pad that is held still is seen by the host
(`HostSeesPads`), and the endpoint is served even while they go on.  Two pads are enough for the
loop to be at another endpoint than the interrupt; two positions tell an old report
from a new one and one pad's from the other's.

`pad_protocol`: what is held during a whole read is read as pressed and what is never pressed
is not, for the eight buttons of either pad (`BaseReadTruly`) whatever earlier reads left in
the pad's counter, and for all twelve of a six-button pad that had its rest
(`SixReadTruly`).  Every set of samples reaches the host as the buttons and directions they
are, from the right pad (`HostSeesSamples`).

`linked_list`: no step of a clear meets a freed or a wrong cell (`NeverStray`, which is
what the next step needs), nothing leaks and nothing is freed twice
(`NoLeak`), size, index and both directions of links agree (`WalksAgree`), and the lists
behave as sequences (`KeepsLists`).  A clear returns (`ClearEnds`).  18 cells hold a macro with
several buttons in each list,
or two or three small macros over both pads, and the cells of cleared lists are used again.

`boot_sequence`: the 28 lines of the pads, the serial port, the LEDs and the USB pull-up end up
with the use the board has for them, and `main()` drives no pin that is not an output but one
(`WiredUp`): `gamepads_en()` (`gamepad.h:41`, called at `main.c:127`) clears PB8, which
nothing in the code sets up, so the call has no effect on the pin; whatever the board enables
there is not enabled by it.  The host
sees the device go before it comes (`SeenToGo`), which needs PB4 to be freed from JTAG
first; only a command before `storage_init()` can stop the device (`OnlyEarlyFaults`); no
delay is short (`NeverShort`) or misses its end (`NeverLate`) from any value of the counter,
and the start-up ends (`BootEnds`).  16 values of the counter, with delays that just fit,
put the wrap at every place of a delay; the start-up is the one of the source in full.

The three violations are disagreements between the code, or a text beside it, and what it does;
`PROJECT.json` quotes them under `findings`.

Every counter is bounded by the instance: `MaxTime`, `MaxHeld`, the counts of the
headers.  Deadlock is checked except where a behaviour really ends: a scan that has
its result (`storage_scan`), a device after a fault (the runs of `HidEndpoints`), and a
host that is done (`config_link`).

### Fairness

* `MacroStore`: weak fairness of an operation's own steps.  A started operation runs on
  the only processor with nothing of higher priority above it.  Nothing makes a
  caller call.
* `MacroEngine`: weak fairness of the handler's steps, and of reading the pad, which
  is one host poll: a HID interrupt endpoint is polled for as long as the bus is up.
* `StorageScan`: weak fairness of the loop.
* `HidEndpoints`: weak fairness of the callback and of the host's polls of each
  endpoint; strong fairness of the main program, which keeps being interrupted but runs
  between two interrupts (the host polls every 2 ms, a callback takes some 20 us).
* `ConfigLink`: weak fairness of the device's handler, and of a host that goes on sending
  and fetching; a host may always stop, and then nothing is promised.
* `BootSequence`: weak fairness of `main()` and of the delays' loops, on a processor that
  does nothing else but interrupts.
* `LinkedList`: weak fairness of a clear's own turns, which run in an interrupt that no other
  one of the device interrupts.
* `ConfigSession` and `PadProtocol` state no liveness: a host or a player may stop at any time.

## Proofs

All theorems hold for every value of the constants that satisfies the named
assumptions (`BlocksAssumption`, `TimelineAssumption`, `TimeAssumption`,
`ProgramsAssumption`, `AreasAssumption`, `EndpointsAssumption`, `SessionAssumption`,
`DelayAssumption`, `BootAssumption`, `PadAssumption`, `LinkAssumption`, `ScriptAssumption`,
`ListAssumption`).

`MacroStoreProofs`: for any number of blocks, any assignment of blocks to pages and
any macros.  `ProgramsErased` and the refinement are not inductive: that the programmed
cells are erased needs that `todo` stays in the page that was erased, and that the
table does not lose a neighbour needs that the buffer still is a copy of the page
(`BufferedFaithfully`), that what is written is the buffer (`WrittenAsBuffered`), and
for each operation that the block chosen before the erase still is the one to choose
(`AddUnderWay`, `RemoveUnderWay`, `ClearUnderWay`).  Their conjunction `OpInv` with the
types and `ProgramsErased` is inductive.  The refinement mapping `Table` says when an
operation takes effect: freeing a page is visible at its erase, adding a macro at
the return.  Its proof has one lemma per kind of step, the erase, the return and the
power cut being the ones that are not stutters.  `OperationsShorten` counts the steps that an
operation may still take (`StepsLeft`: the blocks it has not written and two for each page
it has not left), so that nothing in the flash can make it go round for ever.

`StorageScanProofs`: the layout (`OffsetsExact`, `RecordsApart`) for every block, and the
scans for every content of the area.  The invariant `Progress` says that the loop
variable is the offset of some block b, that no block before b is free ("find") or
that the map is right up to b and `i = b` ("list").  `ScanShortens` says that each step uses up
one of the 129 comparisons.

`MacroEngineProofs`: for any macros and any times below the width of the counters.  The
invariant is `TypeOK` and `CountersOnTime`, whose `OnTime` gives the value of both
counters in each phase of an entry as a function of `held`; the refinement follows
since `Effect` on those values is `Scheduled`.

`HidEndpointsProofs`: for any number of pads.  `QuietUntilLoop` (no endpoint has a packet
and no callback is due before `main()` is in its loop) makes `NeverReadsEarly` inductive;
`StillIdle` (between test and arming the endpoint has no packet and no callback due)
gives `ReportsStay`, which speaks of behaviours without `late`.  The types are proved only
(`TypeCorrect`); the run leaves them out.

`ConfigProofs`, the session: for any headers, buttons, blocks and heap.  `StagedAsTold` is inductive
with the types of what it speaks of (`SInv`); `StoredAsSent` follows from it, and from
`FirstExists`: if there is a free block there is a first one, by the well-founded order of
the block numbers.  `InstalledAsStored` needs that what a scan reads is what is stored unless
a block is damaged (`TInv`, `IInv`).  `OnlyStorageFillsHeap` needs more: `HeapOwned` says that
what is in use is what is staged and what is installed (`NothingLeaks`), so that a rebuild
starts from what is staged or from nothing, and a header is allocated beside the installed
lists alone (`StartKeeps`, `RebuildKeeps`, `NoRoomKeeps`).  `NullNeverComplete` needs
`Honest`, that every header has buttons, which the model with refused headers does not
satisfy, and the invariant `NInv`: while nothing is staged the counters are those of a
complete macro, or both zero; so it holds of the device in `ConfigLink` too
(`NullRefusedOnLink`).

`ConfigProofs`, the link: for a macro of any size and any number of time-outs, bus resets and power
cycles.  The invariant `LInv` says where in its script the host may be, as seen from what the
device has staged.  `Prefix(q)` says that the device has taken the commands up to position q,
each once and in order; `Beyond(q)`, that it is past command q, because that came before or
because the macro is lost.  A command that the host waits for an answer to, and one that is
still on its way when the host went on by a stale answer (`OnItsWay`), is either the next
one, and then `Prefix` advances (`NextCommandTaken`), or one the device is past.  That one is
refused, or, being taken twice, leaves the device past the next one as well, so that it is
refused later and at the latest at the stop (`OldCommand`).  Hence a stop that is not refused finds the
wanted macro (`TakenByStop`).  `DoneMeansStored` follows with `DInv`: without time-outs an OK
that waits at the end of the script is the stop's own.  `ScriptAssumption` says that no command is
`NULL`, `SessionAssumption` that no array is.  The heap may be too small for
the macro in the theorems: a session whose arrays are missing is refused until the next start
(`Starved`), and a device that faults sends no answer.

`BootSequenceProofs`, the delays: for any width of the counter and any delays and gaps within
`Short`.  The invariant says that the counter is `elapsed` ticks past `t0` round the circle,
hence that `Delta` is the true time as long as that is below `Wrap`; `NeverLate` and `NeverShort`
follow.  Every step of `BootSequence` is a step of `Delay` or leaves the counter alone
(`OnlyDelays`), so the start-up has both properties too (`BootNotLate`, `BootNotShort`), whatever
the interrupt does in between.

`BootSequenceProofs`, the start-up: the lemmas up to `ModesFit` say what is where among the 108
operations of `Program` and which of them occur once.  `BootInv` is inductive with the delays'
invariant.  `Done` says that the operations behind `pc` have had their effect (clocks are on,
pins have their modes, what they make ready is) and that nothing else is ready; `PulledUp`, that
PB4 is high for as long as the delay after it takes, and that the host saw the device go when it
is over; `OnlyEarlyFaults` closes it, since a command that comes later finds what it uses.
PB8 is
in it as the one pin that stays as reset left it.  `WiredUp` and
`SeenToGo` follow at the ends they speak of.

`PadProtocolProofs`: for any sets of buttons a player may hold.  The invariant says, for each
position in the read, which pulses a pad can have counted since it began and what the
samples so far have to do with `ever` and `always`; `BaseReadTruly` and `SixReadTruly` follow
at the last edge.  The rest of the module is about the host, for every set of buttons
(`EverythingSeen`), also those that macros make of the samples.  `JoyAt(n)` is what it knows
after n of the 24 items (`JoySteps`), and a function that obeys the parser's equation has these
values (`Parses`, `Determined`: by the well-founded order of the numbers), so the host finds
eight fields of a bit and two of a byte where `FieldsAre` says.  The report is a number whose
digits are the buttons and the axes (`NumberIs`), so that dividing by the place of a field
leaves its value (`Digits`), and the two's complement of an axis is undone by the sign of its
field (`Axes`).  `HostSeesSamples` is the case of the buttons that were sampled.

`LinkedListProofs`: for any number of pads and cells and any buttons, hence for lists of any
length.  None of the properties is inductive, since each step relies on all of the heap.  The
invariant `IInv` says that there are three ghosts: the nodes of each list in their order (`len`
and `at`), and the macros whose two lists the clear under way has freed already (`gone`).
`Heap` says by them how the cells fit together: lists are linked in both directions, no node is
in two places (`Apart`), no value is in two nodes, no list belongs to two macros, and every
cell in use has its owner.  The size and the last next pointer of a list that `list_clear()`
is at are stale until it is through (`Loose`).  `Control` says that the loop variables point at
the r-th macro of the pad and that the r before it are `gone`.  One lemma says what a push does to
`Heap` (`Pushed`), one what taking the last node does (`Dropped`), and so on; then each action
has a lemma that gives the ghosts of its next state.  `NeverStray` is what the invariant says of
the next cells.  For `NoLeak` and `WalksAgree` the recursive walks of `Chain` and `Get` have to
be evaluated: two functions of the numbers that agree at k whenever they agree below k are the
same (`Determined`, by the well-founded order), and `at` is one that obeys the walk's equation
(`ChainIs`, `GetIs`); that a walk ends within the heap is a pigeon-hole argument
(`LengthFits`).  For the refinement (`ListsKept`) the abstract lists are written with the
ghosts, once (`Shown`, `ShownNext`), and each call changes them as `MacroLists` says: what
a push does not touch keeps its buttons (`SameBtns`, `SameMacro`), and the list that grows is
the old one and one more at its end (`Appended`).  For `ClearShortens` the cells in use, the pads
to come and the stage of the macro under way are weighed against each other (`TurnsLeft`): a
turn frees a cell or goes on to a later stage or pad, which for an empty act list needs that
a macro's two lists are different ones.

Every safety property of the passing runs is a theorem.  Only model-checked is all liveness
(`OperationsReturn`, `ScanEnds`, `ClearEnds`, `ReportsComeToRest`, `AlwaysServed`, `HostSeesPads`,
`EventuallyDone`, `BootEnds`): it rests on fairness and on `ENABLED`, which the installed provers do
not handle.  Of the first three, the part that does not is proved: the loops have no more
than a bounded number of turns to take.

## Not modelled

* Build files; vendor, product and string descriptors; the content of names.
* The text of `_write()` and `debugf()`, newlib's stdout which `main()` and the interrupt share
  for it (one may print in the middle of the other; only debug text is at stake), `clock_init()` (one call of libopencm3), and
  `led_info()` and `led_boot()`, which have no callers.
* Counts beyond the record's limits (undefined behaviour), and what READ_START and
  READ_STOP were meant to return: the code answers them with uninitialised memory.
* `main()`'s listing of the macros, which shares the static page buffer with the interrupt
  but whose result is dropped except for debug text.
* The board: the data lines are inputs with a pull resistor whose direction is never chosen
  (it pulls down unless the board pulls up).  `PadProtocol` has a pad plugged in.
* What hosts do beyond the descriptors: `hid_control_request()` answers every request for a
  descriptor of an interface with the report descriptor, and the configuration interface's
  has no Input or Output item.

What could be added next:

1. In `ConfigLink`, a host that stores several macros one after the other, or clears the
   storage in between; `LInv` speaks of one script.
2. `ConfigSession` over `MacroStore` itself instead of the table it implements, so that a power
   cut inside of ADD_STOP and the session are one behaviour.
