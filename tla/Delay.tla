-------------------------------- MODULE Delay --------------------------------
(***************************************************************************)
(* _usleep() and _msleep() of init.c: busy waiting on the cycle counter of *)
(* the processor, which wraps round while anyone waits.  The loop looks at *)
(* the counter now and then; an interrupt between two looks (a clearing of *)
(* the whole storage, at worst) makes the gap a long one.                  *)
(*                                                                         *)
(* elapsed is the true time since the call, which the program cannot see;  *)
(* it is counted as far as Wrap, which no delay reaches.                   *)
(***************************************************************************)
EXTENDS Integers

CONSTANTS
  Wrap,         \* 2^32, the range of DWT_CYCCNT and of a uint32_t
  TicksPerUs,   \* 72
  UsPerMs,      \* 1000
  UsDelays,     \* the arguments of _usleep(): 2
  MsDelays,     \* the arguments of _msleep(): 10 and 150
  MaxGap        \* the longest time between two looks at the counter

\* No delay is so long that its ticks overflow or that the counter gets round to
\* where it was before the loop has seen the end of it.
Short(us) == us * TicksPerUs + MaxGap <= Wrap

ASSUME DelayAssumption ==
  /\ Wrap \in Nat \ {0} /\ TicksPerUs \in Nat /\ UsPerMs \in Nat
  /\ MaxGap \in Nat \ {0}
  /\ UsDelays \subseteq Nat /\ MsDelays \subseteq Nat
  /\ \A us \in UsDelays : us * TicksPerUs \in Nat /\ Short(us)
  /\ \A ms \in MsDelays :
       /\ ms * UsPerMs \in Nat /\ ms * UsPerMs < Wrap
       /\ (ms * UsPerMs) * TicksPerUs \in Nat /\ Short(ms * UsPerMs)

VARIABLES
  cyccnt,       \* DWT_CYCCNT
  t0, us_count_tic,
  waiting,      \* is a caller inside the loop?
  wanted,       \* the ticks the caller asked for
  elapsed

vars == <<cyccnt, t0, us_count_tic, waiting, wanted, elapsed>>

Uint32 == 0 .. Wrap - 1
-------------------------------------------------------------------------------
\* Plausible bugs, told apart by a property below; no part of the specification.
DeltaAbs(a, b)       == IF b >= a THEN b - a ELSE a - b
DeltaSaturated(a, b) == IF b >= a THEN b - a ELSE 0
-------------------------------------------------------------------------------
\* delta(): the difference of two uint32_t.
Delta(a, b) == IF b >= a THEN b - a ELSE b - a + Wrap

\* The counter after g more ticks.
Advanced(g) == IF cyccnt + g < Wrap THEN cyccnt + g ELSE cyccnt + g - Wrap

Init ==
  /\ cyccnt \in Uint32
  /\ t0 = 0 /\ us_count_tic = 0
  /\ waiting = FALSE /\ wanted = 0 /\ elapsed = 0

\* A caller enters _usleep(us); the product is one of 32 bits.
Usleep(us) ==
  /\ ~waiting /\ waiting' = TRUE
  /\ t0' = cyccnt
  /\ us_count_tic' = (us * TicksPerUs) % Wrap
  /\ elapsed' = 0
  /\ UNCHANGED cyccnt

CallUsleep(us) == Usleep(us) /\ wanted' = us * TicksPerUs

CallMsleep(ms) == Usleep((ms * UsPerMs) % Wrap) /\ wanted' = (ms * UsPerMs) * TicksPerUs

\* The loop looks at the counter again, g ticks after it did last.
Look(g) ==
  /\ waiting
  /\ cyccnt' = Advanced(g)
  /\ elapsed' = IF elapsed + g <= Wrap THEN elapsed + g ELSE Wrap
  /\ waiting' = (Delta(t0, cyccnt') < us_count_tic)
  /\ UNCHANGED <<t0, us_count_tic, wanted>>

\* The counter runs on between two calls.
Run(g) ==
  /\ ~waiting /\ g < Wrap
  /\ cyccnt' = Advanced(g)
  /\ UNCHANGED <<t0, us_count_tic, waiting, wanted, elapsed>>

Gaps == 1 .. MaxGap

Next ==
  \/ \E us \in UsDelays : CallUsleep(us)
  \/ \E ms \in MsDelays : CallMsleep(ms)
  \/ \E g \in Gaps : Look(g) \/ Run(g)

Spec == Init /\ [][Next]_vars
-------------------------------------------------------------------------------
TypeOK ==
  /\ cyccnt \in Uint32 /\ t0 \in Uint32 /\ us_count_tic \in Uint32
  /\ waiting \in BOOLEAN /\ wanted \in Nat /\ elapsed \in Nat

Return == waiting /\ ~waiting'

\* A delay is never cut short, wherever the counter stands when it starts: the pad
\* has its 2 us to settle and the host sees the 10 ms disconnect.
NeverShort == [][Return => elapsed' >= wanted]_vars

\* The loop ends at the first look after the time is over: it does not miss the
\* end when an interrupt takes long or the counter wraps.
NeverLate == waiting => elapsed = 0 \/ elapsed < wanted
===============================================================================
