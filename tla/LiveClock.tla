----------------------------- MODULE LiveClock -----------------------------
(***************************************************************************)
(* The clock both verifications of the Rust verifier read.  Instants are   *)
(* ticks; key windows may begin and end at any tick, statements and claims *)
(* only name whole seconds, and a verifier observes whole seconds.         *)
(***************************************************************************)
EXTENDS Naturals

CONSTANTS
  TicksPerSecond,   \* 1000 in the code, where a tick is a millisecond
  LastInstant       \* bound on the clock

ASSUME SecondAssumption == TicksPerSecond \in Nat \ {0}

VARIABLE now        \* the time of day, in ticks

Instant(second) == second * TicksPerSecond

\* The second the instant rounds up to: the early answer of a rounding clock.
LiveObservation_RoundedUp(instant) ==
  ((instant + TicksPerSecond - 1) \div TicksPerSecond) * TicksPerSecond

\* The verifier keeps the whole seconds of the system clock.
LiveObservation(instant) == instant - (instant % TicksPerSecond)

Tick == now < LastInstant /\ now' = now + 1
=============================================================================
