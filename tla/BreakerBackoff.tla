--------------------------- MODULE BreakerBackoff ---------------------------
(***************************************************************************)
(* How long the circuit breaker of cluster/failover/breaker.go stays open: *)
(* backoffFactor, the cap on the open period and the conversion of a       *)
(* float64 to time.Duration.  One instance, one caller; the interleavings  *)
(* are the subject of CircuitBreaker.                                      *)
(*                                                                         *)
(* Durations are counted in ticks.  backoffFactor is kept as a multiple of *)
(* 1/Scale.  The calls of a half-open breaker are abstracted to the two    *)
(* ways its period can end.                                                *)
(***************************************************************************)
EXTENDS Integers

CONSTANTS
    Timeout,        \* b.timeout, in ticks
    Threshold,      \* b.threshold
    Scale,          \* backoffFactor 1.0
    MaxDuration,    \* the largest time.Duration (2^63 - 1 ns)
    MaxRelapses     \* bound: failed half-open periods in a row

MaxTimeout == 10 * Timeout

ASSUME TimeoutFits == Timeout \in Nat \ {0} /\ MaxTimeout <= MaxDuration
ASSUME ScalePositive == Scale \in Nat \ {0}
ASSUME ThresholdPositive == Threshold \in Nat \ {0}
ASSUME BoundGiven == MaxRelapses \in Nat /\ MaxDuration \in Nat

VARIABLES state,     \* instanceState.state
          errors,    \* consecutiveError, saturating at Threshold
          factor,    \* backoffFactor * Scale
          period,    \* openUntil minus the moment the breaker opened
          elapsed,   \* ticks since the breaker opened
          relapses   \* ghost: half-open periods that failed since it was closed

vars == <<state, errors, factor, period, elapsed, relapses>>

\* float64(b.timeout) * f, in ticks, and whether a Duration can hold it.
Ticks(f) == (Timeout * f) \div Scale
Fits(f) == Ticks(f) <= MaxDuration

\* time.Duration(float64(b.timeout) * f).  Go leaves the conversion of a value
\* that does not fit to the implementation: amd64 yields the most negative
\* int64, arm64 the largest.
ToDuration(f) == IF Fits(f) THEN {Ticks(f)} ELSE {-MaxDuration - 1, MaxDuration}

\* if timeout > maxTimeout { timeout = maxTimeout }
Capped(d) == IF d > MaxTimeout THEN MaxTimeout ELSE d

\* if state.backoffFactor < 1.0 { state.backoffFactor = 1.0 }
AtLeastOne(f) == IF f < Scale THEN Scale ELSE f

\* The breaker opens for a period computed from factor f.
OpenFor(f) ==
    /\ state' = "Open"
    /\ \E d \in ToDuration(f) : period' = Capped(d)
    /\ elapsed' = 0

Init ==
    /\ state = "Closed"
    /\ errors = 0
    /\ factor = Scale
    /\ period = 0
    /\ elapsed = 0
    /\ relapses = 0

\* MarkFailure while closed.
FailureClosed ==
    /\ state = "Closed"
    /\ errors' = errors + 1
    /\ IF errors' >= Threshold
       THEN OpenFor(AtLeastOne(factor)) /\ factor' = AtLeastOne(factor) * 2
       ELSE UNCHANGED <<state, period, elapsed, factor>>
    /\ UNCHANGED relapses

\* Mutant: a relapse does not raise the factor.
FailureHalfOpenFlat ==
    /\ state = "HalfOpen"
    /\ relapses < MaxRelapses
    /\ relapses' = relapses + 1
    /\ OpenFor(factor)
    /\ UNCHANGED <<errors, factor>>

\* MarkFailure while half-open.
FailureHalfOpen ==
    /\ state = "HalfOpen"
    /\ relapses < MaxRelapses
    /\ relapses' = relapses + 1
    /\ OpenFor(factor)
    /\ factor' = (factor * 3) \div 2
    /\ UNCHANGED errors

\* MarkSuccess while closed, and the one that closes a half-open breaker.
SuccessClosed ==
    /\ state = "Closed"
    /\ errors' = 0
    /\ UNCHANGED <<state, factor, period, elapsed, relapses>>

\* Mutant: closing does not reset backoffFactor.
SuccessHalfOpenKeepsFactor ==
    /\ state = "HalfOpen"
    /\ state' = "Closed"
    /\ errors' = 0
    /\ relapses' = 0
    /\ UNCHANGED <<factor, period, elapsed>>

SuccessHalfOpen ==
    /\ state = "HalfOpen"
    /\ state' = "Closed"
    /\ errors' = 0
    /\ factor' = Scale
    /\ relapses' = 0
    /\ UNCHANGED <<period, elapsed>>

\* time.Now().After(state.openUntil)
Due == state = "Open" /\ elapsed > period

\* Allow and transitionToHalfOpen.
Allow ==
    /\ Due
    /\ state' = "HalfOpen"
    /\ UNCHANGED <<errors, factor, period, elapsed, relapses>>

\* The clock; nothing looks at it after the longest period.
Tick ==
    /\ state = "Open"
    /\ elapsed <= MaxTimeout
    /\ elapsed' = elapsed + 1
    /\ UNCHANGED <<state, errors, factor, period, relapses>>

Next ==
    \/ FailureClosed \/ FailureHalfOpen \/ SuccessClosed \/ SuccessHalfOpen
    \/ Allow \/ Tick

Spec == Init /\ [][Next]_vars

-----------------------------------------------------------------------------
TypeOK ==
    /\ state \in {"Closed", "Open", "HalfOpen"}
    /\ errors \in 0..Threshold
    /\ factor \in Nat
    /\ period \in -MaxDuration - 1..MaxTimeout
    /\ elapsed \in 0..MaxTimeout + 1
    /\ relapses \in 0..MaxRelapses

\* "the next open period will be longer" (breaker.go:221): every relapse lengthens
\* the open period until it reaches the cap, as long as a Duration can hold the
\* product.  backoffFactor has no cap of its own, so in a long outage it no longer
\* fits, and the negative one amd64 makes of it is below maxTimeout.
PeriodsGrowWhileTheyFit ==
    [][state = "HalfOpen" /\ state' = "Open" /\ Fits(factor)
          => period' > period \/ period' = MaxTimeout]_vars

\* The backoff never outlives the outage: a closed breaker opens for exactly
\* its timeout, whatever happened before it was closed.
OutageForgotten == [][state = "Closed" /\ state' = "Open" => period' = Timeout]_vars
=============================================================================
