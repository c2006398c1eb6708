--------------------------- MODULE BreakerPromise ---------------------------
(***************************************************************************)
(* What a circuit breaker promises its callers, without goroutines, locks  *)
(* or counters: the state diagram of doc/failover.md ("closed", "open",    *)
(* "half-open"), with the open state split into Cooling (its period is     *)
(* running) and Ready (the period is over, nobody has called yet).         *)
(***************************************************************************)
EXTENDS Integers

CONSTANTS Lives,       \* names of the breaker's incarnations
          NoLife,      \* the breaker does not exist yet
          Threshold    \* consecutive failures that open the breaker

VARIABLES mode,        \* "Closed", "Cooling", "Ready" or "HalfOpen"
          errors,      \* consecutive failures while closed
          life         \* the incarnation: a reset or a new entry starts one

vars == <<mode, errors, life>>

Init == mode = "Closed" /\ errors = 0 /\ life = NoLife

\* A closed breaker counts consecutive failures ...
Failure ==
    /\ mode = "Closed" /\ errors + 1 < Threshold
    /\ errors' = errors + 1
    /\ UNCHANGED <<mode, life>>

Success ==
    /\ mode = "Closed"
    /\ errors' = 0
    /\ UNCHANGED <<mode, life>>

\* ... and opens at exactly Threshold of them.
Trip ==
    /\ mode = "Closed" /\ errors + 1 = Threshold
    /\ mode' = "Cooling" /\ errors' = 0
    /\ UNCHANGED life

Move(from, to) ==
    /\ mode = from /\ mode' = to
    /\ UNCHANGED <<errors, life>>

CoolDown == Move("Cooling", "Ready")
Probe == Move("Ready", "HalfOpen")
Recover == Move("HalfOpen", "Closed")
Relapse == Move("HalfOpen", "Cooling")

\* Only a new incarnation may close a breaker that is open.
Renew ==
    /\ life' \in Lives \ {life}
    /\ mode' = "Closed" /\ errors' = 0

\* Only a closed breaker may be dropped.
Drop ==
    /\ mode = "Closed"
    /\ life' = NoLife /\ errors' = 0
    /\ UNCHANGED mode

Next ==
    \/ Failure \/ Success \/ Trip \/ CoolDown \/ Probe \/ Recover \/ Relapse
    \/ Renew \/ Drop

Spec == Init /\ [][Next]_vars
=============================================================================
