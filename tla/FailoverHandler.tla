-------------------------- MODULE FailoverHandler --------------------------
(***************************************************************************)
(* DefaultFailoverHandler of cluster/failover/failover.go: concurrent      *)
(* calls of Execute over one InstanceManager, one TimeoutDetector          *)
(* (detector.go), one circuit breaker and one retry policy (retry.go).     *)
(*                                                                         *)
(* Every component has its own mutex and Execute holds none of them across *)
(* two calls, so each call of a component is a step of its own.  The       *)
(* breaker is represented by what CircuitBreaker is proved to promise (the *)
(* state diagram of BreakerPromise); which calls a half-open breaker lets  *)
(* through, and which success closes it, is left open.  Its cleanup, which *)
(* drops a closed breaker nobody has used for an hour, is left out.        *)
(*                                                                         *)
(* Whether a dial or an operation fails is the environment's choice, at    *)
(* most MaxFaults times.  Durations (backoff, metrics) are left out.       *)
(***************************************************************************)
EXTENDS Integers, Sequences, FiniteSets, SequencesExt

CONSTANTS
    Callers,            \* goroutines that call Execute
    Instances,          \* instance IDs
    Lists,              \* the instance lists callers pass, the empty one too
    NoInstance,         \* nil
    Strategy,           \* config.FailoverStrategy: "next", "random" or "best"
    MaxRetries,         \* retryPolicy.MaxAttempts()
    Retryable,          \* the errors ShouldRetry accepts
    FailureThreshold,   \* config.FailureThreshold
    SuccessThreshold,   \* config.SuccessThreshold
    Threshold,          \* config.CircuitBreakThreshold
    MaxFaults           \* bound on the failures of the environment

Errors == {"circuit_open",   \* ErrCircuitOpen
           "unavailable",    \* ErrServiceUnavailable
           "refused",        \* the detector's dial: connection refused
           "timeout",        \* the detector's dial: i/o timeout
           "operation"}      \* what the operation returned

ASSUME ListsOfInstances == Lists \subseteq Seq(Instances)
ASSUME StrategyKnown == Strategy \in {"next", "random", "best"}
ASSUME RetryableErrors == Retryable \subseteq Errors
ASSUME Bounds == /\ MaxRetries \in Nat /\ MaxFaults \in Nat
                 /\ {FailureThreshold, SuccessThreshold, Threshold} \subseteq Nat \ {0}

VARIABLES
    list,       \* InstanceManager.instances
    marked,     \* InstanceManager.statusMap
    index,      \* InstanceManager.nextIndexMap["default"]
    health,     \* BaseDetector: status, failureCount, successCount
    breaker,    \* the circuit breaker of each instance
    call,       \* the Execute each caller has under way
    faults,     \* failures of the environment so far
    blamed      \* ghost: instances some dial or operation has failed on

vars == <<list, marked, index, health, breaker, call, faults, blamed>>

NoCall == [pc |-> "idle", instances |-> <<>>, attempt |-> 0, tried |-> {},
           inst |-> NoInstance, err |-> "none", failed |-> <<>>,
           success |-> FALSE, runs |-> <<>>]

-----------------------------------------------------------------------------
(***************************************************************************)
(* InstanceManager                                                         *)
(***************************************************************************)
ListIds(l) == {l[i] : i \in 1..Len(l)}

\* UpdateInstances: the status of an instance survives only while it is listed.
StatusAfterUpdate(l) ==
    [i \in Instances |->
        IF i \notin ListIds(l) THEN "absent"
        ELSE IF marked[i] = "absent" THEN "healthy" ELSE marked[i]]

Selectable(i) == marked[i] # "unhealthy"

\* The positions of the list in the order nextInstance looks at them.
Rotation == [k \in 1..Len(list) |-> ((index + k - 1) % Len(list)) + 1]

\* The first of these positions, if any, whose instance can be selected.
FirstSelectable(positions) ==
    LET ok(k) == Selectable(list[positions[k]])
    IN  {positions[k] : k \in {n \in 1..Len(list) :
                                  ok(n) /\ \A m \in 1..(n - 1) : ~ok(m)}}

\* GetInstance: the instance returned and the index it leaves behind.
Picks ==
    CASE Strategy = "next" ->
           {[inst |-> list[p], index |-> p % Len(list)] : p \in FirstSelectable(Rotation)}
      [] Strategy = "random" ->
           {[inst |-> i, index |-> index] : i \in {j \in ListIds(list) : Selectable(j)}}
      [] Strategy = "best" ->
           {[inst |-> list[p], index |-> index] :
               p \in FirstSelectable([k \in 1..Len(list) |-> k])}

NoneSelectable == \A i \in ListIds(list) : ~Selectable(i)

-----------------------------------------------------------------------------
(***************************************************************************)
(* BaseDetector.  The counters are compared with their thresholds only, so *)
(* they saturate there.                                                    *)
(***************************************************************************)
NewHealth == [status |-> "healthy", failures |-> 0, successes |-> 0]

UpTo(limit, n) == IF n < limit THEN n + 1 ELSE n

MarkFailed(h) ==
    LET n == UpTo(FailureThreshold, h.failures)
    IN  [status |-> IF n >= FailureThreshold THEN "unhealthy" ELSE "suspect",
         failures |-> n, successes |-> 0]

MarkSuccess(h) ==
    LET n == UpTo(SuccessThreshold, h.successes)
    IN  [status |-> IF n >= SuccessThreshold THEN "healthy" ELSE h.status,
         failures |-> 0, successes |-> n]

(***************************************************************************)
(* The circuit breaker, as BreakerPromise has it.                          *)
(***************************************************************************)
NewBreaker == [mode |-> "Closed", errors |-> 0]

BreakerRefuses(b) == b.mode \in {"Cooling", "HalfOpen"}
BreakerAllows(b) == b.mode \in {"Closed", "HalfOpen"}

\* transitionToHalfOpen, which looks at the breaker again.
AfterTransition(b) == IF b.mode = "Ready" THEN [b EXCEPT !.mode = "HalfOpen"] ELSE b

\* A success closes a half-open breaker or leaves it half-open.
AfterSuccess(b) ==
    CASE b.mode = "Closed" -> {NewBreaker}
      [] b.mode = "HalfOpen" -> {NewBreaker, b}
      [] b.mode \in {"Cooling", "Ready"} -> {b}

AfterFailure(b) ==
    CASE b.mode = "Closed" /\ b.errors + 1 < Threshold -> [b EXCEPT !.errors = @ + 1]
      [] b.mode = "Closed" /\ b.errors + 1 >= Threshold -> [mode |-> "Cooling", errors |-> 0]
      [] b.mode = "HalfOpen" -> [mode |-> "Cooling", errors |-> 0]
      [] b.mode \in {"Cooling", "Ready"} -> b

-----------------------------------------------------------------------------
Init ==
    /\ list = <<>>
    /\ marked = [i \in Instances |-> "absent"]
    /\ index = 0
    /\ health = [i \in Instances |-> NewHealth]
    /\ breaker = [i \in Instances |-> NewBreaker]
    /\ call = [c \in Callers |-> NoCall]
    /\ faults = 0
    /\ blamed = {}

manager == <<list, marked, index>>

\* Mutant: an open circuit ends the retries.
ShouldRetryNotOpen(attempt, err) ==
    err \in Retryable \ {"circuit_open"} /\ attempt < MaxRetries

\* retryPolicy.ShouldRetry
ShouldRetry(attempt, err) == err \in Retryable /\ attempt < MaxRetries

\* `continue' after error err: attempt++, and the test at the head of the loop.
NextAttempt(k, err) ==
    LET n == k.attempt + 1
    IN  [k EXCEPT !.attempt = n, !.err = err, !.inst = NoInstance,
                  !.pc = IF n <= MaxRetries /\ ShouldRetry(n, err)
                         THEN "select" ELSE "done"]

\* The instance the attempt failed on is entered in FailedNodes.
Recorded(k) == [k EXCEPT !.failed = Append(k.failed, k.inst)]

Goto(c, where) == call' = [call EXCEPT ![c].pc = where]

\* The detector's error, or its status without one, fails the attempt.
Reject(c, e) == call' = [call EXCEPT ![c].pc = "failDetector", ![c].err = e]

\* Execute(instances) at its first attempt, or already over with error err.
Begun(l, where, err) == [NoCall EXCEPT !.instances = l, !.pc = where, !.err = err]

\* Execute is called: UpdateInstances, then the first attempt.  An empty list
\* is refused only after it has replaced the list all callers share.
Start(c) ==
    /\ call[c].pc = "idle"
    /\ \E l \in Lists :
          /\ list' = l
          /\ marked' = StatusAfterUpdate(l)
          /\ call' = [call EXCEPT ![c] = IF l = <<>> THEN Begun(l, "done", "none_available")
                                         ELSE Begun(l, "select", "none")]
    /\ UNCHANGED <<index, health, breaker, faults, blamed>>

\* Execute is called with a ctx already cancelled: the result names instances[0],
\* which panics on an empty list.
StartCancelled(c) ==
    /\ call[c].pc = "idle"
    /\ \E l \in Lists :
          call' = [call EXCEPT ![c] = Begun(l, IF l = <<>> THEN "panicked" ELSE "done",
                                            "cancelled")]
    /\ UNCHANGED <<manager, health, breaker, faults, blamed>>

\* ctx is cancelled during the backoff before a retry.
Cancel(c) ==
    /\ call[c].pc = "select" /\ call[c].attempt > 0
    /\ call' = [call EXCEPT ![c].pc = "done", ![c].err = "cancelled"]
    /\ UNCHANGED <<manager, health, breaker, faults, blamed>>

\* GetInstance finds nothing: the loop ends.
SelectNone(c) ==
    /\ call[c].pc = "select"
    /\ NoneSelectable
    /\ call' = [call EXCEPT ![c].pc = "done", ![c].err = "none_available"]
    /\ UNCHANGED <<manager, health, breaker, faults, blamed>>

\* Mutant: the instances already tried are not remembered.
SelectForgetful(c) ==
    /\ call[c].pc = "select"
    /\ ~NoneSelectable
    /\ \E ch \in Picks :
          /\ index' = ch.index
          /\ call' = [call EXCEPT ![c].inst = ch.inst, ![c].tried = @ \cup {ch.inst},
                                  ![c].pc = "allow"]
    /\ UNCHANGED <<list, marked, health, breaker, faults, blamed>>

\* GetInstance returns an instance, new to this Execute or already tried.
Select(c) ==
    /\ call[c].pc = "select"
    /\ ~NoneSelectable
    /\ \E ch \in Picks :
          LET k == call[c]
              again == ch.inst \in k.tried
              exhausted == Cardinality(k.tried) >= Len(k.instances)
          IN  /\ index' = ch.index
              /\ call' = [call EXCEPT ![c].inst = ch.inst,
                                      ![c].tried = @ \cup {ch.inst},
                                      ![c].pc = IF ~again THEN "allow"
                                                ELSE IF exhausted THEN "done"
                                                ELSE "retag"]
    /\ UNCHANGED <<list, marked, health, breaker, faults, blamed>>

MarkInstanceStatus(i, status) == marked' = [marked EXCEPT ![i] = status]

\* Mutant: `continue' comes before the instance is marked and counted.
RetagSkipped(c) ==
    /\ call[c].pc = "retag"
    /\ Goto(c, "select")
    /\ UNCHANGED <<manager, health, breaker, faults, blamed>>

\* An instance already tried is marked unhealthy and the attempt is spent.
Retag(c) ==
    /\ call[c].pc = "retag"
    /\ MarkInstanceStatus(call[c].inst, "unhealthy")
    /\ call' = [call EXCEPT ![c] = NextAttempt(@, @.err)]
    /\ UNCHANGED <<list, index, health, breaker, faults, blamed>>

\* circuitBreaker.Allow
Allow(c) ==
    LET i == call[c].inst
    IN  /\ call[c].pc = "allow"
        /\ BreakerAllows(breaker[i])
        /\ Goto(c, "detect")
        /\ UNCHANGED <<manager, health, breaker, faults, blamed>>

\* Allow finds the open period over and, its lock released, makes the breaker
\* half-open unless another call was faster; the call passes either way.
AllowExpired(c) ==
    /\ call[c].pc = "allow"
    /\ breaker[call[c].inst].mode = "Ready"
    /\ Goto(c, "reopen")
    /\ UNCHANGED <<manager, health, breaker, faults, blamed>>

Reopen(c) ==
    /\ call[c].pc = "reopen"
    /\ breaker' = [breaker EXCEPT ![call[c].inst] = AfterTransition(@)]
    /\ Goto(c, "detect")
    /\ UNCHANGED <<manager, health, faults, blamed>>

\* Mutant: a refusal is not entered in FailedNodes.
RefuseUnrecorded(c) ==
    /\ call[c].pc = "allow"
    /\ BreakerRefuses(breaker[call[c].inst])
    /\ call' = [call EXCEPT ![c] = NextAttempt(@, "circuit_open")]
    /\ UNCHANGED <<manager, health, breaker, faults, blamed>>

Refuse(c) ==
    /\ call[c].pc = "allow"
    /\ BreakerRefuses(breaker[call[c].inst])
    /\ call' = [call EXCEPT ![c] = NextAttempt(Recorded(@), "circuit_open")]
    /\ UNCHANGED <<manager, health, breaker, faults, blamed>>

\* TimeoutDetector.Detect: an unhealthy instance is not dialled.
Detect(c) ==
    /\ call[c].pc = "detect"
    /\ IF health[call[c].inst].status = "unhealthy"
       THEN Reject(c, "unavailable")
       ELSE Goto(c, "dial")
    /\ UNCHANGED <<manager, health, breaker, faults, blamed>>

DialFails(c) ==
    LET i == call[c].inst
    IN  /\ call[c].pc = "dial"
        /\ faults < MaxFaults
        /\ faults' = faults + 1
        /\ blamed' = blamed \cup {i}
        /\ health' = [health EXCEPT ![i] = MarkFailed(@)]
        /\ \E e \in {"refused", "timeout"} : Reject(c, e)
        /\ UNCHANGED <<manager, breaker>>

DialSucceeds(c) ==
    /\ call[c].pc = "dial"
    /\ health' = [health EXCEPT ![call[c].inst] = MarkSuccess(@)]
    /\ Goto(c, "verdict")
    /\ UNCHANGED <<manager, breaker, faults, blamed>>

\* Detect's GetStatus, under a new lock: only a healthy instance is called.
Verdict(c) ==
    /\ call[c].pc = "verdict"
    /\ IF health[call[c].inst].status = "healthy"
       THEN Goto(c, "call")
       ELSE Reject(c, "unavailable")
    /\ UNCHANGED <<manager, health, breaker, faults, blamed>>

\* operation(ctx, instance) has run, with error err.
Ran(k, where, err) ==
    [k EXCEPT !.pc = where, !.err = err, !.runs = Append(k.runs, k.inst)]

OperationFails(c) ==
    /\ call[c].pc = "call"
    /\ faults < MaxFaults
    /\ faults' = faults + 1
    /\ blamed' = blamed \cup {call[c].inst}
    /\ call' = [call EXCEPT ![c] = Ran(@, "failDetector", "operation")]
    /\ UNCHANGED <<manager, health, breaker>>

OperationSucceeds(c) ==
    /\ call[c].pc = "call"
    /\ call' = [call EXCEPT ![c] = Ran(@, "okDetector", @.err)]
    /\ UNCHANGED <<manager, health, breaker, faults, blamed>>

\* handleFailure: detector, breaker, manager, each under its own lock.
FailDetector(c) ==
    /\ call[c].pc = "failDetector"
    /\ health' = [health EXCEPT ![call[c].inst] = MarkFailed(@)]
    /\ Goto(c, "failBreaker")
    /\ UNCHANGED <<manager, breaker, faults, blamed>>

FailBreaker(c) ==
    /\ call[c].pc = "failBreaker"
    /\ breaker' = [breaker EXCEPT ![call[c].inst] = AfterFailure(@)]
    /\ Goto(c, "failManager")
    /\ UNCHANGED <<manager, health, faults, blamed>>

\* Mutant: the first instance of the list is marked, as the result names it by
\* default, not the one called.
FailManagerFirst(c) ==
    /\ call[c].pc = "failManager"
    /\ MarkInstanceStatus(call[c].instances[1], "unhealthy")
    /\ call' = [call EXCEPT ![c] = NextAttempt(Recorded(@), @.err)]
    /\ UNCHANGED <<list, index, health, breaker, faults, blamed>>

FailManager(c) ==
    /\ call[c].pc = "failManager"
    /\ MarkInstanceStatus(call[c].inst, "unhealthy")
    /\ call' = [call EXCEPT ![c] = NextAttempt(Recorded(@), @.err)]
    /\ UNCHANGED <<list, index, health, breaker, faults, blamed>>

\* handleSuccess, likewise.
OkDetector(c) ==
    /\ call[c].pc = "okDetector"
    /\ health' = [health EXCEPT ![call[c].inst] = MarkSuccess(@)]
    /\ Goto(c, "okBreaker")
    /\ UNCHANGED <<manager, breaker, faults, blamed>>

OkBreaker(c) ==
    LET i == call[c].inst
    IN  /\ call[c].pc = "okBreaker"
        /\ \E b \in AfterSuccess(breaker[i]) : breaker' = [breaker EXCEPT ![i] = b]
        /\ Goto(c, "okManager")
        /\ UNCHANGED <<manager, health, faults, blamed>>

OkManager(c) ==
    /\ call[c].pc = "okManager"
    /\ MarkInstanceStatus(call[c].inst, "healthy")
    /\ call' = [call EXCEPT ![c].pc = "done", ![c].success = TRUE]
    /\ UNCHANGED <<list, index, health, breaker, faults, blamed>>

\* Execute returns its FailoverResult.  Which error goes with it (an open
\* circuit first, then the spent retries) is left out: nothing here reads it.
Return(c) ==
    /\ call[c].pc = "done"
    /\ call' = [call EXCEPT ![c] = NoCall]
    /\ UNCHANGED <<manager, health, breaker, faults, blamed>>

\* The open period of a breaker ends.
CoolDown ==
    \E i \in Instances :
        /\ breaker[i].mode = "Cooling"
        /\ breaker' = [breaker EXCEPT ![i].mode = "Ready"]
        /\ UNCHANGED <<manager, health, call, faults, blamed>>

-----------------------------------------------------------------------------
\* A caller inside Execute goes on.
Continue(c) ==
    \/ SelectNone(c) \/ Select(c) \/ Retag(c)
    \/ Allow(c) \/ AllowExpired(c) \/ Reopen(c) \/ Refuse(c)
    \/ Detect(c) \/ DialFails(c) \/ DialSucceeds(c) \/ Verdict(c)
    \/ OperationFails(c) \/ OperationSucceeds(c)
    \/ FailDetector(c) \/ FailBreaker(c) \/ FailManager(c)
    \/ OkDetector(c) \/ OkBreaker(c) \/ OkManager(c) \/ Return(c)

\* A panic nobody recovers ends the process.
Panicked == \E c \in Callers : call[c].pc = "panicked"

Next ==
    /\ ~Panicked
    /\ \/ CoolDown
       \/ \E c \in Callers : Start(c) \/ StartCancelled(c) \/ Cancel(c) \/ Continue(c)

Spec == Init /\ [][Next]_vars

\* Every caller's goroutine runs, dials and operations end (both have a
\* deadline) and the clock advances.
Fairness ==
    /\ WF_vars(~Panicked /\ CoolDown)
    /\ \A c \in Callers : WF_vars(~Panicked /\ Continue(c))

FairSpec == Spec /\ Fairness

\* The callers keep calling.
BusySpec == FairSpec /\ \A c \in Callers : WF_vars(~Panicked /\ Start(c))

-----------------------------------------------------------------------------
Returned(c) == call[c].pc = "done"

\* One Execute runs the operation at most once on each instance, although the
\* manager that picks the instances is shared with other callers and may pick
\* one again (a non-idempotent operation would be repeated on a server that
\* already carried it out).
AtMostOncePerInstance ==
    \A c \in Callers : IsInjective(call[c].runs)

\* The result is truthful: FailedNodes names exactly the instances that were
\* tried without success, each once, and success means that the last operation
\* ran on an instance that is not among them.
ResultTruthful ==
    \A c \in Callers : Returned(c) =>
        LET k == call[c]
        IN  /\ IsInjective(k.failed)
            /\ ListIds(k.failed) = k.tried \ (IF k.success THEN {k.inst} ELSE {})
            /\ k.success => k.runs # <<>> /\ Last(k.runs) = k.inst

\* An instance is taken out of rotation only if a dial or an operation on it
\* has failed at some time: neither the breaker, nor the detector, nor the
\* rule that marks an already tried instance unhealthy blames a server that
\* never failed.
ExclusionHasCause ==
    \A i \in Instances : marked[i] = "unhealthy" => i \in blamed

\* Execute gives up for a reason: it succeeded, was cancelled, used its
\* attempts up, tried as many instances as its list has, or found none in
\* rotation.
\* ("when an instance fails or is unavailable, switches automatically to
\* another available instance", failover.md:3)
SwitchesInstance ==
    \A c \in Callers : Returned(c) =>
        \/ call[c].success
        \/ call[c].err = "cancelled"
        \/ call[c].attempt >= MaxRetries
        \/ Cardinality(call[c].tried) >= Len(call[c].instances)
        \/ call[c].err = "none_available"

\* Every Execute returns, whatever the other callers do to the shared state,
\* unless a panic ends the process.
ExecuteReturns ==
    \A c \in Callers : call[c].pc # "idle" ~> call[c].pc = "idle" \/ Panicked

\* "after the service has recovered it is automatically taken back into the
\* pool of available instances" (failover.md:10).  Once the environment stops
\* failing (MaxFaults is finite), an excluded instance returns to rotation.
Reinstated ==
    \A i \in Instances : marked[i] = "unhealthy" ~> marked[i] # "unhealthy"

-----------------------------------------------------------------------------
(***************************************************************************)
(* Why the safety properties hold: the parts of the inductive invariant.   *)
(***************************************************************************)
\* Where an Execute has selected an instance and not run its operation yet, and
\* where handleFailure and handleSuccess are under way.
Asking == {"allow", "reopen", "detect", "dial", "verdict", "call"}
Failing == {"failDetector", "failBreaker", "failManager"}
Succeeding == {"okDetector", "okBreaker", "okManager"}

Outcomes == Errors \cup {"none", "cancelled", "none_available"}

CallRecords ==
    [pc : {"idle", "select", "retag", "done", "panicked"} \cup Asking \cup Failing \cup Succeeding,
     instances : Seq(Instances), attempt : Nat, tried : SUBSET Instances,
     inst : Instances \cup {NoInstance}, err : Outcomes, failed : Seq(Instances),
     success : BOOLEAN, runs : Seq(Instances)]

TypeOK ==
    /\ list \in Seq(Instances) /\ index \in Nat
    /\ marked \in [Instances -> {"absent", "healthy", "unhealthy"}]
    /\ health \in [Instances -> [status : {"healthy", "suspect", "unhealthy"},
                                 failures : Nat, successes : Nat]]
    /\ breaker \in [Instances -> [mode : {"Closed", "Cooling", "Ready", "HalfOpen"},
                                  errors : Nat]]
    /\ call \in [Callers -> CallRecords]
    /\ faults \in Nat /\ blamed \subseteq Instances

\* What Execute k has run and blamed agrees with what it has tried, whatever the
\* manager hands it.
Tracked(k) ==
    /\ k.runs \in Seq(k.tried) /\ IsInjective(k.runs)
    /\ k.failed \in Seq(k.tried) /\ IsInjective(k.failed)
    /\ k.pc \in Asking \cup Failing \cup Succeeding =>
          k.inst \in k.tried /\ ListIds(k.failed) = k.tried \ {k.inst}
    /\ k.pc = "retag" => k.inst \in k.tried
    /\ k.pc \in {"select", "retag"} => ListIds(k.failed) = k.tried
    /\ k.pc \in Asking => k.inst \notin ListIds(k.runs)
    /\ k.pc \in Succeeding => k.runs # <<>> /\ Last(k.runs) = k.inst
    /\ k.success => k.pc = "done" /\ k.runs # <<>> /\ Last(k.runs) = k.inst
    /\ k.pc = "done" =>
          ListIds(k.failed) = k.tried \ (IF k.success THEN {k.inst} ELSE {})

\* What Execute k has recorded or is about to report as failed has failed.
Truthful(k) ==
    /\ k.pc \in Failing => k.inst \in blamed
    /\ ListIds(k.failed) \subseteq blamed

\* From its first failure on Execute k has an error the policy can judge, and it
\* gives up for a reason.
Persistent(k) ==
    /\ k.pc \in Failing \cup {"retag"} => k.err \in Errors
    /\ k.pc = "select" /\ k.tried # {} => k.err \in Errors
    /\ k.pc = "done" =>
          \/ k.success \/ k.err \in {"cancelled", "none_available"}
          \/ k.attempt >= MaxRetries
          \/ Cardinality(k.tried) >= Len(k.instances)

CallsInOrder == \A c \in Callers : Tracked(call[c]) /\ Truthful(call[c])
CallsPersist == \A c \in Callers : Persistent(call[c])

Suspected(i) ==
    \/ marked[i] = "unhealthy"
    \/ health[i].status # "healthy"
    \/ breaker[i].mode # "Closed" \/ breaker[i].errors > 0

\* An instance that one of the three views holds something against has failed.
SuspicionHasCause == \A i \in Instances : Suspected(i) => i \in blamed
=============================================================================
