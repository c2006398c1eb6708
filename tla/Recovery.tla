------------------------------ MODULE Recovery ------------------------------
(***************************************************************************)
(* src/cluster/failover/recovery.go over the detectors of detector.go.     *)
(*                                                                         *)
(* A RecoveryManager lists the instances that callers reported, and its    *)
(* loop asks a recovery strategy about each of them until the strategy has *)
(* returned no error RecoveryThreshold times in a row.  The strategy asks  *)
(* the detector, which the callers of the failover handler and, for a      *)
(* HealthCheckDetector, its own check loop write to at the same time.      *)
(* Locks are held for the length of one step, never across a dial.         *)
(*                                                                         *)
(* Instances come and go (up); lastAttemptTime is the flag due, the        *)
(* attempt counters only feed the delay (see Delays).                      *)
(***************************************************************************)
EXTENDS Integers, Sequences

CONSTANTS Instances, None, MaxStarts, Configs,
          FailureThreshold, SuccessThreshold, RecoveryThreshold

\* An entry: the good answers in a row, and whether the recovery delay has passed.
Entries == [successes : Nat, due : BOOLEAN]

ASSUME ThresholdAssumption ==
    /\ FailureThreshold \in Nat \ {0}
    /\ SuccessThreshold \in Nat \ {0}
    /\ RecoveryThreshold \in Nat \ {0}
    /\ MaxStarts \in Nat
    /\ Configs \subseteq {"timeout", "health_check"} \X {"immediate", "gradual", "probing"}
    /\ None \notin Instances \cup Entries

VARIABLES
    kind,      \* the detector NewDetector made
    strategy,  \* the strategy NewRecoveryStrategy made
    up,        \* instance -> it accepts connections
    health,    \* instance -> what BaseDetector recorded
    listed,    \* recoveryStates: instance -> entry or None
    held,      \* instance -> entry the round holds that is no longer in the map
    round,     \* the recovery loop: where it is, the entries to come, the one it is
               \* at; what the instance answered, until that is marked, whether
               \* Detect returned a nil error, and whether the strategy will mark a success
    probes,    \* probingResults
    stopped,   \* done is closed
    cache,     \* instancesCache
    running,   \* HealthCheckDetector.running
    stopCh,    \* stopCh is closed
    loops,     \* the goroutines Start made
    panicked,  \* a channel was closed twice: the process is gone
    streak     \* history: good answers of the instance since its last failure; an
               \* instance that has never failed starts with enough of them

vars == <<kind, strategy, up, health, listed, held, round, probes, stopped,
          cache, running, stopCh, loops, panicked, streak>>

envVars == <<kind, strategy, up>>
markVars == <<health, streak>>
managerVars == <<listed, held, round, probes, stopped>>
checkVars == <<cache, running, stopCh, loops, panicked>>

ProbingThreshold == 3

\* Goroutines of the health check detector, in the order of their Start.
Loops == 1..MaxStarts

NewEntry == [successes |-> 0, due |-> TRUE]
Resting == [pc |-> "select", todo |-> {}, cur |-> None, good |-> FALSE,
            ok |-> FALSE, bless |-> FALSE]
NoLoop == [pc |-> "none", left |-> {}]

-----------------------------------------------------------------------------
(***************************************************************************)
(* BaseDetector.  Counters are compared with their thresholds only, so     *)
(* they saturate there.                                                    *)
(***************************************************************************)
NewHealth == [status |-> "healthy", failures |-> 0, successes |-> 0]

UpTo(limit, n) == IF n < limit THEN n + 1 ELSE n

\* Mutant: a failure leaves the success count.
FailureKeepsCount(h) ==
    LET n == UpTo(FailureThreshold, h.failures)
    IN  [status |-> IF n >= FailureThreshold THEN "unhealthy" ELSE "suspect",
         failures |-> n, successes |-> h.successes]

Failure(h) ==
    LET n == UpTo(FailureThreshold, h.failures)
    IN  [status |-> IF n >= FailureThreshold THEN "unhealthy" ELSE "suspect",
         failures |-> n, successes |-> 0]

Success(h) ==
    LET n == UpTo(SuccessThreshold, h.successes)
    IN  [status |-> IF n >= SuccessThreshold THEN "healthy" ELSE h.status,
         failures |-> 0, successes |-> n]

MarkFailed(i) ==
    /\ health' = [health EXCEPT ![i] = Failure(@)]
    /\ streak' = [streak EXCEPT ![i] = 0]

MarkSuccess(i) ==
    /\ health' = [health EXCEPT ![i] = Success(@)]
    /\ streak' = [streak EXCEPT ![i] = UpTo(SuccessThreshold, @)]

Mark(i, ok) == IF ok THEN MarkSuccess(i) ELSE MarkFailed(i)

\* Detect answers from the record, without a connection.
DetectsFromRecord(h) == h.status = "unhealthy"

-----------------------------------------------------------------------------
Init ==
    /\ \E c \in Configs : kind = c[1] /\ strategy = c[2]
    /\ up \in [Instances -> BOOLEAN]
    /\ health = [i \in Instances |-> NewHealth]
    /\ listed = [i \in Instances |-> None]
    /\ held = [i \in Instances |-> None]
    /\ round = Resting
    /\ probes = [i \in Instances |-> <<>>]
    /\ stopped = FALSE
    /\ cache = {}
    /\ running = FALSE
    /\ stopCh = FALSE
    /\ loops = [l \in Loops |-> NoLoop]
    /\ panicked = FALSE
    /\ streak = [i \in Instances |-> SuccessThreshold]

\* An instance starts or stops to accept connections.
Flip(i) ==
    /\ up' = [up EXCEPT ![i] = ~@]
    /\ UNCHANGED <<kind, strategy, markVars, managerVars, checkVars>>

\* handleSuccess and handleFailure of the failover handler, as far as the
\* detector goes.
Report(i, ok) ==
    /\ ok => up[i]
    /\ Mark(i, ok)
    /\ UNCHANGED <<envVars, managerVars, checkVars>>

-----------------------------------------------------------------------------
(***************************************************************************)
(* RecoveryManager                                                         *)
(***************************************************************************)
\* Whoever calls it passes a status, which may be out of date; a status other than
\* unhealthy or suspect changes nothing.
AddInstance(i) ==
    /\ listed[i] = None
    /\ listed' = [listed EXCEPT ![i] = NewEntry]
    /\ UNCHANGED <<envVars, markVars, held, round, probes, stopped, checkVars>>

\* The round still has the pointer to an entry that leaves the map.
Delete(i) ==
    /\ listed' = [listed EXCEPT ![i] = None]
    /\ held' = [held EXCEPT ![i] =
                  IF i \in round.todo /\ @ = None THEN listed[i] ELSE @]

RemoveInstance(i) ==
    /\ listed[i] # None
    /\ Delete(i)
    /\ UNCHANGED <<envVars, markVars, round, probes, stopped, checkVars>>

\* The entry the round works on: the one it took from the map.
Entry(i) == IF held[i] # None THEN held[i] ELSE listed[i]

SetEntry(i, e) ==
    IF held[i] # None
    THEN held' = [held EXCEPT ![i] = e] /\ UNCHANGED listed
    ELSE listed' = [listed EXCEPT ![i] = e] /\ UNCHANGED held

\* The recovery delay of the strategy passes.
Elapse(i) ==
    /\ listed[i] # None
    /\ ~listed[i].due
    /\ listed' = [listed EXCEPT ![i].due = TRUE]
    /\ UNCHANGED <<envVars, markVars, held, round, probes, stopped, checkVars>>

\* The loop with these entries of its round still to come.
Pending(todo) == IF todo = {} THEN Resting ELSE [Resting EXCEPT !.pc = "next", !.todo = todo]

Tick ==
    /\ round.pc = "select"
    /\ round' = Pending({i \in Instances : listed[i] # None})
    /\ UNCHANGED <<envVars, markVars, listed, held, probes, stopped, checkVars>>

\* recoverInstance up to the first look of Detect at the record.
TooEarly(i) ==
    /\ round.pc = "next"
    /\ i \in round.todo
    /\ ~Entry(i).due
    /\ round' = Pending(round.todo \ {i})
    /\ held' = [held EXCEPT ![i] = None]
    /\ UNCHANGED <<envVars, markVars, listed, probes, stopped, checkVars>>

Attempt(i) ==
    /\ round.pc = "next"
    /\ i \in round.todo
    /\ Entry(i).due
    /\ SetEntry(i, [Entry(i) EXCEPT !.due = FALSE])
    /\ round' = [round EXCEPT !.cur = i, !.ok = TRUE,
                    !.pc = IF DetectsFromRecord(health[i]) THEN "recover" ELSE "dial"]
    /\ UNCHANGED <<envVars, markVars, probes, stopped, checkVars>>

\* A checker may answer that the instance is not healthy without an error; a dial
\* that fails returns one.
NilErrors(answer) == {answer} \cup (IF kind = "health_check" THEN {TRUE} ELSE {})

Dial ==
    /\ round.pc = "dial"
    /\ \E ok \in NilErrors(up[round.cur]) :
          round' = [round EXCEPT !.good = up[round.cur], !.ok = ok, !.pc = "mark"]
    /\ UNCHANGED <<envVars, markVars, listed, held, probes, stopped, checkVars>>

MarkDialled ==
    /\ round.pc = "mark"
    /\ Mark(round.cur, round.good)
    /\ round' = [round EXCEPT !.pc = "recover", !.good = FALSE]
    /\ UNCHANGED <<envVars, listed, held, probes, stopped, checkVars>>

\* probingResults after one more result, the oldest beyond the threshold dropped.
Remember(results, ok) ==
    LET all == Append(results, ok)
    IN  IF Len(all) > ProbingThreshold THEN Tail(all) ELSE all

Convincing(results) ==
    Len(results) = ProbingThreshold /\ \A n \in 1..ProbingThreshold : results[n]

\* Recover, after Detect: the strategy looks at the status and its own record.
Recover ==
    LET i == round.cur
        healthy == round.ok /\ health[i].status = "healthy"
        results == Remember(probes[i], healthy)
        blesses == IF strategy = "probing" THEN Convincing(results) ELSE healthy
    IN  /\ round.pc = "recover"
        /\ round' = [round EXCEPT !.pc = "settle", !.bless = blesses]
        /\ probes' = IF strategy # "probing" THEN probes
                     ELSE [probes EXCEPT ![i] = IF blesses THEN <<>> ELSE results]
        /\ UNCHANGED <<envVars, markVars, listed, held, stopped, checkVars>>

\* Mutant: the success is noted, not counted.
SuccessesNoted(e, ok) == IF ok THEN 1 ELSE 0

\* The count an attempt leaves.
SuccessesAfter(e, ok) == IF ok THEN e.successes + 1 ELSE 0

\* The strategy's own MarkSuccess, which no answer of the instance stands for, and
\* what recoverInstance makes of the result: the two touch different state.
Settle ==
    LET i == round.cur
        n == SuccessesAfter(Entry(i), round.ok)
    IN  /\ round.pc = "settle"
        /\ round' = Pending(round.todo \ {i})
        /\ health' = IF round.bless THEN [health EXCEPT ![i] = Success(@)] ELSE health
        /\ listed' = IF n >= RecoveryThreshold THEN [listed EXCEPT ![i] = None]
                     ELSE IF held[i] # None THEN listed
                     ELSE [listed EXCEPT ![i].successes = n]
        /\ held' = [held EXCEPT ![i] = None]
        /\ UNCHANGED <<envVars, streak, probes, stopped, checkVars>>

Stop ==
    /\ stopped' = TRUE
    /\ panicked' = stopped
    /\ UNCHANGED <<envVars, markVars, listed, held, round, probes, cache, running, stopCh, loops>>

EndLoop ==
    /\ round.pc = "select"
    /\ stopped
    /\ round' = [round EXCEPT !.pc = "ended"]
    /\ UNCHANGED <<envVars, markVars, listed, held, probes, stopped, checkVars>>

-----------------------------------------------------------------------------
(***************************************************************************)
(* HealthCheckDetector                                                     *)
(***************************************************************************)
StartChecks(l) ==
    /\ kind = "health_check"
    /\ ~running
    /\ loops[l].pc = "none"
    /\ \A m \in 1..(l - 1) : loops[m].pc # "none"
    /\ running' = TRUE
    /\ loops' = [loops EXCEPT ![l].pc = "select"]
    /\ UNCHANGED <<envVars, markVars, managerVars, cache, stopCh, panicked>>

StopChecks ==
    /\ running
    /\ running' = FALSE
    /\ stopCh' = TRUE
    /\ panicked' = stopCh
    /\ UNCHANGED <<envVars, markVars, managerVars, cache, loops>>

UpdateInstances(list) ==
    /\ kind = "health_check"
    /\ cache' = list
    /\ UNCHANGED <<envVars, markVars, managerVars, running, stopCh, loops, panicked>>

\* Mutant: the loop looks at running, which a second Start sets again.
CheckLoopEndsByFlag(l) ==
    /\ loops[l].pc = "select"
    /\ ~running
    /\ loops' = [loops EXCEPT ![l].pc = "ended"]
    /\ UNCHANGED <<envVars, markVars, managerVars, cache, running, stopCh, panicked>>

CheckLoopEnds(l) ==
    /\ loops[l].pc = "select"
    /\ stopCh
    /\ loops' = [loops EXCEPT ![l].pc = "ended"]
    /\ UNCHANGED <<envVars, markVars, managerVars, cache, running, stopCh, panicked>>

\* The check loop with these instances of its snapshot still to come.
Checking(left) == [NoLoop EXCEPT !.pc = IF left = {} THEN "select" ELSE "check", !.left = left]

CheckTick(l) ==
    /\ loops[l].pc = "select"
    /\ loops' = [loops EXCEPT ![l] = Checking(cache)]
    /\ UNCHANGED <<envVars, markVars, managerVars, cache, running, stopCh, panicked>>

\* The checker's answer and the mark it leads to.
CheckOne(l, i) ==
    /\ loops[l].pc = "check"
    /\ i \in loops[l].left
    /\ Mark(i, up[i])
    /\ loops' = [loops EXCEPT ![l] = Checking(@.left \ {i})]
    /\ UNCHANGED <<envVars, managerVars, cache, running, stopCh, panicked>>

-----------------------------------------------------------------------------
LoopStep ==
    \/ Tick \/ Dial \/ MarkDialled \/ Recover \/ Settle
    \/ \E i \in Instances : TooEarly(i) \/ Attempt(i)

CheckStep(l) ==
    CheckTick(l) \/ \E i \in Instances : CheckOne(l, i)

Next ==
    /\ ~panicked
    /\ \/ LoopStep
       \/ EndLoop
       \/ Stop
       \/ StopChecks
       \/ \E i \in Instances :
             \/ Flip(i) \/ Report(i, TRUE) \/ Report(i, FALSE)
             \/ AddInstance(i) \/ RemoveInstance(i) \/ Elapse(i)
       \/ \E list \in SUBSET Instances : UpdateInstances(list)
       \/ \E l \in Loops : StartChecks(l) \/ CheckStep(l) \/ CheckLoopEnds(l)

Spec == Init /\ [][Next]_vars

(***************************************************************************)
(* The loops are scheduled and their tickers fire; delays pass.  Nothing   *)
(* is assumed of callers or of the instances.                              *)
(***************************************************************************)
Fairness ==
    /\ WF_vars(~panicked /\ LoopStep)
    /\ \A i \in Instances : WF_vars(~panicked /\ Elapse(i))
    /\ \A l \in Loops : /\ WF_vars(~panicked /\ CheckStep(l))
                        /\ SF_vars(~panicked /\ CheckLoopEnds(l))

FairSpec == Spec /\ Fairness

-----------------------------------------------------------------------------
(***************************************************************************)
(* Properties                                                              *)
(***************************************************************************)
\* recovery.go and detector.go count successes towards a healthy status from
\* three sides: callers, dials and the strategy's own MarkSuccess, which follows
\* a look at the status in a step of its own.  An instance that has failed is
\* healthy again only after SuccessThreshold good answers since its last
\* failure, short of at most the one success a strategy adds by itself.
HealthyIsEarned ==
    \A i \in Instances : health[i].status = "healthy" => streak[i] >= SuccessThreshold - 1

\* recovery.go:128-137: the recovery loop does not keep an instance for ever.  When
\* the instance stays reachable, and is not recorded unhealthy, its entry leaves
\* the list (or the manager is stopped), however callers make it suspect,
\* remove it and add it again, and whatever the check loops find meanwhile.
EntriesLeave ==
    \A i \in Instances :
        <>[](up[i] /\ health[i].status # "unhealthy")
           => (listed[i] # None ~> listed[i] = None \/ stopped \/ panicked)

\* recovery.go:133, "the instance is stable, it can be removed from the recovery
\* list": an instance that the loop takes off the list accepts connections, or
\* has given one good answer at least since its last failure.  The code does not
\* keep it: Detect answers for an instance recorded unhealthy without a dial and
\* without an error, and recoverInstance counts the nil error as a recovery.
LeavesRecovered ==
    [][Settle => \A i \in Instances :
          listed[i] # None /\ listed'[i] = None => up[i] \/ streak[i] > 0]_vars

\* detector.go:266-300: once stopCh is closed every check loop ends, the one that a
\* second Start makes too, and one that is in the middle of its checks.
ChecksEnd ==
    \A l \in Loops : (stopCh /\ loops[l].pc # "none") ~> (loops[l].pc = "ended" \/ panicked)

=============================================================================
