--------------------------- MODULE CircuitBreaker ---------------------------
(***************************************************************************)
(* SimpleCircuitBreaker of cluster/failover/breaker.go, for one instance   *)
(* ID.  The entries of b.instances share nothing but the map's mutex, so   *)
(* one key shows every interleaving that matters.                          *)
(*                                                                         *)
(* Goroutines (Threads) use the breaker the way failover.go's Execute      *)
(* does: Allow, then the guarded call, then exactly one of MarkSuccess and *)
(* MarkFailure.  Every operation is cut where the code holds no lock:      *)
(*                                                                         *)
(*   - getOrCreateState returns a POINTER, used after b.mu is released, so *)
(*     the object may have been replaced by Reset or dropped by the        *)
(*     cleanup goroutine when the operation finally locks it;              *)
(*   - Allow reads halfOpenCounter and increments it under a SHARED lock;  *)
(*   - Allow releases the object's lock before transitionToHalfOpen.       *)
(*                                                                         *)
(* Time is abstracted.  openUntil is the flag `expired' (has openUntil     *)
(* passed?), made true by Expire.  lastAccessTime is dropped: an hour may  *)
(* pass between any two steps, so RemoveStaleInstances may find an object  *)
(* idle at any moment.  The length of the open period (backoffFactor) is   *)
(* the subject of BreakerBackoff.  openCount and lastErrorTime are         *)
(* written and never read.                                                 *)
(***************************************************************************)
EXTENDS Integers, FiniteSets

CONSTANTS
    Threads,          \* goroutines that make calls through the breaker
    Objects,          \* addresses for instanceState objects
    None,             \* the nil pointer
    Threshold,        \* b.threshold
    HalfOpenMaxCall,  \* b.halfOpenMaxCall
    SuccessNum,       \* b.halfOpenSuccess is the ratio
    SuccessDen        \*   SuccessNum / SuccessDen

ASSUME ThreadsFinite == IsFiniteSet(Threads)
ASSUME NoneIsNoObject == None \notin Objects
\* The guards of WithCircuitBreaker and WithHalfOpenConfig in config.go.
ASSUME ThresholdPositive == Threshold \in Nat \ {0}
ASSUME MaxCallPositive == HalfOpenMaxCall \in Nat \ {0}
ASSUME SuccessRatio ==
    /\ SuccessNum \in Nat \ {0}
    /\ SuccessDen \in Nat \ {0}
    /\ SuccessNum <= SuccessDen

VARIABLES
    heap,       \* the instanceState stored at each address
    entry,      \* b.instances[id], None when the key is absent
    pc,         \* where each goroutine is
    ptr,        \* the *instanceState each goroutine holds
    cleaner,    \* the cleanup goroutine and b.done
    counted     \* ghost: the object whose CURRENT half-open period counted
                \*   the call the goroutine has under way

vars == <<heap, entry, pc, ptr, cleaner, counted>>

States == {"Closed", "Open", "HalfOpen"}

\* consecutiveError is compared with threshold and nothing else, so it
\* saturates there.
InstanceState ==
    [state    : States,
     errors   : 0..Threshold,    \* consecutiveError
     expired  : BOOLEAN,         \* time.Now().After(openUntil)
     counter  : Nat,             \* halfOpenCounter
     success  : Nat,             \* halfOpenSuccess
     calls    : Nat]             \* halfOpenCalls

NewState ==
    [state |-> "Closed", errors |-> 0, expired |-> FALSE,
     counter |-> 0, success |-> 0, calls |-> 0]

PCs == {"idle",        \* between two calls
        "allow",       \* in Allow, object fetched, not yet locked
        "count",       \* in Allow, RLock held, about to bump the counters
        "reopen",      \* in Allow, lock released, before transitionToHalfOpen
        "transition",  \* in transitionToHalfOpen, object fetched
        "calling",     \* Allow returned true, the call is under way
        "succeeded",   \* in MarkSuccess, object fetched
        "failed"}      \* in MarkFailure, object fetched

-----------------------------------------------------------------------------
\* An address nobody refers to: what the garbage collector may reuse.
Unreachable(o) == o # entry /\ \A t \in Threads : ptr[t] # o

\* RWMutex: the write lock of o waits until no Allow is between its read of
\* the counter and its increments.
NoReaders(o) == \A t \in Threads : ~(pc[t] = "count" /\ ptr[t] = o)

\* A half-open period of o ends: its calls no longer belong to it.
Forget(f, o) == [t \in Threads |-> IF f[t] = o THEN None ELSE f[t]]

\* b.instances[id] = &instanceState{...}
Install(o) ==
    /\ Unreachable(o)
    /\ entry' = o
    /\ heap' = [heap EXCEPT ![o] = NewState]
    /\ counted' = Forget(counted, o)

\* getOrCreateState.  A lookup that misses is followed by a second one under
\* the write lock, so lookup and creation together are one atomic step.
GetOrCreateState(o) ==
    \/ /\ entry # None
       /\ o = entry
       /\ UNCHANGED <<heap, entry, counted>>
    \/ /\ entry = None
       /\ Install(o)

Goto(t, where) == pc' = [pc EXCEPT ![t] = where]

\* An operation fetches the object and will lock it in a later step.
Fetch(t, where) ==
    \E o \in Objects :
        /\ GetOrCreateState(o)
        /\ ptr' = [ptr EXCEPT ![t] = o]
        /\ Goto(t, where)
        /\ UNCHANGED cleaner

\* t lets go of the object.
Release(t) == ptr' = [ptr EXCEPT ![t] = None]

-----------------------------------------------------------------------------
Init ==
    /\ heap = [o \in Objects |-> NewState]
    /\ entry = None
    /\ pc = [t \in Threads |-> "idle"]
    /\ ptr = [t \in Threads |-> None]
    /\ cleaner = "running"
    /\ counted = [t \in Threads |-> None]

(***************************************************************************)
(* Allow                                                                   *)
(***************************************************************************)
AllowFetch(t) == pc[t] = "idle" /\ Fetch(t, "allow")

\* StateClosed: every request passes.
AllowClosed(t) ==
    /\ pc[t] = "allow"
    /\ heap[ptr[t]].state = "Closed"
    /\ Goto(t, "calling")
    /\ Release(t)
    /\ UNCHANGED <<heap, entry, cleaner, counted>>

\* state.state == StateOpen && time.Now().After(state.openUntil)
Due(s) == s.state = "Open" /\ s.expired

\* StateOpen past openUntil: unlock, then transitionToHalfOpen.  All that is
\* still done with the pointer is to take and drop its read lock.
AllowExpired(t) ==
    /\ pc[t] = "allow"
    /\ Due(heap[ptr[t]])
    /\ Goto(t, "reopen")
    /\ Release(t)
    /\ UNCHANGED <<heap, entry, cleaner, counted>>

\* StateHalfOpen below the limit: the counter was read, the lock is kept.
AllowProbe(t) ==
    /\ pc[t] = "allow"
    /\ heap[ptr[t]].state = "HalfOpen"
    /\ heap[ptr[t]].counter < HalfOpenMaxCall
    /\ Goto(t, "count")
    /\ UNCHANGED <<heap, entry, ptr, cleaner, counted>>

Refuses(s) ==
    \/ s.state = "Open" /\ ~s.expired
    \/ s.state = "HalfOpen" /\ s.counter >= HalfOpenMaxCall

\* ErrCircuitOpen.
AllowRefuse(t) ==
    /\ pc[t] = "allow"
    /\ Refuses(heap[ptr[t]])
    /\ Goto(t, "idle")
    /\ Release(t)
    /\ UNCHANGED <<heap, entry, cleaner, counted>>

AfterCount(s) == [s EXCEPT !.counter = @ + 1, !.calls = @ + 1]

\* The two atomic additions (halfOpenCalls is read under the write lock only,
\* so nobody sees one without the other) and the return.
AllowCount(t) ==
    /\ pc[t] = "count"
    /\ heap' = [heap EXCEPT ![ptr[t]] = AfterCount(heap[ptr[t]])]
    /\ counted' = [counted EXCEPT ![t] = ptr[t]]
    /\ Goto(t, "calling")
    /\ Release(t)
    /\ UNCHANGED <<entry, cleaner>>

\* transitionToHalfOpen looks the object up again: it may be another one.
TransitionFetch(t) == pc[t] = "reopen" /\ Fetch(t, "transition")

\* Mutant: openUntil is not looked at again under the write lock.
AfterTransitionUnchecked(s) ==
    IF s.state = "Open"
    THEN [s EXCEPT !.state = "HalfOpen", !.counter = 0, !.success = 0, !.calls = 0]
    ELSE s

\* Mutant: the new state is not stored.
AfterTransitionLost(s) == s

\* Half-open, with a full budget.
AfterTransition(s) ==
    IF Due(s)
    THEN [s EXCEPT !.state = "HalfOpen", !.counter = 0, !.success = 0, !.calls = 0]
    ELSE s

\* The rest of transitionToHalfOpen and `return true, nil' of Allow.
TransitionToHalfOpen(t) ==
    LET o == ptr[t]
    IN  /\ pc[t] = "transition"
        /\ NoReaders(o)
        /\ heap' = [heap EXCEPT ![o] = AfterTransition(heap[o])]
        /\ counted' = IF Due(heap[o]) THEN Forget(counted, o) ELSE counted
        /\ Goto(t, "calling")
        /\ Release(t)
        /\ UNCHANGED <<entry, cleaner>>

(***************************************************************************)
(* MarkSuccess and MarkFailure                                             *)
(***************************************************************************)
\* The call returns (or the health check in front of it fails) and its
\* outcome is to be reported.
MarkFetch(t) ==
    /\ pc[t] = "calling"
    /\ \E outcome \in {"succeeded", "failed"} : Fetch(t, outcome)

\* calls > 0 && float64(success)/float64(calls) >= b.halfOpenSuccess
RateReached(success, calls) ==
    calls > 0 /\ success * SuccessDen >= SuccessNum * calls

\* Mutant: closing does not clear consecutiveError.
AfterSuccessKeepsErrors(s) ==
    IF s.state # "HalfOpen" THEN [s EXCEPT !.errors = 0]
    ELSE IF RateReached(s.success + 1, s.calls)
    THEN [s EXCEPT !.state = "Closed", !.counter = 0, !.success = 0, !.calls = 0]
    ELSE [s EXCEPT !.success = @ + 1]

\* Mutant: the rate is computed before the success is counted.
AfterSuccessStaleRate(s) ==
    IF s.state # "HalfOpen" THEN [s EXCEPT !.errors = 0]
    ELSE IF RateReached(s.success, s.calls)
    THEN [s EXCEPT !.errors = 0, !.state = "Closed",
                   !.counter = 0, !.success = 0, !.calls = 0]
    ELSE [s EXCEPT !.errors = 0, !.success = @ + 1]

AfterSuccess(s) ==
    IF s.state # "HalfOpen" THEN [s EXCEPT !.errors = 0]
    ELSE IF RateReached(s.success + 1, s.calls)
    THEN [s EXCEPT !.errors = 0, !.state = "Closed",
                   !.counter = 0, !.success = 0, !.calls = 0]
    ELSE [s EXCEPT !.errors = 0, !.success = @ + 1]

OneMoreError(n) == IF n < Threshold THEN n + 1 ELSE n

\* Mutant: the threshold is compared with the count before this failure.
AfterFailureLate(s) ==
    LET n == OneMoreError(s.errors)
    IN  IF s.state = "HalfOpen"
        THEN [s EXCEPT !.errors = n, !.state = "Open", !.expired = FALSE,
                       !.counter = 0, !.success = 0, !.calls = 0]
        ELSE IF s.state = "Closed" /\ s.errors >= Threshold
        THEN [s EXCEPT !.errors = n, !.state = "Open", !.expired = FALSE]
        ELSE [s EXCEPT !.errors = n]

\* Mutant: a failed probe does not open the breaker again.
AfterFailureOfProbe(s) ==
    LET n == OneMoreError(s.errors)
    IN  IF s.state = "Closed" /\ n >= Threshold
        THEN [s EXCEPT !.errors = n, !.state = "Open", !.expired = FALSE]
        ELSE [s EXCEPT !.errors = n]

AfterFailure(s) ==
    LET n == OneMoreError(s.errors)
    IN  IF s.state = "HalfOpen"
        THEN [s EXCEPT !.errors = n, !.state = "Open", !.expired = FALSE,
                       !.counter = 0, !.success = 0, !.calls = 0]
        ELSE IF s.state = "Closed" /\ n >= Threshold
        THEN [s EXCEPT !.errors = n, !.state = "Open", !.expired = FALSE]
        ELSE [s EXCEPT !.errors = n]

\* Writes `next' into the object t holds, under the write lock, and forgets
\* the half-open period if that ends it; t's call is over.
Mark(t, next) ==
    LET o == ptr[t]
        over == heap[o].state = "HalfOpen" /\ next.state # "HalfOpen"
        kept == IF over THEN Forget(counted, o) ELSE counted
    IN  /\ NoReaders(o)
        /\ heap' = [heap EXCEPT ![o] = next]
        /\ counted' = [kept EXCEPT ![t] = None]
        /\ Goto(t, "idle")
        /\ Release(t)
        /\ UNCHANGED <<entry, cleaner>>

MarkSuccess(t) == pc[t] = "succeeded" /\ Mark(t, AfterSuccess(heap[ptr[t]]))

MarkFailure(t) == pc[t] = "failed" /\ Mark(t, AfterFailure(heap[ptr[t]]))

(***************************************************************************)
(* The other operations and the passing of time                            *)
(***************************************************************************)
\* GetState computes its answer under RLock and writes only lastAccessTime,
\* but getOrCreateState may create the entry.
GetState ==
    /\ \E o \in Objects : GetOrCreateState(o)
    /\ UNCHANGED <<pc, ptr, cleaner>>

\* Reset installs a new object whatever the old one is doing.
Reset ==
    /\ \E o \in Objects : Install(o)
    /\ UNCHANGED <<pc, ptr, cleaner>>

\* One tick of the cleanup goroutine.  b.mu is held from the check to the
\* delete, so nobody fetches the object in between.
RemoveStaleInstances ==
    /\ cleaner = "running"
    /\ entry # None
    /\ heap[entry].state = "Closed"
    /\ entry' = None
    /\ UNCHANGED <<heap, pc, ptr, cleaner, counted>>

\* close(b.done).  A pending tick may still win the select afterwards; nothing
\* but the cleanup goroutine looks at b.done, so its return is the moment that
\* counts.  A second Close closes a closed channel, and the panic ends the process.
Close ==
    /\ cleaner' = IF cleaner = "running" THEN "stopped" ELSE "panicked"
    /\ UNCHANGED <<heap, entry, pc, ptr, counted>>

\* The clock passes openUntil of some object.
Expire ==
    \E o \in Objects :
        /\ ~Unreachable(o)
        /\ heap[o].state = "Open"
        /\ ~heap[o].expired
        /\ heap' = [heap EXCEPT ![o].expired = TRUE]
        /\ UNCHANGED <<entry, pc, ptr, cleaner, counted>>

-----------------------------------------------------------------------------
\* A goroutine inside an operation, or inside the guarded call, goes on.
Continue(t) ==
    \/ AllowClosed(t) \/ AllowExpired(t) \/ AllowProbe(t) \/ AllowRefuse(t)
    \/ AllowCount(t) \/ TransitionFetch(t) \/ TransitionToHalfOpen(t)
    \/ MarkFetch(t) \/ MarkSuccess(t) \/ MarkFailure(t)

Alive == cleaner # "panicked"

Next ==
    /\ Alive
    /\ \/ \E t \in Threads : AllowFetch(t) \/ Continue(t)
       \/ GetState \/ Reset \/ RemoveStaleInstances
       \/ Close \/ Expire

Spec == Init /\ [][Next]_vars

(***************************************************************************)
(* Go schedules every runnable goroutine, sync.RWMutex does not starve a   *)
(* waiting writer, the guarded call ends (it has a deadline or fails) and  *)
(* the clock advances.  Nothing forces anyone to start another call, to    *)
(* Reset or to clean up.                                                   *)
(***************************************************************************)
Fairness ==
    /\ WF_vars(Alive /\ Expire)
    /\ \A t \in Threads : WF_vars(Alive /\ Continue(t))

FairSpec == Spec /\ Fairness

-----------------------------------------------------------------------------
TypeOK ==
    /\ heap \in [Objects -> InstanceState]
    /\ entry \in Objects \cup {None}
    /\ pc \in [Threads -> PCs]
    /\ ptr \in [Threads -> Objects \cup {None}]
    /\ \A t \in Threads : ptr[t] = None <=> pc[t] \in {"idle", "reopen", "calling"}
    /\ cleaner \in {"running", "stopped", "panicked"}
    /\ counted \in [Threads -> Objects \cup {None}]

\* The calls of the current half-open period of o that were counted and have
\* not been reported yet.
InFlight(o) == {t \in Threads : counted[t] = o}

\* A closed breaker never sits at or past its error threshold, whatever late
\* reports reach it after a half-open period or an open one: the failure that
\* reaches the threshold opens it in the same critical section
\* (MarkFailure), and closing clears the count (MarkSuccess).
ClosedBelowThreshold ==
    \A o \in Objects : heap[o].state = "Closed" => heap[o].errors < Threshold

\* A half-open breaker that has counted a call is still waiting for one: it
\* never rests half-open, its call budget spent, with nobody left to report.
\* Allow counts a call, MarkSuccess re-evaluates the rate at every report and
\* MarkFailure ends the period; a lost report would refuse the instance for
\* ever, since a half-open breaker has no timeout.
NeverWedged ==
    entry # None /\ heap[entry].state = "HalfOpen" /\ heap[entry].calls > 0
        => InFlight(entry) # {}

\* Allow reads the counter and increments it under a shared lock, so the
\* budget can be overrun, but by fewer calls than there are goroutines.
OverrunBounded ==
    \A o \in Objects :
        heap[o].counter < HalfOpenMaxCall + Cardinality(Threads)

\* An open breaker stays open until openUntil has passed: a goroutine that saw
\* an earlier open period expire, and comes late to transitionToHalfOpen, does
\* not cut the new period short.
CoolingIsKept ==
    [][\A o \in Objects :
          heap[o].state = "Open" /\ ~heap[o].expired /\ heap'[o].state # "Open"
              => entry' = o /\ heap'[o] = NewState]_vars

IsOpen == entry # None /\ heap[entry].state = "Open"

Exhausted ==
    /\ entry # None
    /\ heap[entry].state = "HalfOpen"
    /\ heap[entry].counter >= HalfOpenMaxCall

\* A half-open breaker that refuses calls decides sooner or later: the calls
\* it let through come back, and the last report closes or opens it (or a
\* second Close ends the process).
ExhaustedDecides == Exhausted ~> ~Exhausted \/ ~Alive

\* While callers keep asking, an open breaker does not stay open for ever,
\* unless the process ends.
OpenIsProbed ==
    []<>(\E t \in Threads : pc[t] = "allow") => (IsOpen ~> ~IsOpen \/ ~Alive)

-----------------------------------------------------------------------------
(***************************************************************************)
(* Why NeverWedged and OverrunBounded hold: the inductive invariant.       *)
(***************************************************************************)
\* The goroutines between the read of o's counter and its increment.
Readers(o) == {t \in Threads : pc[t] = "count" /\ ptr[t] = o}

\* The read lock keeps the object half-open until the call is counted.
ReadersSeeHalfOpen ==
    \A t \in Threads : pc[t] = "count" => heap[ptr[t]].state = "HalfOpen"

\* A counted call has not been reported; if the object that counted it is
\* still in the map, the report is going there.
CountedCallsReport ==
    \A t \in Threads :
        counted[t] # None =>
            \/ pc[t] = "calling"
            \/ pc[t] \in {"succeeded", "failed"} /\ (counted[t] = entry => ptr[t] = entry)

\* No counted call is lost by the half-open bookkeeping.
CallsAccountedFor ==
    entry # None /\ heap[entry].state = "HalfOpen"
        => heap[entry].calls <= heap[entry].success + Cardinality(InFlight(entry))

\* Whoever is about to increment the counter has read it below the limit.
OverrunByReaders ==
    \A o \in Objects :
        heap[o].counter + Cardinality(Readers(o)) < HalfOpenMaxCall + Cardinality(Threads)

\* Inductive for every step of the breaker, with TypeOK: a counted call is
\* under way until it reports to the object that counted it, which is what
\* keeps a half-open breaker from being wedged.
Bookkeeping ==
    /\ ClosedBelowThreshold
    /\ ReadersSeeHalfOpen
    /\ CountedCallsReport
    /\ CallsAccountedFor
    /\ NeverWedged
    /\ OverrunByReaders

-----------------------------------------------------------------------------
(***************************************************************************)
(* The abstract breaker this one implements: callers only ever see the     *)
(* object in the map.                                                      *)
(***************************************************************************)
Mode ==
    IF entry = None THEN "Closed"
    ELSE IF heap[entry].state # "Open" THEN heap[entry].state
    ELSE IF heap[entry].expired THEN "Ready" ELSE "Cooling"

VisibleErrors == IF entry # None /\ Mode = "Closed" THEN heap[entry].errors ELSE 0

Promise == INSTANCE BreakerPromise
              WITH Lives <- Objects, NoLife <- None, Threshold <- Threshold,
                   mode <- Mode, errors <- VisibleErrors, life <- entry

\* However Allow, the two Marks, Reset and the cleanup interleave, and whatever
\* reports reach an object that is no longer in the map, the breaker its
\* callers see follows the state diagram: it opens after exactly Threshold
\* consecutive reported failures, waits out its period, is probed, and only
\* Reset closes it from the open state.
KeepsPromise == Promise!Spec

=============================================================================
