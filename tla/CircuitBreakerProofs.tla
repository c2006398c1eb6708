------------------------ MODULE CircuitBreakerProofs ------------------------
(***************************************************************************)
(* Theorems about CircuitBreaker, for any number of goroutines, any        *)
(* threshold, call limit and success ratio: the bookkeeping of half-open   *)
(* periods, the open period that nothing cuts short, and that the breaker  *)
(* implements BreakerPromise.                                              *)
(***************************************************************************)
EXTENDS CircuitBreaker, FiniteSetTheorems, TLAPS

-----------------------------------------------------------------------------
(* What the two Mark operations make of an object.                         *)

\* MarkSuccess keeps an instanceState well formed.
LEMMA AfterSuccessType ==
    ASSUME NEW s \in InstanceState
    PROVE  AfterSuccess(s) \in InstanceState
<1>1. 0 \in 0..Threshold /\ s.success + 1 \in Nat
  BY ThresholdPositive DEF InstanceState
<1>2. [s EXCEPT !.errors = 0] \in InstanceState
  BY <1>1 DEF InstanceState
<1>3. [s EXCEPT !.errors = 0, !.state = "Closed", !.counter = 0,
                !.success = 0, !.calls = 0] \in InstanceState
  BY <1>1 DEF InstanceState, States
<1>4. [s EXCEPT !.errors = 0, !.success = @ + 1] \in InstanceState
  BY <1>1 DEF InstanceState
<1> QED
  BY <1>2, <1>3, <1>4 DEF AfterSuccess

\* MarkFailure keeps an instanceState well formed.
LEMMA AfterFailureType ==
    ASSUME NEW s \in InstanceState
    PROVE  AfterFailure(s) \in InstanceState
<1>1. OneMoreError(s.errors) \in 0..Threshold
  BY ThresholdPositive DEF OneMoreError, InstanceState
<1> QED
  BY <1>1 DEF AfterFailure, InstanceState, States

\* Counting a half-open call keeps an instanceState well formed.
LEMMA AfterCountType ==
    ASSUME NEW s \in InstanceState
    PROVE  AfterCount(s) \in InstanceState
<1>1. s.counter + 1 \in Nat /\ s.calls + 1 \in Nat
  BY DEF InstanceState
<1> QED
  BY <1>1 DEF AfterCount, InstanceState

\* transitionToHalfOpen keeps an instanceState well formed.
LEMMA AfterTransitionType ==
    ASSUME NEW s \in InstanceState
    PROVE  AfterTransition(s) \in InstanceState
BY DEF AfterTransition, Due, InstanceState, States

\* A freshly created instanceState is well formed.
LEMMA NewStateType == NewState \in InstanceState
BY ThresholdPositive DEF NewState, InstanceState, States

-----------------------------------------------------------------------------
\* Every step of the breaker keeps the types.
LEMMA TypeStep ==
    ASSUME TypeOK, [Next]_vars
    PROVE  TypeOK'
<1>1. CASE UNCHANGED vars
  BY <1>1 DEF vars, TypeOK
<1>2. ASSUME NEW o \in Objects, GetOrCreateState(o) \/ Install(o)
      PROVE  /\ heap' \in [Objects -> InstanceState]
             /\ entry' \in Objects \cup {None}
             /\ counted' \in [Threads -> Objects \cup {None}]
  BY <1>2, NewStateType DEF GetOrCreateState, Install, Forget, TypeOK
<1>3. ASSUME NEW t \in Threads, NEW where \in {"allow", "transition", "succeeded", "failed"},
             Fetch(t, where)
      PROVE  TypeOK'
  <2>1. PICK o \in Objects :
            /\ GetOrCreateState(o)
            /\ ptr' = [ptr EXCEPT ![t] = o]
            /\ Goto(t, where)
            /\ UNCHANGED cleaner
    BY <1>3 DEF Fetch
  <2>2. pc' = [pc EXCEPT ![t] = where] /\ where \in PCs
    BY <2>1, <1>3 DEF Goto, PCs
  <2> QED
    BY <1>2, <1>3, <2>1, <2>2, NoneIsNoObject DEF TypeOK
<1>4. ASSUME NEW t \in Threads, NEW next \in InstanceState, Mark(t, next),
             pc[t] \in {"succeeded", "failed"}
      PROVE  TypeOK'
  BY <1>4 DEF Mark, Goto, Release, Forget, TypeOK, PCs
<1>5. ASSUME NEW t \in Threads, AllowFetch(t)
      PROVE  TypeOK'
  BY <1>5, <1>3 DEF AllowFetch
<1>6. ASSUME NEW t \in Threads, Continue(t)
      PROVE  TypeOK'
  <2>1. CASE AllowClosed(t)
    BY <2>1 DEF AllowClosed, Goto, Release, TypeOK, PCs
  <2>2. CASE AllowExpired(t)
    BY <2>2 DEF AllowExpired, Goto, Release, TypeOK, PCs
  <2>3. CASE AllowProbe(t)
    BY <2>3 DEF AllowProbe, Goto, TypeOK, PCs
  <2>4. CASE AllowRefuse(t)
    BY <2>4 DEF AllowRefuse, Goto, Release, TypeOK, PCs
  <2>5. CASE AllowCount(t)
    <3>1. ptr[t] \in Objects
      BY <2>5 DEF AllowCount, TypeOK
    <3>2. heap' \in [Objects -> InstanceState]
      BY <2>5, <3>1, AfterCountType DEF AllowCount, TypeOK
    <3> QED
      BY <2>5, <3>1, <3>2 DEF AllowCount, Goto, Release, TypeOK, PCs
  <2>6. CASE TransitionFetch(t)
    BY <2>6, <1>3 DEF TransitionFetch
  <2>7. CASE TransitionToHalfOpen(t)
    <3>1. ptr[t] \in Objects
      BY <2>7 DEF TransitionToHalfOpen, TypeOK
    <3>2. heap' \in [Objects -> InstanceState]
      BY <2>7, <3>1, AfterTransitionType DEF TransitionToHalfOpen, TypeOK
    <3> QED
      BY <2>7, <3>1, <3>2 DEF TransitionToHalfOpen, Forget, Goto, Release, TypeOK, PCs
  <2>8. CASE MarkFetch(t)
    BY <2>8, <1>3 DEF MarkFetch
  <2>9. CASE MarkSuccess(t)
    <3>1. heap[ptr[t]] \in InstanceState
      BY <2>9 DEF MarkSuccess, TypeOK
    <3> QED
      BY <2>9, <3>1, <1>4, AfterSuccessType DEF MarkSuccess
  <2>10. CASE MarkFailure(t)
    <3>1. heap[ptr[t]] \in InstanceState
      BY <2>10 DEF MarkFailure, TypeOK
    <3> QED
      BY <2>10, <3>1, <1>4, AfterFailureType DEF MarkFailure
  <2> QED
    BY <1>6, <2>1, <2>2, <2>3, <2>4, <2>5, <2>6, <2>7, <2>8, <2>9, <2>10 DEF Continue
<1>7. CASE GetState
  BY <1>2, <1>7 DEF GetState, TypeOK
<1>8. CASE Reset
  BY <1>2, <1>8 DEF Reset, TypeOK
<1>9. CASE RemoveStaleInstances
  BY <1>9 DEF RemoveStaleInstances, TypeOK
<1>10. CASE Close
  BY <1>10 DEF Close, TypeOK
<1>11. CASE Expire
  <2>1. PICK o \in Objects :
            /\ heap' = [heap EXCEPT ![o].expired = TRUE]
            /\ UNCHANGED <<entry, pc, ptr, cleaner, counted>>
    BY <1>11 DEF Expire
  <2>2. [heap[o] EXCEPT !.expired = TRUE] \in InstanceState
    BY DEF TypeOK, InstanceState
  <2>3. heap' \in [Objects -> InstanceState]
    BY <2>1, <2>2 DEF TypeOK
  <2> QED
    BY <2>1, <2>3 DEF TypeOK
<1> QED
  BY <1>1, <1>5, <1>6, <1>7, <1>8, <1>9, <1>10, <1>11 DEF Next

\* Type correctness of the breaker: pointers held by goroutines, the map's
\* entry and the counters of every object are always what the code expects.
THEOREM TypeCorrect == Spec => []TypeOK
<1>1. Init => TypeOK
  BY NewStateType DEF Init, TypeOK, PCs
<1>2. TypeOK /\ [Next]_vars => TypeOK'
  BY TypeStep
<1> QED
  BY <1>1, <1>2, PTL DEF Spec

-----------------------------------------------------------------------------
(* What each operation does to the fields the bookkeeping is about.        *)

\* A success that does not close a half-open breaker leaves fewer successes
\* than counted calls: the required ratio is at most one.
LEMMA RateNotReached ==
    ASSUME NEW success \in Nat, NEW calls \in Nat,
           calls > 0, ~RateReached(success, calls)
    PROVE  success < calls
<1>1. success * SuccessDen < SuccessNum * calls
  BY SuccessRatio DEF RateReached
<1>2. SUFFICES ASSUME calls <= success PROVE FALSE
  OBVIOUS
<1>3. SuccessNum * calls <= SuccessDen * calls
  BY SuccessRatio
<1>4. SuccessDen * calls <= SuccessDen * success
  BY <1>2, SuccessRatio
<1> QED
  BY <1>1, <1>3, <1>4, SuccessRatio

\* MarkSuccess, field by field.
LEMMA AfterSuccessFields ==
    ASSUME NEW s \in InstanceState
    PROVE  /\ AfterSuccess(s).errors = 0
           /\ AfterSuccess(s).expired = s.expired
           /\ AfterSuccess(s).counter <= s.counter
           /\ AfterSuccess(s).state = s.state
                 \/ (s.state = "HalfOpen" /\ AfterSuccess(s).state = "Closed")
           /\ AfterSuccess(s).state = "HalfOpen" =>
                 /\ AfterSuccess(s).success = s.success + 1
                 /\ AfterSuccess(s).calls = s.calls
                 /\ s.calls > 0 => s.success + 1 < s.calls
<1>1. CASE s.state # "HalfOpen"
  <2>1. AfterSuccess(s) = [s EXCEPT !.errors = 0]
    BY <1>1 DEF AfterSuccess
  <2> QED
    BY <1>1, <2>1 DEF InstanceState
<1>2. CASE s.state = "HalfOpen" /\ RateReached(s.success + 1, s.calls)
  <2>1. AfterSuccess(s) = [s EXCEPT !.errors = 0, !.state = "Closed",
                                    !.counter = 0, !.success = 0, !.calls = 0]
    BY <1>2 DEF AfterSuccess
  <2> QED
    BY <1>2, <2>1 DEF InstanceState
<1>3. CASE s.state = "HalfOpen" /\ ~RateReached(s.success + 1, s.calls)
  <2>1. AfterSuccess(s) = [s EXCEPT !.errors = 0, !.success = @ + 1]
    BY <1>3 DEF AfterSuccess
  <2>2. s.success + 1 \in Nat /\ s.calls \in Nat
    BY DEF InstanceState
  <2>3. s.calls > 0 => s.success + 1 < s.calls
    BY <1>3, <2>2, RateNotReached
  <2> QED
    BY <1>3, <2>1, <2>3 DEF InstanceState
<1> QED
  BY <1>1, <1>2, <1>3

\* MarkFailure, field by field.
LEMMA AfterFailureFields ==
    ASSUME NEW s \in InstanceState
    PROVE  /\ AfterFailure(s).counter <= s.counter
           /\ AfterFailure(s).state # "HalfOpen"
           /\ s.state = "HalfOpen" =>
                 AfterFailure(s).state = "Open" /\ ~AfterFailure(s).expired
           /\ s.state = "Open" =>
                 AfterFailure(s).state = "Open" /\ AfterFailure(s).expired = s.expired
           /\ s.state = "Closed" /\ s.errors < Threshold =>
                 \/ /\ s.errors + 1 = Threshold
                    /\ AfterFailure(s).state = "Open" /\ ~AfterFailure(s).expired
                 \/ /\ s.errors + 1 < Threshold
                    /\ AfterFailure(s).state = "Closed"
                    /\ AfterFailure(s).errors = s.errors + 1
           /\ AfterFailure(s).state = "Closed" => AfterFailure(s).errors < Threshold
<1>1. OneMoreError(s.errors) \in 0..Threshold
  BY ThresholdPositive DEF OneMoreError, InstanceState
<1>2. s.errors < Threshold => OneMoreError(s.errors) = s.errors + 1
  BY DEF OneMoreError
<1>3. CASE s.state = "HalfOpen"
  <2>1. AfterFailure(s) = [s EXCEPT !.errors = OneMoreError(s.errors), !.state = "Open",
                              !.expired = FALSE, !.counter = 0, !.success = 0, !.calls = 0]
    BY <1>3 DEF AfterFailure
  <2> QED
    BY <1>3, <2>1 DEF InstanceState
<1>4. CASE s.state = "Closed" /\ OneMoreError(s.errors) >= Threshold
  <2>1. AfterFailure(s) = [s EXCEPT !.errors = OneMoreError(s.errors), !.state = "Open",
                              !.expired = FALSE]
    BY <1>4 DEF AfterFailure
  <2> QED
    BY <1>1, <1>2, <1>4, <2>1, ThresholdPositive DEF InstanceState
<1>5. CASE s.state = "Open" \/ (s.state = "Closed" /\ OneMoreError(s.errors) < Threshold)
  <2>1. AfterFailure(s) = [s EXCEPT !.errors = OneMoreError(s.errors)]
    BY <1>1, <1>5, ThresholdPositive DEF AfterFailure
  <2> QED
    BY <1>1, <1>2, <1>5, <2>1, ThresholdPositive DEF InstanceState
<1> QED
  BY <1>1, <1>3, <1>4, <1>5, ThresholdPositive DEF InstanceState, States

\* Counting a call, field by field.
LEMMA AfterCountFields ==
    ASSUME NEW s \in InstanceState
    PROVE  /\ AfterCount(s).state = s.state
           /\ AfterCount(s).errors = s.errors
           /\ AfterCount(s).expired = s.expired
           /\ AfterCount(s).counter = s.counter + 1
           /\ AfterCount(s).calls = s.calls + 1
           /\ AfterCount(s).success = s.success
BY DEF AfterCount, InstanceState

\* transitionToHalfOpen, field by field.
LEMMA AfterTransitionFields ==
    ASSUME NEW s \in InstanceState
    PROVE  /\ ~Due(s) => AfterTransition(s) = s
           /\ Due(s) => /\ AfterTransition(s).state = "HalfOpen"
                        /\ AfterTransition(s).calls = 0
           /\ AfterTransition(s).counter <= s.counter
BY DEF AfterTransition, InstanceState

-----------------------------------------------------------------------------
(* How an operation changes the map and the objects other than its own.    *)

\* A goroutine finds the entry or installs a new one.
LEMMA FetchEffect ==
    ASSUME NEW t \in Threads, NEW where, Fetch(t, where), TypeOK
    PROVE  /\ entry' # None /\ entry' \in Objects
           /\ ptr' = [ptr EXCEPT ![t] = entry']
           /\ pc' = [pc EXCEPT ![t] = where]
           /\ \/ UNCHANGED <<heap, entry, counted>>
              \/ entry = None /\ Install(entry')
<1>1. PICK o \in Objects :
          /\ GetOrCreateState(o)
          /\ ptr' = [ptr EXCEPT ![t] = o]
          /\ Goto(t, where)
  BY DEF Fetch
<1>2. entry' = o
  BY <1>1 DEF GetOrCreateState, Install
<1> QED
  BY <1>1, <1>2, NoneIsNoObject DEF GetOrCreateState, Goto

\* A report touches one object, and ends at most that object's period.
LEMMA MarkEffect ==
    ASSUME NEW t \in Threads, NEW next \in InstanceState, Mark(t, next), TypeOK,
           pc[t] \in {"succeeded", "failed"}
    PROVE  /\ ptr[t] \in Objects
           /\ NoReaders(ptr[t])
           /\ heap' = [heap EXCEPT ![ptr[t]] = next]
           /\ entry' = entry
           /\ pc' = [pc EXCEPT ![t] = "idle"]
           /\ ptr' = [ptr EXCEPT ![t] = None]
           /\ counted'[t] = None
           /\ \A u \in Threads \ {t} :
                 \/ counted'[u] = counted[u]
                 \/ /\ counted'[u] = None /\ counted[u] = ptr[t]
                    /\ heap[ptr[t]].state = "HalfOpen" /\ next.state # "HalfOpen"
BY DEF Mark, Goto, Release, Forget, TypeOK

-----------------------------------------------------------------------------
(* Locking: who may see an object change, and where reports go.            *)

LockInv == ClosedBelowThreshold /\ ReadersSeeHalfOpen /\ CountedCallsReport

\* A new object is closed without errors, and disturbs neither readers nor
\* reports: nobody holds it and no call was counted by it.
LEMMA LockInvInstall ==
    ASSUME TypeOK, LockInv, NEW o \in Objects, Install(o)
    PROVE  /\ ClosedBelowThreshold'
           /\ \A t \in Threads : pc[t] = "count" => heap'[ptr[t]].state = "HalfOpen"
           /\ \A t \in Threads : counted'[t] # None => counted'[t] = counted[t]
           /\ \A t \in Threads : counted'[t] # entry'
<1>1. ClosedBelowThreshold'
  BY ThresholdPositive DEF LockInv, ClosedBelowThreshold, Install, NewState, TypeOK
<1>2. ASSUME NEW t \in Threads, pc[t] = "count"
      PROVE  heap'[ptr[t]].state = "HalfOpen"
  BY <1>2 DEF LockInv, ReadersSeeHalfOpen, Install, Unreachable, TypeOK
<1>3. ASSUME NEW t \in Threads
      PROVE  /\ counted'[t] # None => counted'[t] = counted[t]
             /\ counted'[t] # entry'
  BY NoneIsNoObject DEF Install, Forget, TypeOK
<1> QED
  BY <1>1, <1>2, <1>3

\* Fetching an object preserves the locking invariant.
LEMMA LockInvFetch ==
    ASSUME TypeOK, LockInv, NEW t \in Threads, NEW where, Fetch(t, where),
           \/ pc[t] \in {"idle", "reopen"} /\ where \in {"allow", "transition"}
           \/ pc[t] = "calling" /\ where \in {"succeeded", "failed"}
    PROVE  LockInv'
<1>1. /\ entry' # None /\ entry' \in Objects
      /\ ptr' = [ptr EXCEPT ![t] = entry']
      /\ pc' = [pc EXCEPT ![t] = where]
      /\ \/ UNCHANGED <<heap, entry, counted>>
         \/ entry = None /\ Install(entry')
  BY FetchEffect
<1>2. CASE UNCHANGED <<heap, entry, counted>>
  BY <1>1, <1>2 DEF LockInv, ClosedBelowThreshold, ReadersSeeHalfOpen, CountedCallsReport, TypeOK
<1>3. CASE entry = None /\ Install(entry')
  BY <1>1, <1>3, LockInvInstall DEF LockInv, ReadersSeeHalfOpen, CountedCallsReport, TypeOK
<1> QED
  BY <1>1, <1>2, <1>3

\* A report preserves the locking invariant.
LEMMA LockInvMark ==
    ASSUME TypeOK, LockInv, NEW t \in Threads, NEW next \in InstanceState, Mark(t, next),
           pc[t] \in {"succeeded", "failed"},
           next.state = "Closed" => next.errors < Threshold
    PROVE  LockInv'
<1>1. ClosedBelowThreshold'
  BY MarkEffect DEF LockInv, ClosedBelowThreshold, TypeOK
<1>2. ReadersSeeHalfOpen'
  BY MarkEffect DEF LockInv, ReadersSeeHalfOpen, NoReaders, TypeOK
<1>3. CountedCallsReport'
  BY MarkEffect DEF LockInv, CountedCallsReport, TypeOK
<1> QED
  BY <1>1, <1>2, <1>3 DEF LockInv

\* Every step preserves the locking invariant.
LEMMA LockInvStep ==
    ASSUME TypeOK, LockInv, [Next]_vars
    PROVE  LockInv'
<1> USE DEF LockInv
<1>1. CASE UNCHANGED vars
  BY <1>1 DEF vars, ClosedBelowThreshold, ReadersSeeHalfOpen, CountedCallsReport
<1>2. ASSUME NEW t \in Threads, AllowFetch(t)
      PROVE  LockInv'
  BY <1>2, LockInvFetch DEF AllowFetch
<1>3. ASSUME NEW t \in Threads, Continue(t)
      PROVE  LockInv'
  <2>1. CASE AllowClosed(t) \/ AllowExpired(t) \/ AllowProbe(t) \/ AllowRefuse(t)
    BY <2>1 DEF AllowClosed, AllowExpired, AllowProbe, AllowRefuse, Goto, Release,
                ClosedBelowThreshold, ReadersSeeHalfOpen, CountedCallsReport, TypeOK
  <2>2. CASE AllowCount(t)
    <3>1. ptr[t] \in Objects /\ heap[ptr[t]] \in InstanceState
      BY <2>2 DEF AllowCount, TypeOK
    <3>2. heap' = [heap EXCEPT ![ptr[t]] = AfterCount(heap[ptr[t]])]
      BY <2>2 DEF AllowCount
    <3>3. \A o \in Objects : heap'[o].state = heap[o].state /\ heap'[o].errors = heap[o].errors
      BY <3>1, <3>2, AfterCountFields DEF TypeOK
    <3>4. ClosedBelowThreshold'
      BY <3>3 DEF ClosedBelowThreshold
    <3>5. ReadersSeeHalfOpen'
      BY <2>2, <3>3 DEF AllowCount, Goto, Release, ReadersSeeHalfOpen, TypeOK
    <3>6. CountedCallsReport'
      BY <2>2 DEF AllowCount, Goto, Release, CountedCallsReport, TypeOK
    <3> QED
      BY <3>4, <3>5, <3>6
  <2>3. CASE TransitionFetch(t)
    BY <2>3, LockInvFetch DEF TransitionFetch
  <2>4. CASE TransitionToHalfOpen(t)
    <3>1. ptr[t] \in Objects /\ heap[ptr[t]] \in InstanceState
      BY <2>4 DEF TransitionToHalfOpen, TypeOK
    <3>2. /\ heap' = [heap EXCEPT ![ptr[t]] = AfterTransition(heap[ptr[t]])]
          /\ NoReaders(ptr[t])
          /\ entry' = entry
          /\ pc' = [pc EXCEPT ![t] = "calling"]
          /\ ptr' = [ptr EXCEPT ![t] = None]
          /\ pc[t] = "transition"
      BY <2>4 DEF TransitionToHalfOpen, Goto, Release
    <3>3. \A u \in Threads : counted'[u] # None => counted'[u] = counted[u]
      BY <2>4 DEF TransitionToHalfOpen, Forget, TypeOK
    <3>4. ClosedBelowThreshold'
      BY <3>1, <3>2, AfterTransitionFields DEF ClosedBelowThreshold, TypeOK
    <3>5. ReadersSeeHalfOpen'
      BY <3>1, <3>2 DEF ReadersSeeHalfOpen, NoReaders, TypeOK
    <3>6. CountedCallsReport'
      BY <3>2, <3>3 DEF CountedCallsReport, TypeOK
    <3> QED
      BY <3>4, <3>5, <3>6
  <2>5. CASE MarkFetch(t)
    BY <2>5, LockInvFetch DEF MarkFetch
  <2>6. CASE MarkSuccess(t)
    <3>1. heap[ptr[t]] \in InstanceState
      BY <2>6 DEF MarkSuccess, TypeOK
    <3> QED
      BY <2>6, <3>1, AfterSuccessType, AfterSuccessFields, LockInvMark, ThresholdPositive
      DEF MarkSuccess
  <2>7. CASE MarkFailure(t)
    <3>1. heap[ptr[t]] \in InstanceState
      BY <2>7 DEF MarkFailure, TypeOK
    <3> QED
      BY <2>7, <3>1, AfterFailureType, AfterFailureFields, LockInvMark DEF MarkFailure
  <2> QED
    BY <1>3, <2>1, <2>2, <2>3, <2>4, <2>5, <2>6, <2>7 DEF Continue
<1>4. CASE GetState \/ Reset
  <2>1. /\ UNCHANGED <<pc, ptr>>
        /\ \/ UNCHANGED <<heap, entry, counted>>
           \/ \E o \in Objects : Install(o)
    BY <1>4 DEF GetState, Reset, GetOrCreateState
  <2>2. CASE UNCHANGED <<heap, entry, counted>>
    BY <2>1, <2>2 DEF ClosedBelowThreshold, ReadersSeeHalfOpen, CountedCallsReport
  <2>3. CASE \E o \in Objects : Install(o)
    BY <2>1, <2>3, LockInvInstall DEF ReadersSeeHalfOpen, CountedCallsReport
  <2> QED
    BY <2>1, <2>2, <2>3
<1>5. CASE RemoveStaleInstances \/ Close
  BY <1>5 DEF RemoveStaleInstances, Close, ClosedBelowThreshold, ReadersSeeHalfOpen,
              CountedCallsReport
<1>6. CASE Expire
  <2>1. PICK o \in Objects : heap' = [heap EXCEPT ![o].expired = TRUE]
    BY <1>6 DEF Expire
  <2>2. \A p \in Objects : heap'[p].state = heap[p].state /\ heap'[p].errors = heap[p].errors
    BY <2>1 DEF TypeOK, InstanceState
  <2> QED
    BY <1>6, <2>2 DEF Expire, ClosedBelowThreshold, ReadersSeeHalfOpen, CountedCallsReport, TypeOK
<1> QED
  BY <1>1, <1>2, <1>3, <1>4, <1>5, <1>6 DEF Next

-----------------------------------------------------------------------------
(* The half-open calls: every one counted is reported or still under way.  *)

Accounting == CallsAccountedFor /\ NeverWedged

\* The calls counted by an object are finitely many.
LEMMA InFlightFinite ==
    ASSUME NEW o
    PROVE  IsFiniteSet(InFlight(o)) /\ Cardinality(InFlight(o)) \in Nat
BY ThreadsFinite, FS_Subset, FS_CardinalityType DEF InFlight

\* A step that leaves the entry, its half-open fields and its counted calls
\* alone preserves the accounting; so does one after which the entry is not
\* half-open.
LEMMA AccountingFrame ==
    ASSUME Accounting,
           \/ entry' = None
           \/ entry' # None /\ heap'[entry'].state # "HalfOpen"
           \/ /\ entry' = entry /\ heap'[entry] = heap[entry]
              /\ \A t \in Threads : counted'[t] = entry <=> counted[t] = entry
    PROVE  Accounting'
<1>1. CASE entry' = None \/ heap'[entry'].state # "HalfOpen"
  BY <1>1 DEF Accounting, CallsAccountedFor, NeverWedged
<1>2. CASE /\ entry' = entry /\ heap'[entry] = heap[entry]
           /\ \A t \in Threads : counted'[t] = entry <=> counted[t] = entry
  <2>1. InFlight(entry)' = InFlight(entry)
    BY <1>2 DEF InFlight
  <2> QED
    BY <1>2, <2>1 DEF Accounting, CallsAccountedFor, NeverWedged
<1> QED
  BY <1>1, <1>2

\* Fetching an object preserves the accounting.
LEMMA AccountingFetch ==
    ASSUME TypeOK, Accounting, NEW t \in Threads, NEW where, Fetch(t, where)
    PROVE  Accounting'
<1>1. /\ entry' \in Objects
      /\ \/ UNCHANGED <<heap, entry, counted>>
         \/ entry = None /\ Install(entry')
  BY FetchEffect
<1>2. CASE UNCHANGED <<heap, entry, counted>>
  BY <1>2, AccountingFrame
<1>3. CASE Install(entry')
  <2>1. entry' # None /\ heap'[entry'].state # "HalfOpen"
    BY <1>1, <1>3, NoneIsNoObject DEF Install, NewState, TypeOK
  <2> QED
    BY <2>1, AccountingFrame
<1> QED
  BY <1>1, <1>2, <1>3

\* A report to an object that left the map is none of the entry's business:
\* the call it ends was not counted by the entry.
LEMMA AccountingOrphan ==
    ASSUME TypeOK, LockInv, Accounting, NEW t \in Threads, NEW next \in InstanceState,
           Mark(t, next), pc[t] \in {"succeeded", "failed"}, ptr[t] # entry
    PROVE  Accounting'
<1>1. CASE entry = None
  BY <1>1, MarkEffect, AccountingFrame
<1>2. CASE entry # None
  <2>1. counted[t] # entry
    BY <1>2 DEF LockInv, CountedCallsReport
  <2>2. \A u \in Threads : counted'[u] = entry <=> counted[u] = entry
    BY <1>2, <2>1, MarkEffect
  <2>3. entry' = entry /\ heap'[entry] = heap[entry]
    BY <1>2, MarkEffect DEF TypeOK
  <2> QED
    BY <2>2, <2>3, AccountingFrame
<1> QED
  BY <1>1, <1>2

\* Every step preserves the accounting.
LEMMA AccountingStep ==
    ASSUME TypeOK, LockInv, Accounting, [Next]_vars
    PROVE  Accounting'
<1>1. CASE UNCHANGED vars
  BY <1>1, AccountingFrame DEF vars
<1>2. ASSUME NEW t \in Threads, AllowFetch(t)
      PROVE  Accounting'
  BY <1>2, AccountingFetch DEF AllowFetch
<1>3. ASSUME NEW t \in Threads, Continue(t)
      PROVE  Accounting'
  <2>1. CASE AllowClosed(t) \/ AllowExpired(t) \/ AllowProbe(t) \/ AllowRefuse(t)
    BY <2>1, AccountingFrame DEF AllowClosed, AllowExpired, AllowProbe, AllowRefuse
  <2>2. CASE AllowCount(t)
    <3>1. /\ ptr[t] \in Objects /\ heap[ptr[t]] \in InstanceState
          /\ counted[t] = None
          /\ heap' = [heap EXCEPT ![ptr[t]] = AfterCount(heap[ptr[t]])]
          /\ counted' = [counted EXCEPT ![t] = ptr[t]]
          /\ entry' = entry
      BY <2>2 DEF AllowCount, LockInv, CountedCallsReport, TypeOK
    <3>2. CASE ptr[t] = entry
      <4>1. t \notin InFlight(entry) /\ InFlight(entry)' = InFlight(entry) \cup {t}
        BY <3>1, <3>2, NoneIsNoObject DEF InFlight, TypeOK
      <4>2. Cardinality(InFlight(entry)') = Cardinality(InFlight(entry)) + 1
        BY <4>1, InFlightFinite, FS_AddElement
      <4>3. /\ heap'[entry].state = heap[entry].state
            /\ heap'[entry].calls = heap[entry].calls + 1
            /\ heap'[entry].success = heap[entry].success
        BY <3>1, <3>2, AfterCountFields DEF TypeOK
      <4>4. heap[entry].calls \in Nat /\ heap[entry].success \in Nat
        BY <3>1, <3>2 DEF InstanceState
      <4>5. CallsAccountedFor'
        BY <3>1, <4>2, <4>3, <4>4, InFlightFinite DEF Accounting, CallsAccountedFor
      <4>6. NeverWedged'
        BY <3>1, <4>1 DEF NeverWedged
      <4> QED
        BY <4>5, <4>6 DEF Accounting
    <3>3. CASE ptr[t] # entry
      <4>1. entry = None \/ heap'[entry] = heap[entry]
        BY <3>1, <3>3 DEF TypeOK
      <4>2. entry = None \/ \A u \in Threads : counted'[u] = entry <=> counted[u] = entry
        BY <3>1, <3>3 DEF TypeOK
      <4> QED
        BY <3>1, <4>1, <4>2, AccountingFrame
    <3> QED
      BY <3>2, <3>3
  <2>3. CASE TransitionFetch(t)
    BY <2>3, AccountingFetch DEF TransitionFetch
  <2>4. CASE TransitionToHalfOpen(t)
    <3>1. /\ ptr[t] \in Objects /\ heap[ptr[t]] \in InstanceState
          /\ heap' = [heap EXCEPT ![ptr[t]] = AfterTransition(heap[ptr[t]])]
          /\ entry' = entry
          /\ counted' = IF Due(heap[ptr[t]]) THEN Forget(counted, ptr[t]) ELSE counted
      BY <2>4 DEF TransitionToHalfOpen, TypeOK
    <3>2. CASE entry # None /\ (ptr[t] # entry \/ ~Due(heap[ptr[t]]))
      <4>1. heap'[entry] = heap[entry]
        BY <3>1, <3>2, AfterTransitionFields DEF TypeOK
      <4>2. \A u \in Threads : counted'[u] = entry <=> counted[u] = entry
        BY <3>1, <3>2 DEF Forget, TypeOK
      <4> QED
        BY <3>1, <4>1, <4>2, AccountingFrame
    <3>3. CASE entry # None /\ ptr[t] = entry /\ Due(heap[ptr[t]])
      <4>1. heap'[entry].calls = 0
        BY <3>1, <3>3, AfterTransitionFields DEF TypeOK
      <4>2. heap'[entry].success \in Nat
        <5>1. heap'[entry] \in InstanceState
          BY <3>1, <3>3, AfterTransitionType DEF TypeOK
        <5> QED
          BY <5>1 DEF InstanceState
      <4>3. IsFiniteSet(InFlight(entry)') /\ Cardinality(InFlight(entry)') \in Nat
        BY ThreadsFinite, FS_Subset, FS_CardinalityType DEF InFlight
      <4> QED
        BY <3>1, <4>1, <4>2, <4>3 DEF Accounting, CallsAccountedFor, NeverWedged
    <3> QED
      BY <3>1, <3>2, <3>3, AccountingFrame
  <2>5. CASE MarkFetch(t)
    BY <2>5, AccountingFetch DEF MarkFetch
  <2>6. CASE MarkSuccess(t)
    <3> DEFINE s == heap[ptr[t]]
               next == AfterSuccess(s)
    <3>1. /\ s \in InstanceState /\ next \in InstanceState
          /\ Mark(t, next) /\ pc[t] = "succeeded"
      BY <2>6, AfterSuccessType DEF MarkSuccess, TypeOK
    <3>2. CASE ptr[t] # entry
      BY <3>1, <3>2, AccountingOrphan
    <3>3. CASE ptr[t] = entry /\ next.state # "HalfOpen"
      BY <3>1, <3>3, MarkEffect, NoneIsNoObject, AccountingFrame DEF TypeOK
    <3>4. CASE ptr[t] = entry /\ next.state = "HalfOpen"
      <4>1. /\ s.state = "HalfOpen"
            /\ next.success = s.success + 1 /\ next.calls = s.calls
            /\ s.calls > 0 => s.success + 1 < s.calls
        BY <3>1, <3>4, AfterSuccessFields
      <4>2. /\ entry' = entry /\ entry # None /\ heap'[entry] = next
            /\ counted'[t] = None
            /\ \A u \in Threads \ {t} : counted'[u] = counted[u]
        BY <3>1, <3>4, MarkEffect, NoneIsNoObject DEF TypeOK
      <4>3. InFlight(entry)' = InFlight(entry) \ {t}
        BY <4>2 DEF InFlight
      <4>4. Cardinality(InFlight(entry)') \in Nat
            /\ Cardinality(InFlight(entry)') + 1 >= Cardinality(InFlight(entry))
        <5>1. IsFiniteSet(InFlight(entry)) /\ Cardinality(InFlight(entry)) \in Nat
          BY InFlightFinite
        <5>2. Cardinality(InFlight(entry) \ {t}) =
                IF t \in InFlight(entry) THEN Cardinality(InFlight(entry)) - 1
                ELSE Cardinality(InFlight(entry))
          BY <5>1, FS_RemoveElement
        <5>3. Cardinality(InFlight(entry) \ {t}) \in Nat
          BY <5>1, FS_RemoveElement, FS_CardinalityType
        <5> QED
          BY <4>3, <5>1, <5>2, <5>3
      <4>5. s.calls \in Nat /\ s.success \in Nat
        BY <3>1 DEF InstanceState
      <4>6. s.calls <= s.success + Cardinality(InFlight(entry))
        BY <3>4, <4>1, <4>2 DEF Accounting, CallsAccountedFor
      <4>7. CallsAccountedFor'
        BY <4>1, <4>2, <4>4, <4>5, <4>6, InFlightFinite DEF CallsAccountedFor
      <4>8. s.calls > 0 => Cardinality(InFlight(entry)') > 0
        BY <4>1, <4>4, <4>5, <4>6, InFlightFinite
      <4>9. NeverWedged'
        <5>1. s.calls > 0 => InFlight(entry)' # {}
          BY <4>8, FS_EmptySet
        <5> QED
          BY <4>1, <4>2, <5>1 DEF NeverWedged
      <4> QED
        BY <4>7, <4>9 DEF Accounting
    <3> QED
      BY <3>2, <3>3, <3>4
  <2>7. CASE MarkFailure(t)
    <3> DEFINE s == heap[ptr[t]]
               next == AfterFailure(s)
    <3>1. /\ s \in InstanceState /\ next \in InstanceState
          /\ Mark(t, next) /\ pc[t] = "failed"
      BY <2>7, AfterFailureType DEF MarkFailure, TypeOK
    <3>2. next.state # "HalfOpen"
      BY <3>1, AfterFailureFields
    <3>3. CASE ptr[t] # entry
      BY <3>1, <3>3, AccountingOrphan
    <3>4. CASE ptr[t] = entry
      BY <3>1, <3>2, <3>4, MarkEffect, NoneIsNoObject, AccountingFrame DEF TypeOK
    <3> QED
      BY <3>3, <3>4
  <2> QED
    BY <1>3, <2>1, <2>2, <2>3, <2>4, <2>5, <2>6, <2>7 DEF Continue
<1>4. CASE GetState \/ Reset
  <2>1. UNCHANGED <<heap, entry, counted>> \/ \E o \in Objects : Install(o)
    BY <1>4 DEF GetState, Reset, GetOrCreateState
  <2>2. ASSUME NEW o \in Objects, Install(o)
        PROVE  entry' # None /\ heap'[entry'].state # "HalfOpen"
    BY <2>2, NoneIsNoObject DEF Install, NewState, TypeOK
  <2> QED
    BY <2>1, <2>2, AccountingFrame
<1>5. CASE RemoveStaleInstances \/ Close
  BY <1>5, AccountingFrame DEF RemoveStaleInstances, Close
<1>6. CASE Expire
  <2>1. PICK o \in Objects : heap[o].state = "Open" /\ heap' = [heap EXCEPT ![o].expired = TRUE]
    BY <1>6 DEF Expire
  <2>2. UNCHANGED <<entry, counted>>
    BY <1>6 DEF Expire
  <2>3. CASE entry = o
    <3>1. heap'[entry].state # "HalfOpen"
      BY <2>1, <2>3 DEF TypeOK, InstanceState
    <3> QED
      BY <2>2, <2>3, <3>1, NoneIsNoObject, AccountingFrame
  <2>4. CASE entry # o
    <3>1. entry = None \/ heap'[entry] = heap[entry]
      BY <2>1, <2>4 DEF TypeOK
    <3> QED
      BY <2>2, <3>1, AccountingFrame
  <2> QED
    BY <2>3, <2>4
<1> QED
  BY <1>1, <1>2, <1>3, <1>4, <1>5, <1>6 DEF Next

-----------------------------------------------------------------------------
(* The half-open limit: how far the shared lock lets it be overrun.        *)

\* The goroutines reading an object's counter are finitely many.
LEMMA ReadersFinite ==
    ASSUME NEW o
    PROVE  /\ IsFiniteSet(Readers(o)) /\ Cardinality(Readers(o)) \in Nat
           /\ Cardinality(Readers(o)) <= Cardinality(Threads)
           /\ Cardinality(Threads) \in Nat
<1>1. Readers(o) \subseteq Threads
  BY DEF Readers
<1> QED
  BY <1>1, ThreadsFinite, FS_Subset, FS_CardinalityType

\* A step after which no object has a larger counter, nor a new reader,
\* preserves the bound.
LEMMA OverrunFrame ==
    ASSUME TypeOK, TypeOK', OverrunByReaders,
           \A o \in Objects : heap'[o].counter <= heap[o].counter,
           \A t \in Threads : pc'[t] = "count" => pc[t] = "count" /\ ptr'[t] = ptr[t]
    PROVE  OverrunByReaders'
<1> SUFFICES ASSUME NEW o \in Objects
             PROVE  heap'[o].counter + Cardinality(Readers(o)')
                       < HalfOpenMaxCall + Cardinality(Threads)
  BY DEF OverrunByReaders
<1>1. Readers(o)' \subseteq Readers(o)
  BY DEF Readers
<1>2. IsFiniteSet(Readers(o)) /\ Cardinality(Readers(o)) \in Nat /\ Cardinality(Threads) \in Nat
  BY ReadersFinite
<1>3. Cardinality(Readers(o)') <= Cardinality(Readers(o)) /\ IsFiniteSet(Readers(o)')
  BY <1>1, <1>2, FS_Subset
<1>4. Cardinality(Readers(o)') \in Nat
  BY <1>3, FS_CardinalityType
<1>5. heap[o].counter \in Nat /\ heap'[o].counter \in Nat
  BY DEF TypeOK, InstanceState
<1>6. heap[o].counter + Cardinality(Readers(o)) < HalfOpenMaxCall + Cardinality(Threads)
  BY DEF OverrunByReaders
<1> QED
  BY <1>2, <1>3, <1>4, <1>5, <1>6, MaxCallPositive

\* Every step preserves the bound.
LEMMA OverrunStep ==
    ASSUME TypeOK, TypeOK', OverrunByReaders, [Next]_vars
    PROVE  OverrunByReaders'
<1>0. \A o \in Objects : heap[o] \in InstanceState /\ heap[o].counter \in Nat
  BY DEF TypeOK, InstanceState
<1>1. CASE UNCHANGED vars
  BY <1>0, <1>1, OverrunFrame DEF vars
<1>2. ASSUME NEW o \in Objects, Install(o)
      PROVE  \A p \in Objects : heap'[p].counter <= heap[p].counter
  BY <1>0, <1>2 DEF Install, NewState, TypeOK
<1>3. ASSUME NEW t \in Threads, NEW where, Fetch(t, where), where # "count"
      PROVE  OverrunByReaders'
  <2>1. /\ entry' \in Objects
        /\ ptr' = [ptr EXCEPT ![t] = entry']
        /\ pc' = [pc EXCEPT ![t] = where]
        /\ \/ UNCHANGED <<heap, entry, counted>>
           \/ entry = None /\ Install(entry')
    BY <1>3, FetchEffect
  <2>2. \A p \in Objects : heap'[p].counter <= heap[p].counter
    BY <1>0, <1>2, <2>1
  <2>3. \A u \in Threads : pc'[u] = "count" => pc[u] = "count" /\ ptr'[u] = ptr[u]
    BY <1>3, <2>1 DEF TypeOK
  <2> QED
    BY <2>2, <2>3, OverrunFrame
<1>4. ASSUME NEW t \in Threads, NEW next \in InstanceState, Mark(t, next),
             pc[t] \in {"succeeded", "failed"}, next.counter <= heap[ptr[t]].counter
      PROVE  OverrunByReaders'
  <2>1. \A p \in Objects : heap'[p].counter <= heap[p].counter
    BY <1>0, <1>4, MarkEffect DEF TypeOK
  <2>2. \A u \in Threads : pc'[u] = "count" => pc[u] = "count" /\ ptr'[u] = ptr[u]
    BY <1>4, MarkEffect DEF TypeOK
  <2> QED
    BY <2>1, <2>2, OverrunFrame
<1>5. ASSUME NEW t \in Threads, AllowFetch(t)
      PROVE  OverrunByReaders'
  BY <1>5, <1>3 DEF AllowFetch
<1>6. ASSUME NEW t \in Threads, Continue(t)
      PROVE  OverrunByReaders'
  <2>1. CASE AllowClosed(t) \/ AllowExpired(t) \/ AllowRefuse(t)
    <3>1. \A u \in Threads : pc'[u] = "count" => pc[u] = "count" /\ ptr'[u] = ptr[u]
      BY <2>1 DEF AllowClosed, AllowExpired, AllowRefuse, Goto, Release, TypeOK
    <3>2. UNCHANGED heap
      BY <2>1 DEF AllowClosed, AllowExpired, AllowRefuse
    <3> QED
      BY <1>0, <3>1, <3>2, OverrunFrame
  <2>2. CASE AllowProbe(t)
    <3> SUFFICES ASSUME NEW o \in Objects
                 PROVE  heap'[o].counter + Cardinality(Readers(o)')
                           < HalfOpenMaxCall + Cardinality(Threads)
      BY DEF OverrunByReaders
    <3>1. UNCHANGED <<heap, ptr>> /\ pc' = [pc EXCEPT ![t] = "count"]
      BY <2>2 DEF AllowProbe, Goto
    <3>2. CASE o = ptr[t]
      <4>1. heap[o].counter < HalfOpenMaxCall
        BY <2>2, <3>2 DEF AllowProbe
      <4>2. Readers(o)' \subseteq Threads
        BY DEF Readers
      <4>3. IsFiniteSet(Readers(o)') /\ Cardinality(Readers(o)') <= Cardinality(Threads)
        BY <4>2, ThreadsFinite, FS_Subset
      <4>4. Cardinality(Readers(o)') \in Nat /\ Cardinality(Threads) \in Nat
        BY <4>3, ThreadsFinite, FS_CardinalityType
      <4> QED
        BY <1>0, <3>1, <4>1, <4>3, <4>4, MaxCallPositive
    <3>3. CASE o # ptr[t]
      <4>1. Readers(o)' = Readers(o)
        BY <3>1, <3>3 DEF Readers, TypeOK
      <4> QED
        BY <3>1, <4>1 DEF OverrunByReaders
    <3> QED
      BY <3>2, <3>3
  <2>3. CASE AllowCount(t)
    <3> SUFFICES ASSUME NEW o \in Objects
                 PROVE  heap'[o].counter + Cardinality(Readers(o)')
                           < HalfOpenMaxCall + Cardinality(Threads)
      BY DEF OverrunByReaders
    <3>1. /\ heap' = [heap EXCEPT ![ptr[t]] = AfterCount(heap[ptr[t]])]
          /\ pc[t] = "count"
          /\ pc' = [pc EXCEPT ![t] = "calling"]
          /\ ptr' = [ptr EXCEPT ![t] = None]
      BY <2>3 DEF AllowCount, Goto, Release
    <3>2. heap[o].counter + Cardinality(Readers(o)) < HalfOpenMaxCall + Cardinality(Threads)
      BY DEF OverrunByReaders
    <3>3. CASE o = ptr[t]
      <4>1. heap'[o].counter = heap[o].counter + 1
        BY <1>0, <3>1, <3>3, AfterCountFields DEF TypeOK
      <4>2. t \in Readers(o) /\ Readers(o)' = Readers(o) \ {t}
        BY <3>1, <3>3 DEF Readers, TypeOK
      <4>3. IsFiniteSet(Readers(o)) /\ Cardinality(Readers(o)) \in Nat /\ Cardinality(Threads) \in Nat
        BY ReadersFinite
      <4>4. Cardinality(Readers(o)') = Cardinality(Readers(o)) - 1
        BY <4>2, <4>3, FS_RemoveElement
      <4> QED
        BY <1>0, <3>2, <4>1, <4>3, <4>4, MaxCallPositive
    <3>4. CASE o # ptr[t]
      <4>1. heap'[o] = heap[o]
        BY <3>1, <3>4 DEF TypeOK
      <4>2. Readers(o)' = Readers(o)
        BY <3>1, <3>4 DEF Readers, TypeOK
      <4> QED
        BY <3>2, <4>1, <4>2
    <3> QED
      BY <3>3, <3>4
  <2>4. CASE TransitionFetch(t)
    BY <2>4, <1>3 DEF TransitionFetch
  <2>5. CASE TransitionToHalfOpen(t)
    <3>1. /\ ptr[t] \in Objects
          /\ heap' = [heap EXCEPT ![ptr[t]] = AfterTransition(heap[ptr[t]])]
          /\ pc' = [pc EXCEPT ![t] = "calling"]
          /\ ptr' = [ptr EXCEPT ![t] = None]
      BY <2>5 DEF TransitionToHalfOpen, Goto, Release, TypeOK
    <3>2. \A p \in Objects : heap'[p].counter <= heap[p].counter
      BY <1>0, <3>1, AfterTransitionFields DEF TypeOK
    <3>3. \A u \in Threads : pc'[u] = "count" => pc[u] = "count" /\ ptr'[u] = ptr[u]
      BY <3>1 DEF TypeOK
    <3> QED
      BY <3>2, <3>3, OverrunFrame
  <2>6. CASE MarkFetch(t)
    BY <2>6, <1>3 DEF MarkFetch
  <2>7. CASE MarkSuccess(t)
    <3>1. heap[ptr[t]] \in InstanceState
      BY <2>7 DEF MarkSuccess, TypeOK
    <3> QED
      BY <2>7, <3>1, <1>4, AfterSuccessType, AfterSuccessFields DEF MarkSuccess
  <2>8. CASE MarkFailure(t)
    <3>1. heap[ptr[t]] \in InstanceState
      BY <2>8 DEF MarkFailure, TypeOK
    <3> QED
      BY <2>8, <3>1, <1>4, AfterFailureType, AfterFailureFields DEF MarkFailure
  <2> QED
    BY <1>6, <2>1, <2>2, <2>3, <2>4, <2>5, <2>6, <2>7, <2>8 DEF Continue
<1>7. CASE GetState \/ Reset
  <2>1. /\ UNCHANGED <<pc, ptr>>
        /\ UNCHANGED heap \/ \E o \in Objects : Install(o)
    BY <1>7 DEF GetState, Reset, GetOrCreateState
  <2> QED
    BY <1>0, <1>2, <2>1, OverrunFrame
<1>8. CASE RemoveStaleInstances \/ Close
  BY <1>0, <1>8, OverrunFrame DEF RemoveStaleInstances, Close
<1>9. CASE Expire
  <2>1. PICK o \in Objects : heap' = [heap EXCEPT ![o].expired = TRUE]
    BY <1>9 DEF Expire
  <2>2. \A p \in Objects : heap'[p].counter <= heap[p].counter
    BY <1>0, <2>1 DEF TypeOK, InstanceState
  <2> QED
    BY <1>9, <2>2, OverrunFrame DEF Expire
<1> QED
  BY <1>1, <1>5, <1>6, <1>7, <1>8, <1>9 DEF Next

-----------------------------------------------------------------------------
\* The whole inductive invariant holds in every reachable state.
THEOREM BookkeepingHolds == Spec => []Bookkeeping
<1> DEFINE IInv == TypeOK /\ Bookkeeping
<1>1. Init => IInv
  <2> SUFFICES ASSUME Init PROVE IInv
    OBVIOUS
  <2>1. TypeOK
    BY NewStateType DEF Init, TypeOK, PCs
  <2>2. ClosedBelowThreshold /\ ReadersSeeHalfOpen /\ CountedCallsReport
    BY ThresholdPositive
    DEF Init, NewState, ClosedBelowThreshold, ReadersSeeHalfOpen, CountedCallsReport
  <2>3. CallsAccountedFor /\ NeverWedged
    BY DEF Init, CallsAccountedFor, NeverWedged
  <2>4. OverrunByReaders
    <3> SUFFICES ASSUME NEW o \in Objects
                 PROVE  heap[o].counter + Cardinality(Readers(o))
                           < HalfOpenMaxCall + Cardinality(Threads)
      BY DEF OverrunByReaders
    <3>1. Readers(o) = {}
      BY DEF Init, Readers
    <3>2. heap[o].counter = 0
      BY DEF Init, NewState
    <3>3. Cardinality(Readers(o)) = 0 /\ Cardinality(Threads) \in Nat
      BY <3>1, FS_EmptySet, ThreadsFinite, FS_CardinalityType
    <3> QED
      BY <3>2, <3>3, MaxCallPositive
  <2> QED
    BY <2>1, <2>2, <2>3, <2>4 DEF Bookkeeping
<1>2. IInv /\ [Next]_vars => IInv'
  BY TypeStep, LockInvStep, AccountingStep, OverrunStep DEF Bookkeeping, LockInv, Accounting
<1> QED
  BY <1>1, <1>2, PTL DEF Spec

\* A half-open breaker that has counted a call still waits for a report, so it
\* never refuses the instance for ever because a report went astray.
THEOREM NeverWedgedHolds == Spec => []NeverWedged
<1>1. Bookkeeping => NeverWedged
  BY DEF Bookkeeping
<1> QED
  BY <1>1, BookkeepingHolds, PTL

\* A closed breaker is below its threshold, however late reports arrive.
THEOREM ClosedBelowThresholdHolds == Spec => []ClosedBelowThreshold
<1>1. Bookkeeping => ClosedBelowThreshold
  BY DEF Bookkeeping
<1> QED
  BY <1>1, BookkeepingHolds, PTL

\* The unsynchronised read and increment of halfOpenCounter overruns
\* HalfOpenMaxCalls by less than the number of goroutines.
THEOREM OverrunBoundedHolds == Spec => []OverrunBounded
<1>1. TypeOK /\ Bookkeeping => OverrunBounded
  <2> SUFFICES ASSUME TypeOK, Bookkeeping, NEW o \in Objects
               PROVE  heap[o].counter < HalfOpenMaxCall + Cardinality(Threads)
    BY DEF OverrunBounded
  <2>1. heap[o].counter + Cardinality(Readers(o)) < HalfOpenMaxCall + Cardinality(Threads)
    BY DEF Bookkeeping, OverrunByReaders
  <2>2. Cardinality(Readers(o)) \in Nat /\ Cardinality(Threads) \in Nat
    BY ReadersFinite
  <2>3. heap[o].counter \in Nat
    BY DEF TypeOK, InstanceState
  <2> QED
    BY <2>1, <2>2, <2>3, MaxCallPositive
<1> QED
  BY <1>1, TypeCorrect, BookkeepingHolds, PTL

-----------------------------------------------------------------------------
(* An open breaker waits out its period.                                   *)

\* What a step may do to an object that is waiting out its open period.
KeepsWaiting(o) ==
    heap[o].state = "Open" /\ ~heap[o].expired /\ heap'[o].state # "Open"
        => entry' = o /\ heap'[o] = NewState

\* A new object may be put at an address nobody refers to, whatever was there.
LEMMA InstallKeepsWaiting ==
    ASSUME TypeOK, NEW p \in Objects, Install(p), NEW o \in Objects
    PROVE  KeepsWaiting(o)
BY DEF Install, KeepsWaiting, TypeOK

\* So a fetch does.
LEMMA FetchKeepsWaiting ==
    ASSUME TypeOK, NEW t \in Threads, NEW where, Fetch(t, where), NEW o \in Objects
    PROVE  KeepsWaiting(o)
<1>1. /\ entry' \in Objects
      /\ UNCHANGED <<heap, entry, counted>> \/ Install(entry')
  BY FetchEffect
<1> QED
  BY <1>1, InstallKeepsWaiting DEF KeepsWaiting

\* An operation that writes one object keeps every other waiting, and its own
\* if what it writes is still open.
LEMMA WriteKeepsWaiting ==
    ASSUME TypeOK, NEW p \in Objects, NEW next, heap' = [heap EXCEPT ![p] = next],
           heap[p].state = "Open" /\ ~heap[p].expired => next.state = "Open",
           NEW o \in Objects
    PROVE  KeepsWaiting(o)
BY DEF KeepsWaiting, TypeOK

\* No step of the breaker ends an open period before openUntil has passed,
\* Reset's and the cleanup goroutine's replacement of the object apart.
LEMMA WaitingStep ==
    ASSUME TypeOK, ReadersSeeHalfOpen, [Next]_vars, NEW o \in Objects
    PROVE  KeepsWaiting(o)
<1>1. CASE UNCHANGED heap
  BY <1>1 DEF KeepsWaiting
<1>2. ASSUME NEW t \in Threads, AllowFetch(t)
      PROVE  KeepsWaiting(o)
  BY <1>2, FetchKeepsWaiting DEF AllowFetch
<1>3. ASSUME NEW t \in Threads, Continue(t)
      PROVE  KeepsWaiting(o)
  <2> USE <1>3
  <2>1. pc[t] \notin {"idle", "reopen", "calling"} =>
            ptr[t] \in Objects /\ heap[ptr[t]] \in InstanceState
    BY DEF TypeOK
  <2>2. CASE AllowClosed(t) \/ AllowExpired(t) \/ AllowProbe(t) \/ AllowRefuse(t)
    BY <2>2, <1>1 DEF AllowClosed, AllowExpired, AllowProbe, AllowRefuse
  <2>3. CASE AllowCount(t)
    <3>1. heap[ptr[t]].state = "HalfOpen" /\ ptr[t] \in Objects
      BY <2>1, <2>3 DEF AllowCount, ReadersSeeHalfOpen
    <3> QED
      BY <2>3, <3>1, WriteKeepsWaiting DEF AllowCount
  <2>4. CASE TransitionFetch(t)
    BY <2>4, FetchKeepsWaiting DEF TransitionFetch
  <2>5. CASE TransitionToHalfOpen(t)
    <3>1. ptr[t] \in Objects /\ heap[ptr[t]] \in InstanceState
      BY <2>1, <2>5 DEF TransitionToHalfOpen
    <3>2. heap' = [heap EXCEPT ![ptr[t]] = AfterTransition(heap[ptr[t]])]
      BY <2>5 DEF TransitionToHalfOpen
    <3>3. heap[ptr[t]].state = "Open" /\ ~heap[ptr[t]].expired
             => AfterTransition(heap[ptr[t]]).state = "Open"
      BY <3>1, AfterTransitionFields DEF Due
    <3> QED
      BY <3>1, <3>2, <3>3, WriteKeepsWaiting
  <2>6. CASE MarkFetch(t)
    BY <2>6, FetchKeepsWaiting DEF MarkFetch
  <2>7. CASE MarkSuccess(t)
    <3>1. ptr[t] \in Objects /\ heap[ptr[t]] \in InstanceState
      BY <2>1, <2>7 DEF MarkSuccess
    <3>2. heap' = [heap EXCEPT ![ptr[t]] = AfterSuccess(heap[ptr[t]])]
      BY <2>7 DEF MarkSuccess, Mark
    <3>3. heap[ptr[t]].state = "Open" => AfterSuccess(heap[ptr[t]]).state = "Open"
      BY <3>1, AfterSuccessFields
    <3> QED
      BY <3>1, <3>2, <3>3, WriteKeepsWaiting
  <2>8. CASE MarkFailure(t)
    <3>1. ptr[t] \in Objects /\ heap[ptr[t]] \in InstanceState
      BY <2>1, <2>8 DEF MarkFailure
    <3>2. heap' = [heap EXCEPT ![ptr[t]] = AfterFailure(heap[ptr[t]])]
      BY <2>8 DEF MarkFailure, Mark
    <3>3. heap[ptr[t]].state = "Open" => AfterFailure(heap[ptr[t]]).state = "Open"
      BY <3>1, AfterFailureFields
    <3> QED
      BY <3>1, <3>2, <3>3, WriteKeepsWaiting
  <2> QED
    BY <2>2, <2>3, <2>4, <2>5, <2>6, <2>7, <2>8 DEF Continue
<1>4. CASE GetState \/ Reset
  BY <1>1, <1>4, InstallKeepsWaiting DEF GetState, Reset, GetOrCreateState
<1>5. CASE RemoveStaleInstances \/ Close \/ UNCHANGED vars
  BY <1>1, <1>5 DEF RemoveStaleInstances, Close, vars
<1>6. CASE Expire
  <2>1. PICK p \in Objects :
            heap[p].state = "Open" /\ heap' = [heap EXCEPT ![p].expired = TRUE]
    BY <1>6 DEF Expire
  <2>2. \A q \in Objects : heap'[q].state = heap[q].state
    BY <2>1 DEF TypeOK, InstanceState
  <2> QED
    BY <2>2 DEF KeepsWaiting
<1> QED
  BY <1>2, <1>3, <1>4, <1>5, <1>6 DEF Next

\* An open breaker stays open until openUntil has passed, however late a
\* goroutine comes to transitionToHalfOpen with what it saw before.
THEOREM CoolingIsKeptHolds == Spec => CoolingIsKept
<1>1. TypeOK /\ Bookkeeping /\ [Next]_vars
        => [\A o \in Objects :
              heap[o].state = "Open" /\ ~heap[o].expired /\ heap'[o].state # "Open"
                  => entry' = o /\ heap'[o] = NewState]_vars
  BY WaitingStep DEF Bookkeeping, KeepsWaiting
<1> QED
  BY <1>1, TypeCorrect, BookkeepingHolds, PTL DEF Spec, CoolingIsKept

-----------------------------------------------------------------------------
(* The breaker implements the state diagram of BreakerPromise.             *)

\* A step that callers cannot see: it leaves the entry's state, its period and,
\* while it is closed, its errors alone.
LEMMA InvisibleStep ==
    ASSUME entry' = entry,
           entry # None =>
              /\ heap'[entry].state = heap[entry].state
              /\ heap'[entry].expired = heap[entry].expired
              /\ heap[entry].state = "Closed" => heap'[entry].errors = heap[entry].errors
    PROVE  UNCHANGED Promise!vars
<1>1. Mode' = Mode
  BY DEF Mode
<1>2. VisibleErrors' = VisibleErrors
  BY <1>1 DEF VisibleErrors, Mode
<1> QED
  BY <1>1, <1>2 DEF Promise!vars

\* A new object is a new life of the breaker.
LEMMA InstallRenews ==
    ASSUME TypeOK, NEW o \in Objects, Install(o)
    PROVE  Promise!Renew
<1>1. entry' = o /\ o # entry /\ o # None /\ heap'[o] = NewState
  BY NoneIsNoObject DEF Install, Unreachable, TypeOK
<1>2. Mode' = "Closed"
  BY <1>1 DEF Mode, NewState
<1>3. VisibleErrors' = 0
  BY <1>1 DEF VisibleErrors, NewState
<1> QED
  BY <1>1, <1>2, <1>3 DEF Promise!Renew

\* Fetching an object either changes nothing or starts a new life.
LEMMA FetchKeepsPromise ==
    ASSUME TypeOK, NEW t \in Threads, NEW where, Fetch(t, where)
    PROVE  [Promise!Next]_(Promise!vars)
<1>1. /\ entry' \in Objects
      /\ UNCHANGED <<heap, entry, counted>> \/ Install(entry')
  BY FetchEffect
<1> QED
  BY <1>1, InvisibleStep, InstallRenews DEF Promise!Next

\* Every step of the breaker is a step of the state diagram or invisible.
LEMMA PromiseStep ==
    ASSUME TypeOK, ClosedBelowThreshold, [Next]_vars
    PROVE  [Promise!Next]_(Promise!vars)
<1>1. CASE UNCHANGED vars
  BY <1>1, InvisibleStep DEF vars
<1>2. ASSUME NEW t \in Threads, AllowFetch(t)
      PROVE  [Promise!Next]_(Promise!vars)
  BY <1>2, FetchKeepsPromise DEF AllowFetch
<1>3. ASSUME NEW t \in Threads, Continue(t)
      PROVE  [Promise!Next]_(Promise!vars)
  <2>1. CASE AllowClosed(t) \/ AllowExpired(t) \/ AllowProbe(t) \/ AllowRefuse(t)
    BY <2>1, InvisibleStep DEF AllowClosed, AllowExpired, AllowProbe, AllowRefuse
  <2>2. CASE AllowCount(t)
    <3>1. /\ ptr[t] \in Objects /\ heap[ptr[t]] \in InstanceState /\ entry' = entry
          /\ heap' = [heap EXCEPT ![ptr[t]] = AfterCount(heap[ptr[t]])]
      BY <2>2 DEF AllowCount, TypeOK
    <3>2. \A o \in Objects : /\ heap'[o].state = heap[o].state
                            /\ heap'[o].expired = heap[o].expired
                            /\ heap'[o].errors = heap[o].errors
      BY <3>1, AfterCountFields DEF TypeOK
    <3> QED
      BY <3>1, <3>2, InvisibleStep DEF TypeOK
  <2>3. CASE TransitionFetch(t)
    BY <2>3, FetchKeepsPromise DEF TransitionFetch
  <2>4. CASE TransitionToHalfOpen(t)
    <3> DEFINE s == heap[ptr[t]]
    <3>1. /\ ptr[t] \in Objects /\ s \in InstanceState /\ entry' = entry
          /\ heap' = [heap EXCEPT ![ptr[t]] = AfterTransition(s)]
      BY <2>4 DEF TransitionToHalfOpen, TypeOK
    <3>2. CASE ptr[t] # entry \/ ~Due(s)
      <4>1. entry # None => heap'[entry] = heap[entry]
        BY <3>1, <3>2, AfterTransitionFields DEF TypeOK
      <4> QED
        BY <3>1, <4>1, InvisibleStep
    <3>3. CASE ptr[t] = entry /\ Due(s)
      <4>1. entry # None /\ s = heap[entry] /\ heap'[entry].state = "HalfOpen"
        BY <3>1, <3>3, NoneIsNoObject, AfterTransitionFields DEF TypeOK
      <4>2. Mode = "Ready" /\ VisibleErrors = 0
        BY <3>3, <4>1 DEF Mode, VisibleErrors, Due
      <4>3. Mode' = "HalfOpen" /\ VisibleErrors' = 0
        BY <3>1, <4>1 DEF Mode, VisibleErrors
      <4> QED
        BY <3>1, <4>2, <4>3 DEF Promise!Next, Promise!Probe, Promise!Move
    <3> QED
      BY <3>2, <3>3
  <2>5. CASE MarkFetch(t)
    BY <2>5, FetchKeepsPromise DEF MarkFetch
  <2>6. CASE MarkSuccess(t)
    <3> DEFINE s == heap[ptr[t]]
               next == AfterSuccess(s)
    <3>1. /\ s \in InstanceState /\ next \in InstanceState
          /\ Mark(t, next) /\ pc[t] = "succeeded"
      BY <2>6, AfterSuccessType DEF MarkSuccess, TypeOK
    <3>2. /\ ptr[t] \in Objects /\ entry' = entry
          /\ heap' = [heap EXCEPT ![ptr[t]] = next]
      BY <3>1, MarkEffect
    <3>3. /\ next.errors = 0 /\ next.expired = s.expired
          /\ next.state = s.state \/ (s.state = "HalfOpen" /\ next.state = "Closed")
      BY <3>1, AfterSuccessFields
    <3>4. CASE ptr[t] # entry
      <4>1. entry # None => heap'[entry] = heap[entry]
        BY <3>2, <3>4 DEF TypeOK
      <4> QED
        BY <3>2, <4>1, InvisibleStep
    <3>5. CASE ptr[t] = entry
      <4>1. entry # None /\ s = heap[entry] /\ heap'[entry] = next
        BY <3>2, <3>5, NoneIsNoObject DEF TypeOK
      <4>2. CASE s.state = "Closed"
        <5>1. Mode = "Closed" /\ Mode' = "Closed" /\ VisibleErrors' = 0
          BY <3>2, <3>3, <4>1, <4>2 DEF Mode, VisibleErrors
        <5> QED
          BY <3>2, <5>1 DEF Promise!Next, Promise!Success
      <4>3. CASE s.state # "Closed" /\ next.state = s.state
        BY <3>2, <3>3, <4>1, <4>3, InvisibleStep
      <4>4. CASE s.state = "HalfOpen" /\ next.state = "Closed"
        <5>1. Mode = "HalfOpen" /\ Mode' = "Closed" /\ VisibleErrors = 0 /\ VisibleErrors' = 0
          BY <3>2, <3>3, <4>1, <4>4 DEF Mode, VisibleErrors
        <5> QED
          BY <3>2, <5>1 DEF Promise!Next, Promise!Recover, Promise!Move
      <4> QED
        BY <3>3, <4>2, <4>3, <4>4
    <3> QED
      BY <3>4, <3>5
  <2>7. CASE MarkFailure(t)
    <3> DEFINE s == heap[ptr[t]]
               next == AfterFailure(s)
    <3>1. /\ s \in InstanceState /\ next \in InstanceState
          /\ Mark(t, next) /\ pc[t] = "failed"
      BY <2>7, AfterFailureType DEF MarkFailure, TypeOK
    <3>2. /\ ptr[t] \in Objects /\ entry' = entry
          /\ heap' = [heap EXCEPT ![ptr[t]] = next]
      BY <3>1, MarkEffect
    <3>3. CASE ptr[t] # entry
      <4>1. entry # None => heap'[entry] = heap[entry]
        BY <3>2, <3>3 DEF TypeOK
      <4> QED
        BY <3>2, <4>1, InvisibleStep
    <3>4. CASE ptr[t] = entry
      <4>1. entry # None /\ s = heap[entry] /\ heap'[entry] = next
        BY <3>2, <3>4, NoneIsNoObject DEF TypeOK
      <4>2. s.state \in {"Closed", "Open", "HalfOpen"}
        BY <3>1 DEF InstanceState, States
      <4>3. CASE s.state = "HalfOpen"
        <5>1. next.state = "Open" /\ ~next.expired
          BY <3>1, <4>3, AfterFailureFields
        <5>2. Mode = "HalfOpen" /\ Mode' = "Cooling" /\ VisibleErrors = 0 /\ VisibleErrors' = 0
          BY <3>2, <4>1, <4>3, <5>1 DEF Mode, VisibleErrors
        <5> QED
          BY <3>2, <5>2 DEF Promise!Next, Promise!Relapse, Promise!Move
      <4>4. CASE s.state = "Open"
        <5>1. next.state = "Open" /\ next.expired = s.expired
          BY <3>1, <4>4, AfterFailureFields
        <5> QED
          BY <3>2, <4>1, <4>4, <5>1, InvisibleStep
      <4>5. CASE s.state = "Closed"
        <5>1. s.errors < Threshold
          BY <3>2, <4>5 DEF ClosedBelowThreshold
        <5>2. Mode = "Closed" /\ VisibleErrors = s.errors
          BY <4>1, <4>5 DEF Mode, VisibleErrors
        <5>3. CASE s.errors + 1 = Threshold /\ next.state = "Open" /\ ~next.expired
          <6>1. Mode' = "Cooling" /\ VisibleErrors' = 0
            BY <3>2, <4>1, <5>3 DEF Mode, VisibleErrors
          <6> QED
            BY <3>2, <5>2, <5>3, <6>1 DEF Promise!Next, Promise!Trip
        <5>4. CASE s.errors + 1 < Threshold /\ next.state = "Closed" /\ next.errors = s.errors + 1
          <6>1. Mode' = "Closed" /\ VisibleErrors' = s.errors + 1
            BY <3>2, <4>1, <5>4 DEF Mode, VisibleErrors
          <6> QED
            BY <3>2, <5>2, <5>4, <6>1 DEF Promise!Next, Promise!Failure
        <5> QED
          BY <3>1, <4>5, <5>1, <5>3, <5>4, AfterFailureFields
      <4> QED
        BY <4>2, <4>3, <4>4, <4>5
    <3> QED
      BY <3>3, <3>4
  <2> QED
    BY <1>3, <2>1, <2>2, <2>3, <2>4, <2>5, <2>6, <2>7 DEF Continue
<1>4. CASE GetState \/ Reset
  <2>1. UNCHANGED <<heap, entry>> \/ \E o \in Objects : Install(o)
    BY <1>4 DEF GetState, Reset, GetOrCreateState
  <2> QED
    BY <2>1, InvisibleStep, InstallRenews DEF Promise!Next
<1>5. CASE RemoveStaleInstances
  <2>1. Mode = "Closed" /\ Mode' = "Closed" /\ VisibleErrors' = 0 /\ entry' = None
    BY <1>5 DEF RemoveStaleInstances, Mode, VisibleErrors
  <2> QED
    BY <2>1 DEF Promise!Next, Promise!Drop
<1>6. CASE Close
  BY <1>6, InvisibleStep DEF Close
<1>7. CASE Expire
  <2>1. PICK o \in Objects :
            /\ heap[o].state = "Open" /\ ~heap[o].expired
            /\ heap' = [heap EXCEPT ![o].expired = TRUE]
            /\ entry' = entry
    BY <1>7 DEF Expire
  <2>2. CASE entry # o
    <3>1. entry # None => heap'[entry] = heap[entry]
      BY <2>1, <2>2 DEF TypeOK
    <3> QED
      BY <2>1, <3>1, InvisibleStep
  <2>3. CASE entry = o
    <3>1. entry # None /\ heap'[entry].state = "Open" /\ heap'[entry].expired
      BY <2>1, <2>3, NoneIsNoObject DEF TypeOK, InstanceState
    <3>2. Mode = "Cooling" /\ VisibleErrors = 0
      BY <2>1, <2>3, <3>1 DEF Mode, VisibleErrors
    <3>3. Mode' = "Ready" /\ VisibleErrors' = 0
      BY <2>1, <3>1 DEF Mode, VisibleErrors
    <3> QED
      BY <2>1, <3>2, <3>3 DEF Promise!Next, Promise!CoolDown, Promise!Move
  <2> QED
    BY <2>2, <2>3
<1> QED
  BY <1>1, <1>2, <1>3, <1>4, <1>5, <1>6, <1>7 DEF Next

\* The breaker its callers see follows the state diagram of BreakerPromise,
\* however its operations interleave.
THEOREM KeepsPromiseHolds == Spec => KeepsPromise
<1>1. Init => Promise!Init
  <2>1. Init => Mode = "Closed" /\ VisibleErrors = 0 /\ entry = None
    BY DEF Init, Mode, VisibleErrors
  <2> QED
    BY <2>1 DEF Promise!Init
<1>2. TypeOK /\ ClosedBelowThreshold /\ [Next]_vars => [Promise!Next]_(Promise!vars)
  BY PromiseStep
<1> QED
  BY <1>1, <1>2, TypeCorrect, ClosedBelowThresholdHolds, PTL DEF Spec, KeepsPromise, Promise!Spec
=============================================================================
