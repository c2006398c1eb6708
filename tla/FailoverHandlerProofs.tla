----------------------- MODULE FailoverHandlerProofs -----------------------
(***************************************************************************)
(* Theorems about FailoverHandler, for any callers, instances, lists,      *)
(* strategy, retry policy and thresholds.                                  *)
(***************************************************************************)
EXTENDS FailoverHandler, TLAPS

-----------------------------------------------------------------------------
\* One more instance on a list it is not on.
LEMMA AppendNew ==
    ASSUME NEW S, NEW s \in Seq(S), NEW x \in S
    PROVE  /\ Append(s, x) \in Seq(S)
           /\ Append(s, x) # <<>> /\ Last(Append(s, x)) = x
           /\ ListIds(Append(s, x)) = ListIds(s) \cup {x}
           /\ IsInjective(s) /\ x \notin ListIds(s) => IsInjective(Append(s, x))
<1>1. /\ Len(s) \in Nat /\ DOMAIN s = 1..Len(s)
      /\ Append(s, x) \in Seq(S) /\ Append(s, x) # <<>>
      /\ Len(Append(s, x)) = Len(s) + 1
      /\ DOMAIN Append(s, x) = 1..(Len(s) + 1)
      /\ Append(s, x)[Len(s) + 1] = x
      /\ \A i \in 1..Len(s) : Append(s, x)[i] = s[i]
  OBVIOUS
<1>2. \A i \in 1..(Len(s) + 1) : i \in 1..Len(s) \/ i = Len(s) + 1
  BY <1>1
<1>3. Len(s) + 1 \in 1..(Len(s) + 1) /\ 1..Len(s) \subseteq 1..(Len(s) + 1)
  BY <1>1
<1>4. ListIds(Append(s, x)) = ListIds(s) \cup {x}
  BY <1>1, <1>2, <1>3 DEF ListIds
<1>5. ASSUME IsInjective(s), x \notin ListIds(s)
      PROVE  IsInjective(Append(s, x))
  <2>1. \A i \in 1..Len(s) : s[i] # x
    BY <1>1, <1>5 DEF ListIds
  <2> QED
    BY <1>1, <1>2, <1>5, <2>1 DEF IsInjective
<1> QED
  BY <1>1, <1>4, <1>5 DEF Last

LEMMA EmptyList ==
    \A S : <<>> \in Seq(S) /\ ListIds(<<>>) = {} /\ IsInjective(<<>>)
BY DEF ListIds, IsInjective

\* What is listed has been tried, and is still when more have been tried.
LEMMA ListedTried ==
    ASSUME NEW S, NEW T, S \subseteq T, NEW s \in Seq(S)
    PROVE  s \in Seq(T) /\ ListIds(s) \subseteq S
<1>1. /\ Len(s) \in Nat /\ DOMAIN s = 1..Len(s) /\ \A i \in 1..Len(s) : s[i] \in S
      /\ s = [i \in 1..Len(s) |-> s[i]]
  OBVIOUS
<1> QED
  BY <1>1 DEF ListIds

\* GetInstance returns an instance of the list.
LEMMA PicksListed ==
    ASSUME TypeOK, NEW ch \in Picks
    PROVE  ch.inst \in Instances /\ ch.index \in Nat
<1>1. /\ Len(list) \in Nat /\ \A p \in 1..Len(list) : list[p] \in Instances
      /\ index \in Nat
  BY DEF TypeOK
<1>2. ASSUME NEW n \in Nat, n # 0, NEW i \in Nat
      PROVE  i % n \in Nat /\ i % n < n
  BY <1>2
<1>3. \A k \in 1..Len(list) : Rotation[k] \in 1..Len(list)
  <2> TAKE k \in 1..Len(list)
  <2>1. index + k - 1 \in Nat /\ Len(list) # 0
    BY <1>1
  <2>2. (index + k - 1) % Len(list) \in Nat /\ (index + k - 1) % Len(list) < Len(list)
    BY <1>1, <1>2, <2>1
  <2> QED
    BY <1>1, <2>2 DEF Rotation
<1>4. CASE Strategy = "next"
  <2>1. ch \in {[inst |-> list[p], index |-> p % Len(list)] : p \in FirstSelectable(Rotation)}
    BY <1>4 DEF Picks
  <2>2. PICK p \in FirstSelectable(Rotation) :
           ch = [inst |-> list[p], index |-> p % Len(list)]
    BY <2>1
  <2>3. p \in 1..Len(list)
    BY <1>3, <2>2 DEF FirstSelectable
  <2> QED
    BY <1>1, <1>2, <2>2, <2>3
<1>5. CASE Strategy = "random"
  BY <1>1, <1>5 DEF Picks, ListIds
<1>6. CASE Strategy = "best"
  <2> DEFINE order == [k \in 1..Len(list) |-> k]
  <2>1. ch \in {[inst |-> list[p], index |-> index] : p \in FirstSelectable(order)}
    BY <1>6 DEF Picks
  <2>2. PICK p \in FirstSelectable(order) : ch = [inst |-> list[p], index |-> index]
    BY <2>1
  <2>3. p \in 1..Len(list)
    BY <1>1, <2>2 DEF FirstSelectable
  <2> QED
    BY <1>1, <2>2, <2>3
<1> QED
  BY <1>4, <1>5, <1>6, StrategyKnown

-----------------------------------------------------------------------------
(***************************************************************************)
(* The local variables of an Execute.                                      *)
(***************************************************************************)
\* The next attempt touches neither the runs nor the failures.
LEMMA NextAttemptKeeps ==
    ASSUME NEW k \in CallRecords, NEW err \in Outcomes
    PROVE  LET n == NextAttempt(k, err)
           IN  /\ n \in CallRecords
               /\ n.runs = k.runs /\ n.failed = k.failed /\ n.tried = k.tried
               /\ n.success = k.success /\ n.pc \in {"select", "done"} /\ n.err = err
               /\ n.pc = "done" => n.attempt > MaxRetries \/ ~ShouldRetry(n.attempt, err)
<1> DEFINE a == k.attempt + 1
           where == IF a <= MaxRetries /\ ShouldRetry(a, err) THEN "select" ELSE "done"
           n == [k EXCEPT !.attempt = a, !.err = err, !.inst = NoInstance, !.pc = where]
<1>1. /\ where \in {"select", "done"} /\ a \in Nat
      /\ where = "done" => a > MaxRetries \/ ~ShouldRetry(a, err)
  BY Bounds DEF CallRecords
<1> HIDE DEF a, where
<1>2. n \in CallRecords /\ n.runs = k.runs /\ n.failed = k.failed /\ n.tried = k.tried
      /\ n.success = k.success /\ n.pc = where /\ n.err = err /\ n.attempt = a
  BY <1>1 DEF CallRecords
<1>3. n = NextAttempt(k, err)
  BY DEF NextAttempt, a, where
<1> HIDE DEF n
<1> QED
  BY <1>1, <1>2, <1>3

\* A failed attempt is recorded once.
LEMMA FailedAttempt ==
    ASSUME NEW k \in CallRecords, Tracked(k), k.pc \in Asking \cup Failing,
           NEW err \in Outcomes
    PROVE  LET n == NextAttempt(Recorded(k), err)
           IN  /\ n \in CallRecords /\ Tracked(n)
               /\ n.pc \in {"select", "done"} /\ n.err = err
               /\ ListIds(n.failed) = ListIds(k.failed) \cup {k.inst}
               /\ n.pc = "done" => n.attempt > MaxRetries \/ ~ShouldRetry(n.attempt, err)
<1> DEFINE f == Recorded(k)
           n == NextAttempt(f, err)
<1>1. /\ k.inst \in k.tried /\ ListIds(k.failed) = k.tried \ {k.inst}
      /\ k.failed \in Seq(k.tried) /\ IsInjective(k.failed)
      /\ k.runs \in Seq(k.tried) /\ IsInjective(k.runs) /\ ~k.success
  BY DEF Tracked, Asking, Failing
<1>2. /\ Append(k.failed, k.inst) \in Seq(k.tried)
      /\ IsInjective(Append(k.failed, k.inst))
      /\ ListIds(Append(k.failed, k.inst)) = ListIds(k.failed) \cup {k.inst}
  <2> DEFINE S == k.tried
             s == k.failed
             x == k.inst
  <2>1. s \in Seq(S) /\ x \in S /\ IsInjective(s) /\ x \notin ListIds(s)
    BY <1>1
  <2> HIDE DEF S, s, x
  <2>2. /\ Append(s, x) \in Seq(S) /\ IsInjective(Append(s, x))
        /\ ListIds(Append(s, x)) = ListIds(s) \cup {x}
    BY <2>1, AppendNew
  <2> QED
    BY <2>2 DEF S, s, x
<1>3. Append(k.failed, k.inst) \in Seq(Instances)
  <2>1. k.tried \subseteq Instances
    BY DEF CallRecords
  <2> DEFINE S == k.tried
             s == Append(k.failed, k.inst)
  <2>2. S \subseteq Instances /\ s \in Seq(S)
    BY <1>2, <2>1
  <2> HIDE DEF S, s
  <2>3. s \in Seq(Instances)
    BY <2>2, ListedTried
  <2> QED
    BY <2>3 DEF s
<1>4. /\ f \in CallRecords /\ f.failed = Append(k.failed, k.inst)
      /\ f.runs = k.runs /\ f.tried = k.tried /\ f.success = k.success
  BY <1>3 DEF CallRecords, Recorded
<1> HIDE DEF f
<1>5. /\ n \in CallRecords /\ n.failed = Append(k.failed, k.inst) /\ n.runs = k.runs
      /\ n.tried = k.tried /\ n.success = k.success /\ n.pc \in {"select", "done"}
      /\ n.err = err
      /\ n.pc = "done" => n.attempt > MaxRetries \/ ~ShouldRetry(n.attempt, err)
  BY <1>4, NextAttemptKeeps
<1>6. n = NextAttempt(Recorded(k), err)
  BY DEF f
<1> HIDE DEF n
<1>7. Tracked(n)
  BY <1>1, <1>2, <1>5 DEF Tracked, Asking, Failing, Succeeding
<1> QED
  BY <1>1, <1>2, <1>5, <1>6, <1>7

\* A step of the same phase changes where the Execute is, nothing else.
LEMMA SamePhase ==
    ASSUME NEW k \in CallRecords, Tracked(k), NEW where,
           \E phase \in {Asking, Failing, Succeeding} : k.pc \in phase /\ where \in phase
    PROVE  LET n == [k EXCEPT !.pc = where]
           IN  /\ n \in CallRecords /\ Tracked(n)
               /\ n.pc = where /\ n.inst = k.inst /\ n.failed = k.failed
<1> DEFINE n == [k EXCEPT !.pc = where]
<1>1. where \in Asking \cup Failing \cup Succeeding
  OBVIOUS
<1>2. /\ n \in CallRecords /\ n.pc = where /\ n.inst = k.inst /\ n.failed = k.failed
      /\ n.runs = k.runs /\ n.tried = k.tried /\ n.success = k.success
  BY <1>1 DEF CallRecords
<1> HIDE DEF n
<1>3. Tracked(n)
  BY <1>2 DEF Tracked, Asking, Failing, Succeeding
<1> QED
  BY <1>2, <1>3 DEF n

\* The detector rejects the instance before the operation has run on it.
LEMMA Rejected ==
    ASSUME NEW k \in CallRecords, Tracked(k), k.pc \in Asking, NEW e \in Outcomes
    PROVE  LET n == [k EXCEPT !.pc = "failDetector", !.err = e]
           IN  /\ n \in CallRecords /\ Tracked(n) /\ n.err = e
               /\ n.pc = "failDetector" /\ n.inst = k.inst /\ n.failed = k.failed
<1> DEFINE n == [k EXCEPT !.pc = "failDetector", !.err = e]
<1>1. /\ n \in CallRecords /\ n.pc = "failDetector" /\ n.inst = k.inst
      /\ n.failed = k.failed /\ n.runs = k.runs /\ n.tried = k.tried
      /\ n.success = k.success /\ n.err = e
  BY DEF CallRecords, Failing
<1> HIDE DEF n
<1>2. Tracked(n)
  BY <1>1 DEF Tracked, Asking, Failing, Succeeding
<1> QED
  BY <1>1, <1>2 DEF n

\* The operation runs on an instance it has not run on.
LEMMA RunsOnce ==
    ASSUME NEW k \in CallRecords, Tracked(k), k.pc = "call",
           NEW where \in {"failDetector", "okDetector"}, NEW e \in Outcomes
    PROVE  LET n == Ran(k, where, e)
           IN  /\ n \in CallRecords /\ Tracked(n) /\ n.err = e
               /\ n.pc = where /\ n.inst = k.inst /\ n.failed = k.failed
<1> DEFINE r == Append(k.runs, k.inst)
           n == Ran(k, where, e)
<1>1. /\ r \in Seq(k.tried) /\ r \in Seq(Instances) /\ IsInjective(r)
      /\ r # <<>> /\ Last(r) = k.inst
  <2> DEFINE S == k.tried
             s == k.runs
             x == k.inst
  <2>1. s \in Seq(S) /\ x \in S /\ IsInjective(s) /\ x \notin ListIds(s) /\ S \subseteq Instances
    BY DEF Tracked, Asking, CallRecords
  <2> HIDE DEF S, s, x
  <2>2. /\ Append(s, x) \in Seq(S) /\ IsInjective(Append(s, x))
        /\ Append(s, x) # <<>> /\ Last(Append(s, x)) = x
    BY <2>1, AppendNew
  <2>3. Append(s, x) \in Seq(Instances)
    BY <2>1, <2>2, ListedTried
  <2> QED
    BY <2>2, <2>3 DEF S, s, x
<1>2. n = [k EXCEPT !.pc = where, !.err = e, !.runs = r]
  BY DEF Ran
<1> HIDE DEF r, n
<1>3. /\ n \in CallRecords /\ n.pc = where /\ n.inst = k.inst
      /\ n.failed = k.failed /\ n.runs = r /\ n.tried = k.tried
      /\ n.success = k.success /\ n.err = e
  BY <1>1, <1>2 DEF CallRecords, Failing, Succeeding
<1>4. Tracked(n)
  BY <1>1, <1>3 DEF Tracked, Asking, Failing, Succeeding
<1> QED
  BY <1>3, <1>4 DEF n

\* The manager hands out an instance, new to this Execute or already tried.
Taken(k, i, where) == [k EXCEPT !.inst = i, !.tried = @ \cup {i}, !.pc = where]

LEMMA Selected ==
    ASSUME NEW k \in CallRecords, Tracked(k), k.pc = "select", NEW i \in Instances,
           NEW where, where = "allow" \/ (where \in {"done", "retag"} /\ i \in k.tried),
           where = "allow" => i \notin k.tried
    PROVE  LET n == Taken(k, i, where)
           IN  /\ n \in CallRecords /\ Tracked(n) /\ n.pc = where
               /\ n.failed = k.failed /\ n.err = k.err /\ n.instances = k.instances
               /\ n.tried = k.tried \cup {i} /\ n.inst = i
<1> DEFINE more == k.tried \cup {i}
           n == [k EXCEPT !.inst = i, !.tried = more, !.pc = where]
<1>1. /\ k.runs \in Seq(k.tried) /\ IsInjective(k.runs) /\ ~k.success
      /\ k.failed \in Seq(k.tried) /\ IsInjective(k.failed) /\ ListIds(k.failed) = k.tried
  BY DEF Tracked
<1>2. k.runs \in Seq(more) /\ k.failed \in Seq(more) /\ ListIds(k.runs) \subseteq k.tried
  <2> DEFINE S == k.tried
             s == k.runs
             f == k.failed
  <2>1. s \in Seq(S) /\ f \in Seq(S) /\ S \subseteq more
    BY <1>1
  <2> HIDE DEF S, s, f, more
  <2>2. s \in Seq(more) /\ f \in Seq(more) /\ ListIds(s) \subseteq S
    BY <2>1, ListedTried
  <2> QED
    BY <2>2 DEF S, s, f
<1>3. n = Taken(k, i, where)
  BY DEF Taken
<1>4. more \in SUBSET Instances /\ i \in more
  BY DEF CallRecords
<1>5. i \in k.tried => more = k.tried
  OBVIOUS
<1>6. i \notin k.tried => k.tried = more \ {i}
  OBVIOUS
<1>7. more = k.tried \cup {i}
  OBVIOUS
<1> HIDE DEF more
<1>8. /\ n \in CallRecords /\ n.pc = where /\ n.inst = i /\ n.failed = k.failed
      /\ n.runs = k.runs /\ n.tried = more /\ n.success = k.success
      /\ n.err = k.err /\ n.instances = k.instances
  BY <1>4 DEF CallRecords, Asking
<1> HIDE DEF n
<1>9. Tracked(n)
  BY <1>1, <1>2, <1>4, <1>5, <1>6, <1>8 DEF Tracked, Asking, Failing, Succeeding
<1> QED
  BY <1>3, <1>7, <1>8, <1>9

-----------------------------------------------------------------------------
(***************************************************************************)
(* The inductive invariant.                                                *)
(***************************************************************************)
IInv == TypeOK /\ CallsInOrder /\ SuspicionHasCause

\* One Execute goes on and nobody is cleared: the others stay as they are.
LEMMA OneGoesOn ==
    ASSUME TypeOK, CallsInOrder, NEW c \in Callers, NEW n \in CallRecords,
           call' = [call EXCEPT ![c] = n], blamed \subseteq blamed', Tracked(n),
           n.pc \in Failing => n.inst \in blamed', ListIds(n.failed) \subseteq blamed'
    PROVE  call' \in [Callers -> CallRecords] /\ CallsInOrder'
<1>1. call' \in [Callers -> CallRecords]
  BY DEF TypeOK
<1>2. ASSUME NEW d \in Callers
      PROVE  Tracked(call'[d]) /\ (call'[d].pc \in Failing => call'[d].inst \in blamed')
             /\ ListIds(call'[d].failed) \subseteq blamed'
  <2>1. CASE d = c
    <3>1. call'[d] = n
      BY <2>1 DEF TypeOK
    <3> QED
      BY <3>1
  <2>2. CASE d # c
    <3>1. call'[d] = call[d] /\ Tracked(call[d]) /\ Truthful(call[d])
      BY <2>2 DEF TypeOK, CallsInOrder
    <3> QED
      BY <3>1 DEF Truthful
  <2> QED
    BY <2>1, <2>2
<1> QED
  BY <1>1, <1>2 DEF CallsInOrder, Truthful, Tracked

\* What the detector makes of a failure and of a success.
Healths == [status : {"healthy", "suspect", "unhealthy"}, failures : Nat, successes : Nat]

LEMMA Marks ==
    ASSUME NEW h \in Healths
    PROVE  /\ MarkFailed(h) \in Healths
           /\ MarkSuccess(h) \in Healths
           /\ MarkSuccess(h).status \in {"healthy", h.status}
BY Bounds DEF Healths, MarkFailed, MarkSuccess, UpTo

\* What the breaker makes of them, and of the end of its open period.
Breakers == [mode : {"Closed", "Cooling", "Ready", "HalfOpen"}, errors : Nat]

LEMMA Trips ==
    ASSUME NEW b \in Breakers
    PROVE  /\ AfterFailure(b) \in Breakers
           /\ AfterTransition(b) \in Breakers
           /\ b.mode = "Closed" => AfterTransition(b) = b
           /\ AfterSuccess(b) \subseteq {NewBreaker, b} /\ NewBreaker \in Breakers
<1>1. AfterFailure(b) \in Breakers
  <2>1. Threshold \in Nat /\ b.errors \in Nat
    BY Bounds DEF Breakers
  <2>2. b.mode = "Closed" /\ b.errors + 1 < Threshold =>
           AfterFailure(b) = [b EXCEPT !.errors = @ + 1]
    BY <2>1 DEF AfterFailure
  <2>3. b.mode = "Closed" /\ b.errors + 1 >= Threshold =>
           AfterFailure(b) = [mode |-> "Cooling", errors |-> 0]
    BY <2>1 DEF AfterFailure
  <2>4. b.mode # "Closed" => AfterFailure(b) \in {b, [mode |-> "Cooling", errors |-> 0]}
    BY DEF AfterFailure, Breakers
  <2> QED
    BY <2>1, <2>2, <2>3, <2>4 DEF Breakers
<1>2. AfterTransition(b) \in Breakers /\ (b.mode = "Closed" => AfterTransition(b) = b)
  BY DEF Breakers, AfterTransition
<1>3. AfterSuccess(b) \subseteq {NewBreaker, b}
  BY DEF Breakers, AfterSuccess
<1>4. NewBreaker \in Breakers
  BY DEF Breakers, NewBreaker
<1> QED
  BY <1>1, <1>2, <1>3, <1>4

LEMMA InitHolds == Init => IInv
<1> SUFFICES ASSUME Init PROVE IInv
  OBVIOUS
<1>1. NoCall \in CallRecords
  BY DEF NoCall, CallRecords, Outcomes
<1>2. TypeOK
  BY <1>1 DEF Init, TypeOK, NewHealth, NewBreaker
<1>3. /\ NoCall.pc = "idle" /\ NoCall.runs = <<>> /\ NoCall.failed = <<>>
      /\ NoCall.success = FALSE
  BY DEF NoCall
<1>4. Tracked(NoCall) /\ Truthful(NoCall)
  BY <1>3, EmptyList DEF Tracked, Truthful, Asking, Failing, Succeeding
<1>5. CallsInOrder
  BY <1>4 DEF Init, CallsInOrder
<1>6. SuspicionHasCause
  BY DEF Init, SuspicionHasCause, Suspected, NewHealth, NewBreaker
<1> QED
  BY <1>2, <1>5, <1>6 DEF IInv

-----------------------------------------------------------------------------
(***************************************************************************)
(* Every step keeps it.                                                    *)
(***************************************************************************)
LEMMA PhaseGoesOn ==
    ASSUME IInv, NEW c \in Callers, NEW where, Goto(c, where), blamed \subseteq blamed',
           \E phase \in {Asking, Failing, Succeeding} :
              call[c].pc \in phase /\ where \in phase
    PROVE  call' \in [Callers -> CallRecords] /\ CallsInOrder'
<1> DEFINE k == call[c]
           n == [k EXCEPT !.pc = where]
<1>1. k \in CallRecords /\ Tracked(k) /\ Truthful(k)
  BY DEF IInv, TypeOK, CallsInOrder
<1>2. call' = [call EXCEPT ![c] = n]
  BY DEF Goto
<1>3. where \in Failing => k.pc \in Failing
  BY DEF Asking, Failing, Succeeding
<1>4. \E phase \in {Asking, Failing, Succeeding} : k.pc \in phase /\ where \in phase
  OBVIOUS
<1> HIDE DEF k
<1>5. /\ n \in CallRecords /\ Tracked(n)
      /\ n.pc = where /\ n.inst = k.inst /\ n.failed = k.failed
  BY <1>1, <1>4, SamePhase
<1> HIDE DEF n
<1>6. n.pc \in Failing => n.inst \in blamed'
  BY <1>1, <1>3, <1>5 DEF Truthful
<1>7. ListIds(n.failed) \subseteq blamed'
  BY <1>1, <1>5 DEF Truthful
<1> QED
  BY <1>2, <1>5, <1>6, <1>7, OneGoesOn DEF IInv

\* Rejection by the detector, of an instance that has failed.
LEMMA RejectionGoesOn ==
    ASSUME IInv, NEW c \in Callers, call[c].pc \in Asking, NEW e \in Outcomes,
           Reject(c, e), blamed \subseteq blamed', call[c].inst \in blamed'
    PROVE  call' \in [Callers -> CallRecords] /\ CallsInOrder'
<1> DEFINE k == call[c]
           n == [k EXCEPT !.pc = "failDetector", !.err = e]
<1>1. k \in CallRecords /\ Tracked(k) /\ Truthful(k) /\ k.pc \in Asking /\ k.inst \in blamed'
  BY DEF IInv, TypeOK, CallsInOrder
<1>2. call' = [call EXCEPT ![c] = n]
  BY DEF IInv, TypeOK, Reject
<1> HIDE DEF k
<1>3. /\ n \in CallRecords /\ Tracked(n)
      /\ n.inst = k.inst /\ n.failed = k.failed
  BY <1>1, Rejected
<1> HIDE DEF n
<1>4. n.inst \in blamed' /\ ListIds(n.failed) \subseteq blamed'
  BY <1>1, <1>3 DEF Truthful
<1> QED
  BY <1>2, <1>3, <1>4, OneGoesOn DEF IInv

\* A failed attempt is recorded and the next one begins, or the Execute ends.
LEMMA FailureGoesOn ==
    ASSUME IInv, NEW c \in Callers, call[c].pc \in Asking \cup Failing, NEW e \in Outcomes,
           call' = [call EXCEPT ![c] = NextAttempt(Recorded(@), e)],
           blamed \subseteq blamed', call[c].inst \in blamed'
    PROVE  call' \in [Callers -> CallRecords] /\ CallsInOrder'
<1> DEFINE k == call[c]
           n == NextAttempt(Recorded(k), e)
<1>1. k \in CallRecords /\ Tracked(k) /\ Truthful(k) /\ k.pc \in Asking \cup Failing
      /\ k.inst \in blamed'
  BY DEF IInv, TypeOK, CallsInOrder
<1>2. call' = [call EXCEPT ![c] = n]
  BY DEF IInv, TypeOK
<1> HIDE DEF k
<1>3. /\ n \in CallRecords /\ Tracked(n) /\ n.pc \in {"select", "done"}
      /\ ListIds(n.failed) = ListIds(k.failed) \cup {k.inst}
  BY <1>1, FailedAttempt
<1> HIDE DEF n
<1>4. n.pc \notin Failing /\ ListIds(n.failed) \subseteq blamed'
  BY <1>1, <1>3 DEF Truthful, Failing
<1> QED
  BY <1>2, <1>3, <1>4, OneGoesOn DEF IInv

\* The three views of the instances change without a new suspicion of one that
\* has not failed.
LEMMA ViewsKept ==
    ASSUME SuspicionHasCause, blamed \subseteq blamed',
           \A i \in Instances : Suspected(i)' => Suspected(i) \/ i \in blamed'
    PROVE  SuspicionHasCause'
BY DEF SuspicionHasCause

\* An Execute that has tried nothing yet.
LEMMA Begins ==
    ASSUME NEW l \in Lists, NEW where \in {"select", "done", "panicked"}, NEW err \in Outcomes
    PROVE  LET n == Begun(l, where, err)
           IN  /\ n \in CallRecords /\ Tracked(n)
               /\ n.pc = where /\ n.err = err /\ n.tried = {} /\ n.failed = <<>>
<1> DEFINE n == [NoCall EXCEPT !.instances = l, !.pc = where, !.err = err]
<1>1. NoCall \in CallRecords /\ NoCall.tried = {} /\ NoCall.runs = <<>>
      /\ NoCall.failed = <<>> /\ NoCall.success = FALSE
  BY DEF NoCall, CallRecords, Outcomes
<1>2. l \in Seq(Instances)
  BY ListsOfInstances
<1>3. /\ n \in CallRecords /\ n.pc = where /\ n.err = err /\ n.tried = {}
      /\ n.runs = <<>> /\ n.failed = <<>> /\ n.success = FALSE
  BY <1>1, <1>2 DEF CallRecords
<1>4. n = Begun(l, where, err)
  BY DEF Begun
<1> HIDE DEF n
<1>5. Tracked(n)
  BY <1>3, EmptyList DEF Tracked, Asking, Failing, Succeeding
<1> QED
  BY <1>3, <1>4, <1>5

LEMMA StartKeeps ==
    ASSUME IInv, NEW c \in Callers, Start(c) \/ StartCancelled(c)
    PROVE  IInv'
<1>1. UNCHANGED <<index, health, breaker, faults, blamed>>
  BY DEF Start, StartCancelled, manager
<1>2. PICK l \in Lists, where \in {"select", "done", "panicked"}, err \in Outcomes :
         call' = [call EXCEPT ![c] = Begun(l, where, err)]
  BY DEF Start, StartCancelled, Outcomes
<1> DEFINE n == Begun(l, where, err)
<1>3. n \in CallRecords /\ Tracked(n) /\ n.pc = where /\ n.failed = <<>>
  BY Begins
<1>4. call' = [call EXCEPT ![c] = n]
  BY <1>2
<1> HIDE DEF n
<1>5. n.pc \notin Failing /\ ListIds(n.failed) \subseteq blamed'
  BY <1>3, EmptyList DEF Failing
<1>6. call' \in [Callers -> CallRecords] /\ CallsInOrder'
  BY <1>1, <1>3, <1>4, <1>5, OneGoesOn DEF IInv
<1>7. /\ list' \in Seq(Instances)
      /\ marked' \in [Instances -> {"absent", "healthy", "unhealthy"}]
      /\ \A i \in Instances : marked'[i] = "unhealthy" => marked[i] = "unhealthy"
  <2>1. CASE Start(c)
    BY <2>1, ListsOfInstances DEF Start, StatusAfterUpdate, IInv, TypeOK
  <2>2. CASE StartCancelled(c)
    BY <2>2 DEF StartCancelled, manager, IInv, TypeOK
  <2> QED
    BY <2>1, <2>2
<1>8. TypeOK'
  BY <1>1, <1>6, <1>7 DEF IInv, TypeOK
<1>9. SuspicionHasCause'
  BY <1>1, <1>7, ViewsKept DEF IInv, Suspected
<1> QED
  BY <1>6, <1>8, <1>9 DEF IInv

\* The Execute ends early, with the instances it has tried all recorded.
LEMMA EndsKeep ==
    ASSUME IInv, NEW c \in Callers, Cancel(c) \/ SelectNone(c)
    PROVE  IInv'
<1> DEFINE k == call[c]
<1>1. PICK e \in {"cancelled", "none_available"} :
         call' = [call EXCEPT ![c].pc = "done", ![c].err = e]
  BY DEF Cancel, SelectNone
<1> DEFINE n == [k EXCEPT !.pc = "done", !.err = e]
<1>2. call' = [call EXCEPT ![c] = n]
  BY <1>1 DEF IInv, TypeOK
<1>3. k \in CallRecords /\ Tracked(k) /\ Truthful(k) /\ k.pc = "select"
  BY DEF IInv, TypeOK, CallsInOrder, Cancel, SelectNone
<1> HIDE DEF k
<1>4. /\ n \in CallRecords /\ n.pc = "done" /\ n.failed = k.failed /\ n.runs = k.runs
      /\ n.tried = k.tried /\ n.success = k.success
  BY <1>3 DEF CallRecords, Outcomes
<1> HIDE DEF n
<1>5. Tracked(n) /\ n.pc \notin Failing
  BY <1>3, <1>4 DEF Tracked, Asking, Failing, Succeeding
<1>6. UNCHANGED <<list, marked, index, health, breaker, faults, blamed>>
  BY DEF Cancel, SelectNone, manager
<1>7. call' \in [Callers -> CallRecords] /\ CallsInOrder'
  BY <1>2, <1>3, <1>4, <1>5, <1>6, OneGoesOn DEF IInv, Truthful
<1>8. TypeOK'
  BY <1>6, <1>7 DEF IInv, TypeOK
<1>9. SuspicionHasCause'
  BY <1>6, ViewsKept DEF IInv, Suspected
<1> QED
  BY <1>7, <1>8, <1>9 DEF IInv

LEMMA SelectKeeps ==
    ASSUME IInv, NEW c \in Callers, Select(c)
    PROVE  IInv'
<1> DEFINE k == call[c]
<1>1. PICK ch \in Picks :
         /\ index' = ch.index
         /\ call' = [call EXCEPT ![c].inst = ch.inst, ![c].tried = @ \cup {ch.inst},
                                 ![c].pc = IF ch.inst \notin k.tried THEN "allow"
                                           ELSE IF Cardinality(k.tried) >= Len(k.instances)
                                                THEN "done"
                                           ELSE "retag"]
  BY DEF Select
<1> DEFINE i == ch.inst
           where == IF i \notin k.tried THEN "allow"
                    ELSE IF Cardinality(k.tried) >= Len(k.instances) THEN "done"
                    ELSE "retag"
           m == Taken(k, i, where)
<1>2. ch.inst \in Instances /\ ch.index \in Nat
  BY <1>1, PicksListed DEF IInv
<1>3. call' = [call EXCEPT ![c] = m]
  BY <1>1 DEF IInv, TypeOK, Taken
<1>4. k \in CallRecords /\ Tracked(k) /\ Truthful(k) /\ k.pc = "select"
  BY DEF IInv, TypeOK, CallsInOrder, Select
<1>5. /\ where = "allow" \/ (where \in {"done", "retag"} /\ i \in k.tried)
      /\ where = "allow" => i \notin k.tried
  <2> DEFINE exhausted == Cardinality(k.tried) >= Len(k.instances)
  <2>1. where = IF i \notin k.tried THEN "allow" ELSE IF exhausted THEN "done" ELSE "retag"
    OBVIOUS
  <2> HIDE DEF k, i, where, exhausted
  <2>2. where \in {"allow", "done", "retag"} /\ (where = "allow" <=> i \notin k.tried)
    <3>1. CASE i \notin k.tried
      BY <2>1, <3>1
    <3>2. CASE i \in k.tried /\ exhausted
      BY <2>1, <3>2
    <3>3. CASE i \in k.tried /\ ~exhausted
      BY <2>1, <3>3
    <3> QED
      BY <3>1, <3>2, <3>3
  <2> QED
    BY <2>2
<1> HIDE DEF k, i, where
<1>6. /\ m \in CallRecords /\ Tracked(m) /\ m.pc = where /\ m.failed = k.failed
  <2>1. i \in Instances
    BY <1>2 DEF i
  <2> QED
    BY <1>4, <1>5, <2>1, Selected
<1>7. m.pc \notin Failing /\ ListIds(m.failed) \subseteq blamed
  BY <1>4, <1>5, <1>6 DEF Truthful, Failing
<1> HIDE DEF m
<1>8. UNCHANGED <<list, marked, health, breaker, faults, blamed>>
  BY DEF Select
<1>9. call' \in [Callers -> CallRecords] /\ CallsInOrder'
  BY <1>3, <1>6, <1>7, <1>8, OneGoesOn DEF IInv
<1>10. TypeOK'
  BY <1>1, <1>2, <1>8, <1>9 DEF IInv, TypeOK
<1>11. SuspicionHasCause'
  BY <1>8, ViewsKept DEF IInv, Suspected
<1> QED
  BY <1>9, <1>10, <1>11 DEF IInv

LEMMA RetagKeeps ==
    ASSUME IInv, NEW c \in Callers, Retag(c)
    PROVE  IInv'
<1> DEFINE k == call[c]
           n == NextAttempt(k, k.err)
<1>1. call' = [call EXCEPT ![c] = n] /\ marked' = [marked EXCEPT ![k.inst] = "unhealthy"]
  BY DEF Retag, MarkInstanceStatus
<1>2. k \in CallRecords /\ Tracked(k) /\ Truthful(k) /\ k.pc = "retag"
  BY DEF IInv, TypeOK, CallsInOrder, Retag
<1>3. UNCHANGED <<list, index, health, breaker, faults, blamed>>
  BY DEF Retag
<1> HIDE DEF k
<1>4. k.err \in Outcomes
  BY <1>2 DEF CallRecords
<1>5. /\ n \in CallRecords /\ n.pc \in {"select", "done"} /\ n.failed = k.failed
      /\ n.runs = k.runs /\ n.tried = k.tried /\ n.success = k.success
  BY <1>2, <1>4, NextAttemptKeeps
<1> HIDE DEF n
<1>6. Tracked(n) /\ n.pc \notin Failing
  BY <1>2, <1>5 DEF Tracked, Asking, Failing, Succeeding
<1>7. call' \in [Callers -> CallRecords] /\ CallsInOrder'
  BY <1>1, <1>2, <1>3, <1>5, <1>6, OneGoesOn DEF IInv, Truthful
<1>8. TypeOK'
  BY <1>1, <1>3, <1>7 DEF IInv, TypeOK
<1>9. k.inst \in blamed
  BY <1>2 DEF Tracked, Truthful
<1>10. SuspicionHasCause'
  BY <1>1, <1>3, <1>9, ViewsKept DEF IInv, TypeOK, Suspected
<1> QED
  BY <1>7, <1>8, <1>10 DEF IInv

\* An Execute that has an instance in hand: what is known of it.
LEMMA InHand ==
    ASSUME IInv, NEW c \in Callers,
           call[c].pc \in Asking \cup Failing \cup Succeeding
    PROVE  /\ call[c] \in CallRecords /\ Tracked(call[c]) /\ Truthful(call[c])
           /\ call[c].inst \in Instances
           /\ health[call[c].inst] \in Healths /\ breaker[call[c].inst] \in Breakers
           /\ call[c].pc \in Failing => call[c].inst \in blamed
           /\ Suspected(call[c].inst) => call[c].inst \in blamed
<1>1. call[c] \in CallRecords /\ Tracked(call[c]) /\ Truthful(call[c])
  BY DEF IInv, TypeOK, CallsInOrder
<1>2. call[c].tried \subseteq Instances
  BY <1>1 DEF CallRecords
<1>3. call[c].inst \in Instances
  BY <1>1, <1>2 DEF Tracked
<1> QED
  BY <1>1, <1>3 DEF IInv, TypeOK, Healths, Breakers, Truthful, SuspicionHasCause

\* The breaker lets the call through, or finds its open period over.
LEMMA AllowKeeps ==
    ASSUME IInv, NEW c \in Callers, Allow(c) \/ AllowExpired(c)
    PROVE  IInv'
<1>1. PICK where \in {"detect", "reopen"} : Goto(c, where)
  BY DEF Allow, AllowExpired
<1>2. call[c].pc \in Asking /\ where \in Asking
  BY DEF Allow, AllowExpired, Asking
<1>3. UNCHANGED <<list, marked, index, health, breaker, faults, blamed>>
  BY DEF Allow, AllowExpired, manager
<1>4. call' \in [Callers -> CallRecords] /\ CallsInOrder'
  BY <1>1, <1>2, <1>3, PhaseGoesOn
<1>5. TypeOK'
  BY <1>3, <1>4 DEF IInv, TypeOK
<1>6. SuspicionHasCause'
  BY <1>3, ViewsKept DEF IInv, Suspected
<1> QED
  BY <1>4, <1>5, <1>6 DEF IInv

LEMMA ReopenKeeps ==
    ASSUME IInv, NEW c \in Callers, Reopen(c)
    PROVE  IInv'
<1> DEFINE i == call[c].inst
           b == AfterTransition(breaker[i])
<1>1. call[c].pc \in Asking /\ "detect" \in Asking /\ Goto(c, "detect")
  BY DEF Reopen, Asking
<1>2. /\ breaker' = [breaker EXCEPT ![i] = b]
      /\ UNCHANGED <<list, marked, index, health, faults, blamed>>
  BY DEF Reopen, manager
<1>3. call' \in [Callers -> CallRecords] /\ CallsInOrder'
  BY <1>1, <1>2, PhaseGoesOn
<1>4. i \in Instances /\ breaker[i] \in Breakers
  BY <1>1, InHand
<1>5. b \in Breakers /\ (breaker[i].mode = "Closed" => b = breaker[i])
  BY <1>4, Trips
<1> HIDE DEF i, b
<1>6. TypeOK'
  BY <1>2, <1>3, <1>4, <1>5 DEF IInv, TypeOK, Breakers
<1>7. \A j \in Instances : breaker'[j] = breaker[j] \/ breaker[j].mode # "Closed"
  BY <1>2, <1>4, <1>5 DEF IInv, TypeOK
<1>8. SuspicionHasCause'
  BY <1>2, <1>7, ViewsKept DEF IInv, Suspected
<1> QED
  BY <1>3, <1>6, <1>8 DEF IInv

\* A breaker refuses only calls to an instance that has failed.
LEMMA RefuseKeeps ==
    ASSUME IInv, NEW c \in Callers, Refuse(c)
    PROVE  IInv'
<1>1. /\ call[c].pc \in Asking /\ BreakerRefuses(breaker[call[c].inst])
      /\ call' = [call EXCEPT ![c] = NextAttempt(Recorded(@), "circuit_open")]
      /\ UNCHANGED <<list, marked, index, health, breaker, faults, blamed>>
  BY DEF Refuse, Asking, manager
<1>2. Suspected(call[c].inst)
  BY <1>1 DEF BreakerRefuses, Suspected
<1>3. call[c].inst \in blamed /\ "circuit_open" \in Outcomes
  BY <1>1, <1>2, InHand DEF Outcomes, Errors
<1>4. call' \in [Callers -> CallRecords] /\ CallsInOrder'
  BY <1>1, <1>3, FailureGoesOn
<1>5. TypeOK'
  BY <1>1, <1>4 DEF IInv, TypeOK
<1>6. SuspicionHasCause'
  BY <1>1, ViewsKept DEF IInv, Suspected
<1> QED
  BY <1>4, <1>5, <1>6 DEF IInv

\* The detector rejects, before or after the dial, only an instance it holds
\* something against.
LEMMA DetectKeeps ==
    ASSUME IInv, NEW c \in Callers, Detect(c) \/ Verdict(c)
    PROVE  IInv'
<1>1. /\ call[c].pc \in Asking
      /\ UNCHANGED <<list, marked, index, health, breaker, faults, blamed>>
  BY DEF Detect, Verdict, Asking, manager
<1>4. call' \in [Callers -> CallRecords] /\ CallsInOrder'
  <2>1. CASE \E where \in {"dial", "call"} : Goto(c, where)
    <3>1. PICK where \in {"dial", "call"} : Goto(c, where)
      BY <2>1
    <3>2. where \in Asking
      BY DEF Asking
    <3> QED
      BY <1>1, <3>1, <3>2, PhaseGoesOn
  <2>2. CASE health[call[c].inst].status # "healthy" /\ Reject(c, "unavailable")
    <3>1. call[c].inst \in blamed
      BY <1>1, <2>2, InHand DEF Suspected
    <3>2. "unavailable" \in Outcomes
      BY DEF Outcomes, Errors
    <3> QED
      BY <1>1, <2>2, <3>1, <3>2, RejectionGoesOn
  <2> QED
    BY <2>1, <2>2 DEF Detect, Verdict
<1>5. TypeOK'
  BY <1>1, <1>4 DEF IInv, TypeOK
<1>6. SuspicionHasCause'
  BY <1>1, ViewsKept DEF IInv, Suspected
<1> QED
  BY <1>4, <1>5, <1>6 DEF IInv

LEMMA DialFailsKeeps ==
    ASSUME IInv, NEW c \in Callers, DialFails(c)
    PROVE  IInv'
<1> DEFINE i == call[c].inst
           h == MarkFailed(health[i])
<1>1. call[c].pc \in Asking
  BY DEF DialFails, Asking
<1>2. /\ faults' = faults + 1 /\ blamed' = blamed \cup {i}
      /\ health' = [health EXCEPT ![i] = h]
      /\ UNCHANGED <<list, marked, index, breaker>>
  BY DEF DialFails, manager
<1>3. PICK e \in {"refused", "timeout"} : Reject(c, e)
  BY DEF DialFails
<1>4. e \in Outcomes
  BY DEF Outcomes, Errors
<1>5. call' \in [Callers -> CallRecords] /\ CallsInOrder'
  <2>1. call[c].inst \in blamed' /\ blamed \subseteq blamed'
    BY <1>2
  <2> QED
    BY <1>1, <1>3, <1>4, <2>1, RejectionGoesOn
<1>6. i \in Instances /\ health[i] \in Healths
  BY <1>1, InHand
<1>7. h \in Healths
  BY <1>6, Marks
<1> HIDE DEF i, h
<1>8. TypeOK'
  BY <1>2, <1>5, <1>6, <1>7 DEF IInv, TypeOK, Healths
<1>9. \A j \in Instances : j = i \/ health'[j] = health[j]
  BY <1>2 DEF IInv, TypeOK
<1>10. SuspicionHasCause'
  BY <1>2, <1>9, ViewsKept DEF IInv, Suspected
<1> QED
  BY <1>5, <1>8, <1>10 DEF IInv

\* A success takes back what the detector holds against the instance, if anything.
LEMMA CleanBillKeeps ==
    ASSUME IInv, NEW c \in Callers, DialSucceeds(c) \/ OkDetector(c)
    PROVE  IInv'
<1> DEFINE i == call[c].inst
           h == MarkSuccess(health[i])
<1>1. \/ call[c].pc = "dial" /\ Goto(c, "verdict")
      \/ call[c].pc = "okDetector" /\ Goto(c, "okBreaker")
  BY DEF DialSucceeds, OkDetector
<1>2. /\ health' = [health EXCEPT ![i] = h]
      /\ UNCHANGED <<list, marked, index, breaker, faults, blamed>>
  BY DEF DialSucceeds, OkDetector, manager
<1>3. PICK where \in {"verdict", "okBreaker"} :
         /\ Goto(c, where)
         /\ \/ call[c].pc \in Asking /\ where \in Asking
            \/ call[c].pc \in Succeeding /\ where \in Succeeding
  BY <1>1 DEF Asking, Succeeding
<1>4. call' \in [Callers -> CallRecords] /\ CallsInOrder'
  BY <1>2, <1>3, PhaseGoesOn
<1>5. i \in Instances /\ health[i] \in Healths
  BY <1>3, InHand
<1>6. h \in Healths /\ h.status \in {"healthy", health[i].status}
  BY <1>5, Marks
<1> HIDE DEF i, h
<1>7. TypeOK'
  BY <1>2, <1>4, <1>5, <1>6 DEF IInv, TypeOK, Healths
<1>8. \A j \in Instances : health'[j].status \in {"healthy", health[j].status}
  BY <1>2, <1>5, <1>6 DEF IInv, TypeOK
<1>9. SuspicionHasCause'
  BY <1>2, <1>8, ViewsKept DEF IInv, Suspected
<1> QED
  BY <1>4, <1>7, <1>9 DEF IInv

LEMMA OperationFailsKeeps ==
    ASSUME IInv, NEW c \in Callers, OperationFails(c)
    PROVE  IInv'
<1> DEFINE k == call[c]
           n == Ran(k, "failDetector", "operation")
<1>1. /\ call' = [call EXCEPT ![c] = n]
      /\ faults' = faults + 1 /\ blamed' = blamed \cup {k.inst}
      /\ UNCHANGED <<list, marked, index, health, breaker>>
  BY DEF OperationFails, Ran, manager, IInv, TypeOK
<1>2. k.pc = "call" /\ k.pc \in Asking
  BY DEF OperationFails, Asking
<1>3. k \in CallRecords /\ Tracked(k) /\ Truthful(k) /\ k.inst \in Instances
  BY <1>2, InHand
<1> HIDE DEF k
<1>4. n \in CallRecords /\ Tracked(n) /\ n.inst = k.inst /\ n.failed = k.failed
  <2>1. "operation" \in Outcomes
    BY DEF Outcomes, Errors
  <2> QED
    BY <1>2, <1>3, <2>1, RunsOnce
<1> HIDE DEF n
<1>5. call' \in [Callers -> CallRecords] /\ CallsInOrder'
  <2>1. n.inst \in blamed' /\ ListIds(n.failed) \subseteq blamed' /\ blamed \subseteq blamed'
    BY <1>1, <1>3, <1>4 DEF Truthful
  <2> QED
    BY <1>1, <1>4, <2>1, OneGoesOn DEF IInv
<1>6. TypeOK'
  BY <1>1, <1>3, <1>5 DEF IInv, TypeOK
<1>7. SuspicionHasCause'
  BY <1>1, ViewsKept DEF IInv, Suspected
<1> QED
  BY <1>5, <1>6, <1>7 DEF IInv

LEMMA OperationSucceedsKeeps ==
    ASSUME IInv, NEW c \in Callers, OperationSucceeds(c)
    PROVE  IInv'
<1> DEFINE k == call[c]
           n == Ran(k, "okDetector", k.err)
<1>1. k.pc = "call" /\ k.pc \in Asking
  BY DEF OperationSucceeds, Asking
<1>2. k \in CallRecords /\ Tracked(k) /\ Truthful(k) /\ k.inst \in Instances
  BY <1>1, InHand
<1>3. /\ call' = [call EXCEPT ![c] = n]
      /\ UNCHANGED <<list, marked, index, health, breaker, faults, blamed>>
  BY DEF OperationSucceeds, Ran, manager, IInv, TypeOK, CallRecords
<1> HIDE DEF k
<1>4. k.err \in Outcomes
  BY <1>2 DEF CallRecords
<1>5. n \in CallRecords /\ Tracked(n) /\ n.pc = "okDetector" /\ n.failed = k.failed
  BY <1>1, <1>2, <1>4, RunsOnce
<1> HIDE DEF n
<1>6. call' \in [Callers -> CallRecords] /\ CallsInOrder'
  <2>1. n.pc \notin Failing /\ ListIds(n.failed) \subseteq blamed' /\ blamed \subseteq blamed'
    BY <1>2, <1>3, <1>5 DEF Truthful, Failing
  <2> QED
    BY <1>3, <1>5, <2>1, OneGoesOn DEF IInv
<1>7. TypeOK'
  BY <1>3, <1>6 DEF IInv, TypeOK
<1>8. SuspicionHasCause'
  BY <1>3, ViewsKept DEF IInv, Suspected
<1> QED
  BY <1>6, <1>7, <1>8 DEF IInv

LEMMA FailDetectorKeeps ==
    ASSUME IInv, NEW c \in Callers, FailDetector(c)
    PROVE  IInv'
<1> DEFINE i == call[c].inst
           h == MarkFailed(health[i])
<1>1. call[c].pc \in Failing /\ "failBreaker" \in Failing /\ Goto(c, "failBreaker")
  BY DEF FailDetector, Failing
<1>2. /\ health' = [health EXCEPT ![i] = h]
      /\ UNCHANGED <<list, marked, index, breaker, faults, blamed>>
  BY DEF FailDetector, manager
<1>3. call' \in [Callers -> CallRecords] /\ CallsInOrder'
  BY <1>1, <1>2, PhaseGoesOn
<1>4. i \in Instances /\ i \in blamed /\ health[i] \in Healths
  BY <1>1, InHand
<1>5. h \in Healths
  BY <1>4, Marks
<1> HIDE DEF i, h
<1>6. TypeOK'
  BY <1>2, <1>3, <1>4, <1>5 DEF IInv, TypeOK, Healths
<1>7. \A j \in Instances : j = i \/ health'[j] = health[j]
  BY <1>2 DEF IInv, TypeOK
<1>8. SuspicionHasCause'
  BY <1>2, <1>4, <1>7, ViewsKept DEF IInv, Suspected
<1> QED
  BY <1>3, <1>6, <1>8 DEF IInv

\* A failure may open the breaker of the instance that failed; a success closes
\* it or leaves it.
LEMMA FailBreakerKeeps ==
    ASSUME IInv, NEW c \in Callers, FailBreaker(c)
    PROVE  IInv'
<1> DEFINE i == call[c].inst
           b == AfterFailure(breaker[i])
<1>1. call[c].pc \in Failing /\ "failManager" \in Failing /\ Goto(c, "failManager")
  BY DEF FailBreaker, Failing
<1>2. /\ breaker' = [breaker EXCEPT ![i] = b]
      /\ UNCHANGED <<list, marked, index, health, faults, blamed>>
  BY DEF FailBreaker, manager
<1>3. call' \in [Callers -> CallRecords] /\ CallsInOrder'
  BY <1>1, <1>2, PhaseGoesOn
<1>4. i \in Instances /\ i \in blamed /\ breaker[i] \in Breakers
  BY <1>1, InHand
<1>5. b \in Breakers
  BY <1>4, Trips
<1> HIDE DEF i, b
<1>6. TypeOK'
  BY <1>2, <1>3, <1>4, <1>5 DEF IInv, TypeOK, Breakers
<1>7. \A j \in Instances : j = i \/ breaker'[j] = breaker[j]
  BY <1>2 DEF IInv, TypeOK
<1>8. SuspicionHasCause'
  BY <1>2, <1>4, <1>7, ViewsKept DEF IInv, Suspected
<1> QED
  BY <1>3, <1>6, <1>8 DEF IInv

LEMMA OkBreakerKeeps ==
    ASSUME IInv, NEW c \in Callers, OkBreaker(c)
    PROVE  IInv'
<1> DEFINE i == call[c].inst
<1>1. call[c].pc \in Succeeding /\ "okManager" \in Succeeding /\ Goto(c, "okManager")
  BY DEF OkBreaker, Succeeding
<1>2. PICK b \in AfterSuccess(breaker[i]) :
         /\ breaker' = [breaker EXCEPT ![i] = b]
         /\ UNCHANGED <<list, marked, index, health, faults, blamed>>
  BY DEF OkBreaker, manager
<1>3. call' \in [Callers -> CallRecords] /\ CallsInOrder'
  BY <1>1, <1>2, PhaseGoesOn
<1>4. i \in Instances /\ breaker[i] \in Breakers
  BY <1>1, InHand
<1>5. b \in {NewBreaker, breaker[i]} /\ b \in Breakers
  BY <1>2, <1>4, Trips
<1> HIDE DEF i
<1>6. TypeOK'
  BY <1>2, <1>3, <1>4, <1>5 DEF IInv, TypeOK, Breakers
<1>7. \A j \in Instances : breaker'[j] \in {NewBreaker, breaker[j]}
  BY <1>2, <1>4, <1>5 DEF IInv, TypeOK
<1>8. NewBreaker.mode = "Closed" /\ NewBreaker.errors = 0
  BY DEF NewBreaker
<1>9. SuspicionHasCause'
  BY <1>2, <1>7, <1>8, ViewsKept DEF IInv, Suspected
<1> QED
  BY <1>3, <1>6, <1>9 DEF IInv

\* The instance that failed leaves the rotation, the one that answered returns.
LEMMA FailManagerKeeps ==
    ASSUME IInv, NEW c \in Callers, FailManager(c)
    PROVE  IInv'
<1> DEFINE i == call[c].inst
           e == call[c].err
<1>1. /\ call[c].pc \in Failing
      /\ call' = [call EXCEPT ![c] = NextAttempt(Recorded(@), e)]
      /\ marked' = [marked EXCEPT ![i] = "unhealthy"]
      /\ UNCHANGED <<list, index, health, breaker, faults, blamed>>
  BY DEF FailManager, MarkInstanceStatus, Failing
<1>2. i \in Instances /\ i \in blamed /\ e \in Outcomes
  BY <1>1, InHand DEF CallRecords
<1>3. call' \in [Callers -> CallRecords] /\ CallsInOrder'
  BY <1>1, <1>2, FailureGoesOn
<1> HIDE DEF i
<1>4. TypeOK'
  BY <1>1, <1>2, <1>3 DEF IInv, TypeOK
<1>5. \A j \in Instances : j = i \/ marked'[j] = marked[j]
  BY <1>1 DEF IInv, TypeOK
<1>6. SuspicionHasCause'
  BY <1>1, <1>2, <1>5, ViewsKept DEF IInv, Suspected
<1> QED
  BY <1>3, <1>4, <1>6 DEF IInv

LEMMA OkManagerKeeps ==
    ASSUME IInv, NEW c \in Callers, OkManager(c)
    PROVE  IInv'
<1> DEFINE k == call[c]
           n == [k EXCEPT !.pc = "done", !.success = TRUE]
           i == k.inst
<1>1. k.pc = "okManager" /\ k.pc \in Succeeding
  BY DEF OkManager, Succeeding
<1>2. k \in CallRecords /\ Tracked(k) /\ Truthful(k) /\ i \in Instances
  BY <1>1, InHand
<1>3. /\ call' = [call EXCEPT ![c] = n]
      /\ marked' = [marked EXCEPT ![i] = "healthy"]
      /\ UNCHANGED <<list, index, health, breaker, faults, blamed>>
  BY DEF OkManager, MarkInstanceStatus, IInv, TypeOK
<1> HIDE DEF k
<1>4. /\ n \in CallRecords /\ n.pc = "done" /\ n.success = TRUE /\ n.inst = i
      /\ n.failed = k.failed /\ n.runs = k.runs /\ n.tried = k.tried
  BY <1>2 DEF CallRecords
<1> HIDE DEF n
<1>5. Tracked(n) /\ n.pc \notin Failing
  BY <1>1, <1>2, <1>4 DEF Tracked, Asking, Failing, Succeeding
<1>6. call' \in [Callers -> CallRecords] /\ CallsInOrder'
  BY <1>2, <1>3, <1>4, <1>5, OneGoesOn DEF IInv, Truthful
<1> HIDE DEF i
<1>7. TypeOK'
  BY <1>2, <1>3, <1>6 DEF IInv, TypeOK
<1>8. \A j \in Instances : marked'[j] \in {"healthy", marked[j]}
  BY <1>2, <1>3 DEF IInv, TypeOK
<1>9. SuspicionHasCause'
  BY <1>3, <1>8, ViewsKept DEF IInv, Suspected
<1> QED
  BY <1>6, <1>7, <1>9 DEF IInv

LEMMA ReturnKeeps ==
    ASSUME IInv, NEW c \in Callers, Return(c)
    PROVE  IInv'
<1>1. NoCall \in CallRecords /\ NoCall.tried = {} /\ NoCall.runs = <<>>
      /\ NoCall.failed = <<>> /\ NoCall.success = FALSE /\ NoCall.pc = "idle"
  BY DEF NoCall, CallRecords, Outcomes
<1>2. /\ call' = [call EXCEPT ![c] = NoCall]
      /\ UNCHANGED <<list, marked, index, health, breaker, faults, blamed>>
  BY DEF Return, manager
<1>3. Tracked(NoCall) /\ NoCall.pc \notin Failing /\ ListIds(NoCall.failed) \subseteq blamed'
  BY <1>1, EmptyList DEF Tracked, Asking, Failing, Succeeding
<1>4. call' \in [Callers -> CallRecords] /\ CallsInOrder'
  BY <1>1, <1>2, <1>3, OneGoesOn DEF IInv
<1>5. TypeOK'
  BY <1>2, <1>4 DEF IInv, TypeOK
<1>6. SuspicionHasCause'
  BY <1>2, ViewsKept DEF IInv, Suspected
<1> QED
  BY <1>4, <1>5, <1>6 DEF IInv

LEMMA CoolDownKeeps ==
    ASSUME IInv, CoolDown
    PROVE  IInv'
<1>1. PICK i \in Instances :
         /\ breaker[i].mode = "Cooling"
         /\ breaker' = [breaker EXCEPT ![i].mode = "Ready"]
         /\ UNCHANGED <<list, marked, index, health, call, faults, blamed>>
  BY DEF CoolDown, manager
<1>2. CallsInOrder'
  BY <1>1 DEF IInv, CallsInOrder, Truthful, Tracked
<1>3. TypeOK'
  BY <1>1 DEF IInv, TypeOK
<1>4. \A j \in Instances : j = i \/ breaker'[j] = breaker[j]
  BY <1>1 DEF IInv, TypeOK
<1>5. Suspected(i)
  BY <1>1 DEF Suspected
<1>6. SuspicionHasCause'
  BY <1>1, <1>4, <1>5, ViewsKept DEF IInv, Suspected
<1> QED
  BY <1>2, <1>3, <1>6 DEF IInv

LEMMA NextKeeps == IInv /\ [Next]_vars => IInv'
<1> SUFFICES ASSUME IInv, [Next]_vars PROVE IInv'
  OBVIOUS
<1>1. CASE CoolDown
  BY <1>1, CoolDownKeeps
<1>2. ASSUME NEW c \in Callers, Start(c) \/ StartCancelled(c) \/ Cancel(c) \/ Continue(c)
      PROVE  IInv'
  <2>1. CASE Start(c) \/ StartCancelled(c)
    BY <2>1, StartKeeps
  <2>2. CASE Cancel(c) \/ SelectNone(c)
    BY <2>2, EndsKeep
  <2>3. CASE Select(c) \/ Retag(c)
    BY <2>3, SelectKeeps, RetagKeeps
  <2>4. CASE Allow(c) \/ AllowExpired(c) \/ Reopen(c) \/ Refuse(c)
    BY <2>4, AllowKeeps, ReopenKeeps, RefuseKeeps
  <2>5. CASE Detect(c) \/ DialFails(c) \/ Verdict(c)
    BY <2>5, DetectKeeps, DialFailsKeeps
  <2>6. CASE DialSucceeds(c) \/ OkDetector(c)
    BY <2>6, CleanBillKeeps
  <2>7. CASE OperationFails(c) \/ OperationSucceeds(c)
    BY <2>7, OperationFailsKeeps, OperationSucceedsKeeps
  <2>8. CASE FailDetector(c) \/ FailBreaker(c) \/ FailManager(c)
    BY <2>8, FailDetectorKeeps, FailBreakerKeeps, FailManagerKeeps
  <2>9. CASE OkBreaker(c) \/ OkManager(c) \/ Return(c)
    BY <2>9, OkBreakerKeeps, OkManagerKeeps, ReturnKeeps
  <2> QED
    BY <1>2, <2>1, <2>2, <2>3, <2>4, <2>5, <2>6, <2>7, <2>8, <2>9 DEF Continue
<1>3. CASE UNCHANGED vars
  BY <1>3 DEF vars, IInv, TypeOK, CallsInOrder, Truthful, Tracked, SuspicionHasCause, Suspected
<1> QED
  BY <1>1, <1>2, <1>3 DEF Next

LEMMA Invariance == Spec => []IInv
BY InitHolds, NextKeeps, PTL DEF Spec

-----------------------------------------------------------------------------
(***************************************************************************)
(* Theorems                                                                *)
(***************************************************************************)
\* The state of the handler is well formed: indices in range, lists of known
\* instances, a call that is one of the stages of Execute.
THEOREM TypeCorrect == Spec => []TypeOK
<1>1. IInv => TypeOK
  BY DEF IInv
<1> QED
  BY <1>1, Invariance, PTL

\* However many callers share the manager, and whatever it hands out to them,
\* Execute runs the operation at most once on each instance.
THEOREM AtMostOncePerInstanceHolds == Spec => []AtMostOncePerInstance
<1>1. IInv => AtMostOncePerInstance
  BY DEF IInv, CallsInOrder, Tracked, AtMostOncePerInstance
<1> QED
  BY <1>1, Invariance, PTL

\* FailedNodes and Success tell what happened, in every interleaving.
THEOREM ResultTruthfulHolds == Spec => []ResultTruthful
<1>1. IInv => ResultTruthful
  BY DEF IInv, CallsInOrder, Tracked, ResultTruthful, Returned
<1> QED
  BY <1>1, Invariance, PTL

\* No server is taken out of rotation that never failed.
THEOREM ExclusionHasCauseHolds == Spec => []ExclusionHasCause
<1>1. IInv => ExclusionHasCause
  BY DEF IInv, SuspicionHasCause, Suspected, ExclusionHasCause
<1> QED
  BY <1>1, Invariance, PTL

-----------------------------------------------------------------------------
(***************************************************************************)
(* Switching, when the policy retries on every error.                      *)
(***************************************************************************)
\* One Execute goes on, still with a reason to.
LEMMA OnePersists ==
    ASSUME TypeOK, CallsPersist, NEW c \in Callers, NEW n \in CallRecords,
           call' = [call EXCEPT ![c] = n], Persistent(n)
    PROVE  CallsPersist'
<1>1. ASSUME NEW d \in Callers
      PROVE  Persistent(call'[d])
  BY DEF TypeOK, CallsPersist
<1> QED
  BY <1>1 DEF CallsPersist, Persistent

\* After a failure with one of the handler's errors.
LEMMA RetriesWhileItCan ==
    ASSUME Retryable = Errors, NEW n \in CallRecords, n.pc \in {"select", "done"},
           n.err \in Errors,
           n.pc = "done" => n.attempt > MaxRetries \/ ~ShouldRetry(n.attempt, n.err)
    PROVE  Persistent(n)
<1>1. n.pc = "done" => n.attempt >= MaxRetries
  BY Bounds DEF ShouldRetry, CallRecords
<1> QED
  BY <1>1 DEF Persistent, Failing

LEMMA PhasePersists ==
    ASSUME IInv, CallsPersist, NEW c \in Callers, NEW where, Goto(c, where),
           \E phase \in {Asking, Failing, Succeeding} :
              call[c].pc \in phase /\ where \in phase
    PROVE  CallsPersist'
<1> DEFINE k == call[c]
           n == [k EXCEPT !.pc = where]
<1>1. call' = [call EXCEPT ![c] = n] /\ k \in CallRecords /\ Persistent(k)
  BY DEF Goto, IInv, TypeOK, CallsPersist
<1>2. where \in Asking \cup Failing \cup Succeeding /\ (where \in Failing => k.pc \in Failing)
  BY DEF Asking, Failing, Succeeding
<1> HIDE DEF k
<1>3. n \in CallRecords /\ n.pc = where /\ n.err = k.err
  BY <1>1, <1>2 DEF CallRecords
<1> HIDE DEF n
<1>4. Persistent(n)
  BY <1>1, <1>2, <1>3 DEF Persistent, Asking, Failing, Succeeding
<1> QED
  BY <1>1, <1>3, <1>4, OnePersists DEF IInv

LEMMA RejectionPersists ==
    ASSUME IInv, CallsPersist, NEW c \in Callers, NEW e \in Errors, Reject(c, e)
    PROVE  CallsPersist'
<1> DEFINE k == call[c]
           n == [k EXCEPT !.pc = "failDetector", !.err = e]
<1>1. call' = [call EXCEPT ![c] = n] /\ k \in CallRecords /\ e \in Outcomes
  BY DEF Reject, IInv, TypeOK, Outcomes
<1> HIDE DEF k
<1>2. n \in CallRecords /\ n.pc = "failDetector" /\ n.err = e
  BY <1>1 DEF CallRecords, Failing
<1> HIDE DEF n
<1>3. Persistent(n)
  BY <1>2 DEF Persistent
<1> QED
  BY <1>1, <1>2, <1>3, OnePersists DEF IInv

LEMMA FailurePersists ==
    ASSUME Retryable = Errors, IInv, CallsPersist, NEW c \in Callers,
           call[c].pc \in Asking \cup Failing, NEW e \in Errors,
           call' = [call EXCEPT ![c] = NextAttempt(Recorded(@), e)]
    PROVE  CallsPersist'
<1> DEFINE k == call[c]
           n == NextAttempt(Recorded(k), e)
<1>1. k \in CallRecords /\ Tracked(k) /\ k.pc \in Asking \cup Failing
  BY DEF IInv, TypeOK, CallsInOrder
<1>2. call' = [call EXCEPT ![c] = n] /\ e \in Outcomes
  BY DEF Outcomes
<1> HIDE DEF k
<1>3. /\ n \in CallRecords /\ n.pc \in {"select", "done"} /\ n.err = e
      /\ n.pc = "done" => n.attempt > MaxRetries \/ ~ShouldRetry(n.attempt, e)
  BY <1>1, <1>2, FailedAttempt
<1> HIDE DEF n
<1>4. Persistent(n)
  BY <1>3, RetriesWhileItCan
<1> QED
  BY <1>2, <1>3, <1>4, OnePersists DEF IInv

\* Execute begins and returns.
LEMMA EntryPersists ==
    ASSUME IInv, CallsPersist, NEW c \in Callers,
           Start(c) \/ StartCancelled(c) \/ Return(c)
    PROVE  CallsPersist'
<1>1. NoCall \in CallRecords /\ NoCall.tried = {} /\ NoCall.pc = "idle"
  BY DEF NoCall, CallRecords, Outcomes
<1>2. CASE Start(c) \/ StartCancelled(c)
  <2>1. PICK l \in Lists, where \in {"select", "done", "panicked"}, err \in Outcomes :
           /\ call' = [call EXCEPT ![c] = Begun(l, where, err)]
           /\ where = "done" => err \in {"cancelled", "none_available"}
    BY <1>2 DEF Start, StartCancelled, Outcomes
  <2> DEFINE n == Begun(l, where, err)
  <2>2. n \in CallRecords /\ n.pc = where /\ n.err = err /\ n.tried = {}
    BY Begins
  <2>3. call' = [call EXCEPT ![c] = n]
    BY <2>1
  <2> HIDE DEF n
  <2>4. Persistent(n)
    BY <2>1, <2>2 DEF Persistent, Failing
  <2> QED
    BY <2>2, <2>3, <2>4, OnePersists DEF IInv
<1>3. CASE Return(c)
  <2>1. Persistent(NoCall)
    BY <1>1 DEF Persistent, Failing
  <2> QED
    BY <1>1, <1>3, <2>1, OnePersists DEF Return, IInv
<1> QED
  BY <1>2, <1>3

LEMMA EndsPersist ==
    ASSUME IInv, CallsPersist, NEW c \in Callers, Cancel(c) \/ SelectNone(c)
    PROVE  CallsPersist'
<1> DEFINE k == call[c]
<1>1. PICK e \in {"cancelled", "none_available"} :
         call' = [call EXCEPT ![c].pc = "done", ![c].err = e]
  BY DEF Cancel, SelectNone
<1> DEFINE n == [k EXCEPT !.pc = "done", !.err = e]
<1>2. call' = [call EXCEPT ![c] = n] /\ k \in CallRecords
  BY <1>1 DEF IInv, TypeOK
<1> HIDE DEF k
<1>3. n \in CallRecords /\ n.pc = "done" /\ n.err = e
  BY <1>2 DEF CallRecords, Outcomes
<1> HIDE DEF n
<1>4. Persistent(n)
  BY <1>3 DEF Persistent, Failing
<1> QED
  BY <1>2, <1>3, <1>4, OnePersists DEF IInv

\* An instance handed out again: an attempt has failed before.
LEMMA SelectPersists ==
    ASSUME IInv, CallsPersist, NEW c \in Callers, Select(c)
    PROVE  CallsPersist'
<1> DEFINE k == call[c]
<1>1. PICK ch \in Picks :
         call' = [call EXCEPT ![c].inst = ch.inst, ![c].tried = @ \cup {ch.inst},
                              ![c].pc = IF ch.inst \notin k.tried THEN "allow"
                                        ELSE IF Cardinality(k.tried) >= Len(k.instances)
                                             THEN "done"
                                        ELSE "retag"]
  BY DEF Select
<1> DEFINE i == ch.inst
           exhausted == Cardinality(k.tried) >= Len(k.instances)
           where == IF i \notin k.tried THEN "allow"
                    ELSE IF exhausted THEN "done" ELSE "retag"
           m == Taken(k, i, where)
<1>2. call' = [call EXCEPT ![c] = m]
  BY <1>1 DEF IInv, TypeOK, Taken
<1>3. i \in Instances
  BY <1>1, PicksListed DEF IInv
<1>4. k \in CallRecords /\ Tracked(k) /\ Persistent(k) /\ k.pc = "select"
  BY DEF IInv, TypeOK, CallsInOrder, CallsPersist, Select
<1> HIDE DEF k, i, exhausted
<1>5. /\ where = "allow" \/ (where \in {"done", "retag"} /\ i \in k.tried)
      /\ where = "allow" => i \notin k.tried
      /\ where = "done" => exhausted
  <2>1. CASE i \notin k.tried
    BY <2>1
  <2>2. CASE i \in k.tried /\ exhausted
    BY <2>2
  <2>3. CASE i \in k.tried /\ ~exhausted
    BY <2>3
  <2> QED
    BY <2>1, <2>2, <2>3
<1> HIDE DEF where
<1>6. /\ m \in CallRecords /\ m.pc = where /\ m.err = k.err /\ m.instances = k.instances
      /\ m.tried = k.tried \cup {i}
  BY <1>3, <1>4, <1>5, Selected
<1> HIDE DEF m
<1>7. where = "done" => m.tried = k.tried /\ Cardinality(m.tried) >= Len(m.instances)
  <2>1. where = "done" => m.tried = k.tried
    BY <1>5, <1>6
  <2> QED
    BY <1>5, <1>6, <2>1 DEF exhausted
<1>8. where = "retag" => k.err \in Errors
  BY <1>4, <1>5 DEF Persistent
<1>9. Persistent(m)
  BY <1>5, <1>6, <1>7, <1>8 DEF Persistent, Failing
<1> QED
  BY <1>2, <1>6, <1>9, OnePersists DEF IInv

LEMMA RetagPersists ==
    ASSUME Retryable = Errors, IInv, CallsPersist, NEW c \in Callers, Retag(c)
    PROVE  CallsPersist'
<1> DEFINE k == call[c]
           n == NextAttempt(k, k.err)
<1>1. call' = [call EXCEPT ![c] = n]
  BY DEF Retag
<1>2. k \in CallRecords /\ Persistent(k) /\ k.pc = "retag"
  BY DEF IInv, TypeOK, CallsPersist, Retag
<1> HIDE DEF k
<1>3. k.err \in Errors /\ k.err \in Outcomes
  BY <1>2 DEF Persistent, Outcomes
<1>4. /\ n \in CallRecords /\ n.pc \in {"select", "done"} /\ n.err = k.err
      /\ n.pc = "done" => n.attempt > MaxRetries \/ ~ShouldRetry(n.attempt, k.err)
  BY <1>2, <1>3, NextAttemptKeeps
<1> HIDE DEF n
<1>5. Persistent(n)
  BY <1>3, <1>4, RetriesWhileItCan
<1> QED
  BY <1>1, <1>4, <1>5, OnePersists DEF IInv

\* The operation has run: it has failed with an error of its own, or succeeded.
LEMMA OperationPersists ==
    ASSUME IInv, CallsPersist, NEW c \in Callers, OperationFails(c) \/ OperationSucceeds(c)
    PROVE  CallsPersist'
<1> DEFINE k == call[c]
<1>1. k.pc = "call" /\ k.pc \in Asking
  BY DEF OperationFails, OperationSucceeds, Asking
<1>2. k \in CallRecords /\ Tracked(k)
  BY <1>1, InHand
<1>3. PICK where \in {"failDetector", "okDetector"}, e \in {"operation", k.err} :
         /\ call' = [call EXCEPT ![c] = Ran(k, where, e)]
         /\ where = "failDetector" => e = "operation"
  BY DEF OperationFails, OperationSucceeds
<1> DEFINE n == Ran(k, where, e)
<1> HIDE DEF k
<1>4. "operation" \in Errors /\ e \in Outcomes
  BY <1>2 DEF CallRecords, Outcomes, Errors
<1>5. n \in CallRecords /\ n.pc = where /\ n.err = e
  BY <1>1, <1>2, <1>4, RunsOnce
<1> HIDE DEF n
<1>6. Persistent(n)
  BY <1>3, <1>4, <1>5 DEF Persistent, Failing
<1>7. call' = [call EXCEPT ![c] = n]
  BY <1>3 DEF n
<1> QED
  BY <1>5, <1>6, <1>7, OnePersists DEF IInv

LEMMA OkManagerPersists ==
    ASSUME IInv, CallsPersist, NEW c \in Callers, OkManager(c)
    PROVE  CallsPersist'
<1> DEFINE k == call[c]
           n == [k EXCEPT !.pc = "done", !.success = TRUE]
<1>1. k \in CallRecords /\ call' = [call EXCEPT ![c] = n]
  BY DEF OkManager, IInv, TypeOK
<1> HIDE DEF k
<1>2. n \in CallRecords /\ n.pc = "done" /\ n.success = TRUE
  BY <1>1 DEF CallRecords
<1> HIDE DEF n
<1>3. Persistent(n)
  BY <1>2 DEF Persistent, Failing
<1> QED
  BY <1>1, <1>2, <1>3, OnePersists DEF IInv

LEMMA NextPersists ==
    ASSUME Retryable = Errors, IInv, CallsPersist, [Next]_vars
    PROVE  CallsPersist'
<1>1. CASE UNCHANGED call
  BY <1>1 DEF CallsPersist, Persistent
<1>2. ASSUME NEW c \in Callers, Start(c) \/ StartCancelled(c) \/ Cancel(c) \/ Continue(c)
      PROVE  CallsPersist'
  <2>1. CASE Start(c) \/ StartCancelled(c) \/ Return(c)
    BY <2>1, EntryPersists
  <2>2. CASE Cancel(c) \/ SelectNone(c)
    BY <2>2, EndsPersist
  <2>3. CASE Select(c) \/ Retag(c)
    BY <2>3, SelectPersists, RetagPersists
  <2>4. CASE Allow(c) \/ AllowExpired(c) \/ Reopen(c) \/ DialSucceeds(c)
    <3>1. PICK where \in {"detect", "reopen", "verdict"} : Goto(c, where)
      BY <2>4 DEF Allow, AllowExpired, Reopen, DialSucceeds
    <3>2. call[c].pc \in Asking /\ where \in Asking
      BY <2>4 DEF Allow, AllowExpired, Reopen, DialSucceeds, Asking
    <3> QED
      BY <3>1, <3>2, PhasePersists
  <2>5. CASE Refuse(c)
    <3>1. call[c].pc \in Asking /\ "circuit_open" \in Errors
      BY <2>5 DEF Refuse, Asking, Errors
    <3> QED
      BY <2>5, <3>1, FailurePersists DEF Refuse
  <2>6. CASE Detect(c) \/ DialFails(c) \/ Verdict(c)
    <3>1. call[c].pc \in Asking
      BY <2>6 DEF Detect, DialFails, Verdict, Asking
    <3>2. CASE \E where \in {"dial", "call"} : Goto(c, where)
      <4>1. PICK where \in {"dial", "call"} : Goto(c, where)
        BY <3>2
      <4>2. where \in Asking
        BY DEF Asking
      <4> QED
        BY <3>1, <4>1, <4>2, PhasePersists
    <3>3. CASE \E e \in {"unavailable", "refused", "timeout"} : Reject(c, e)
      <4>1. PICK e \in {"unavailable", "refused", "timeout"} : Reject(c, e)
        BY <3>3
      <4>2. e \in Errors
        BY DEF Errors
      <4> QED
        BY <4>1, <4>2, RejectionPersists
    <3> QED
      BY <2>6, <3>2, <3>3 DEF Detect, DialFails, Verdict
  <2>7. CASE OperationFails(c) \/ OperationSucceeds(c)
    BY <2>7, OperationPersists
  <2>8. CASE FailDetector(c) \/ FailBreaker(c)
    <3>1. PICK where \in {"failBreaker", "failManager"} : Goto(c, where)
      BY <2>8 DEF FailDetector, FailBreaker
    <3>2. call[c].pc \in Failing /\ where \in Failing
      BY <2>8 DEF FailDetector, FailBreaker, Failing
    <3> QED
      BY <3>1, <3>2, PhasePersists
  <2>9. CASE FailManager(c)
    <3>1. call[c].pc \in Failing /\ call[c].err \in Errors
      BY <2>9 DEF FailManager, Failing, CallsPersist, Persistent
    <3> DEFINE e == call[c].err
    <3>2. call' = [call EXCEPT ![c] = NextAttempt(Recorded(@), e)]
      BY <2>9 DEF FailManager
    <3>3. e \in Errors
      BY <3>1
    <3> HIDE DEF e
    <3> QED
      BY <3>1, <3>2, <3>3, FailurePersists
  <2>10. CASE OkDetector(c) \/ OkBreaker(c)
    <3>1. PICK where \in {"okBreaker", "okManager"} : Goto(c, where)
      BY <2>10 DEF OkDetector, OkBreaker
    <3>2. call[c].pc \in Succeeding /\ where \in Succeeding
      BY <2>10 DEF OkDetector, OkBreaker, Succeeding
    <3> QED
      BY <3>1, <3>2, PhasePersists
  <2>11. CASE OkManager(c)
    BY <2>11, OkManagerPersists
  <2> QED
    BY <1>2, <2>1, <2>2, <2>3, <2>4, <2>5, <2>6, <2>7, <2>8, <2>9, <2>10, <2>11 DEF Continue
<1> QED
  BY <1>1, <1>2 DEF Next, CoolDown, vars

\* With a policy that retries on every error Execute gives up for a reason only:
\* it succeeded, was cancelled, found no instance, or has used its attempts or
\* its list up.
THEOREM SwitchesInstanceHolds ==
    ASSUME Retryable = Errors
    PROVE  Spec => []SwitchesInstance
<1>1. Init => CallsPersist
  <2>1. NoCall.pc = "idle"
    BY DEF NoCall
  <2> QED
    BY <2>1 DEF Init, CallsPersist, Persistent, Failing
<1>2. IInv /\ CallsPersist /\ [Next]_vars => CallsPersist'
  BY NextPersists
<1>3. IInv /\ CallsPersist => SwitchesInstance
  BY DEF CallsPersist, Persistent, SwitchesInstance, Returned
<1> QED
  BY <1>1, <1>2, <1>3, Invariance, PTL DEF Spec
=============================================================================
