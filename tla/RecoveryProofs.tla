--------------------------- MODULE RecoveryProofs ---------------------------
(***************************************************************************)
(* Proofs about Recovery: the round always has the entry it works on, and  *)
(* an instance that has failed is healthy again only after it has earned   *)
(* it, for any number of instances and any thresholds.  A success the      *)
(* strategy decided on but has not marked yet is what makes the count      *)
(* short of one: the invariant follows that debt.                          *)
(***************************************************************************)
EXTENDS Recovery, TLAPS

HealthRecords == [status : {"healthy", "suspect", "unhealthy"}, failures : Nat, successes : Nat]
Rounds == [pc : {"select", "next", "dial", "mark", "recover", "settle", "ended"},
           todo : SUBSET Instances, cur : Instances \cup {None}, good : BOOLEAN,
           ok : BOOLEAN, bless : BOOLEAN]
CheckLoops == [pc : {"none", "select", "check", "ended"}, left : SUBSET Instances]

TypeOK ==
    /\ kind \in {"timeout", "health_check"}
    /\ strategy \in {"immediate", "gradual", "probing"}
    /\ up \in [Instances -> BOOLEAN]
    /\ health \in [Instances -> HealthRecords]
    /\ listed \in [Instances -> Entries \cup {None}]
    /\ held \in [Instances -> Entries \cup {None}]
    /\ round \in Rounds
    /\ probes \in [Instances -> Seq(BOOLEAN)]
    /\ stopped \in BOOLEAN
    /\ cache \in SUBSET Instances
    /\ running \in BOOLEAN
    /\ stopCh \in BOOLEAN
    /\ loops \in [Loops -> CheckLoops]
    /\ panicked \in BOOLEAN
    /\ streak \in [Instances -> Nat]

\* The instance recoverInstance is at.
Attempting == round.pc \in {"dial", "mark", "recover", "settle"}

AttemptIsOfRound ==
    /\ Attempting => round.cur \in round.todo
    /\ round.pc \in {"select", "ended"} => round.todo = {}

\* recovery.go:131-140: the loop goes over a copy of the map's keys; whatever callers
\* remove and add meanwhile, the entry it looks into is there.
EntryIsThere ==
    /\ \A i \in round.todo : Entry(i) # None
    /\ \A i \in Instances : held[i] # None => i \in round.todo

\* The strategy has decided to mark this instance and has not done it yet.
Owes(i) == round.pc = "settle" /\ round.cur = i /\ round.bless

\* Of an instance that is not healthy the detector has counted no more good answers
\* than there were, apart from one the strategy added.
CountIsCovered ==
    \A i \in Instances :
        health[i].status # "healthy" =>
            health[i].successes <= streak[i] + (IF Owes(i) THEN 0 ELSE 1)

ProbesBounded == \A i \in Instances : Len(probes[i]) <= ProbingThreshold

Inv ==
    /\ TypeOK
    /\ AttemptIsOfRound
    /\ EntryIsThere
    /\ CountIsCovered
    /\ HealthyIsEarned
    /\ ProbesBounded

-----------------------------------------------------------------------------
(***************************************************************************)
(* Lemmas about the operators.                                             *)
(***************************************************************************)
\* The elements of a sequence without its first.
LEMMA TailElements ==
    ASSUME NEW s \in Seq(BOOLEAN), Len(s) > 0, NEW n \in 1..(Len(s) - 1)
    PROVE  Tail(s)[n] = s[n + 1]
OBVIOUS

\* Three results that convince end with a good one, the oldest of four dropped or not.
LEMMA ConvincingEndsWell ==
    ASSUME NEW all \in Seq(BOOLEAN), NEW n \in Nat, n <= 3, Len(all) = n + 1
    PROVE  LET kept == IF Len(all) > ProbingThreshold THEN Tail(all) ELSE all
           IN  /\ kept \in Seq(BOOLEAN)
               /\ Len(kept) <= ProbingThreshold
               /\ Convincing(kept) => all[n + 1]
<1>1. CASE n = 3
  <2>1. Len(all) > 0 /\ 3 \in 1..(Len(all) - 1)
    BY <1>1
  <2>2. Tail(all) \in Seq(BOOLEAN) /\ Len(Tail(all)) = 3 /\ Tail(all)[3] = all[4]
    BY <1>1, <2>1, TailElements
  <2>3. (IF Len(all) > ProbingThreshold THEN Tail(all) ELSE all) = Tail(all)
    BY <1>1 DEF ProbingThreshold
  <2>4. Convincing(Tail(all)) => all[n + 1]
    <3> DEFINE kept == Tail(all)
    <3> HIDE DEF kept
    <3>1. kept[3] = all[4]
      BY <2>2 DEF kept
    <3>2. Convincing(kept) => kept[3]
      BY DEF Convincing, ProbingThreshold
    <3>3. n + 1 = 4
      BY <1>1
    <3>4. Convincing(kept) => all[n + 1]
      BY <3>1, <3>2, <3>3, Zenon
    <3> QED
      BY <3>4 DEF kept
  <2>5. Len(Tail(all)) <= ProbingThreshold
    BY <2>2 DEF ProbingThreshold
  <2> QED
    BY <2>2, <2>3, <2>4, <2>5, Zenon
<1>2. CASE n < 3
  BY <1>2 DEF Convincing, ProbingThreshold
<1> QED
  BY <1>1, <1>2

\* So whoever is convinced has just seen a good result.
LEMMA NewestIsLast ==
    ASSUME NEW results \in Seq(BOOLEAN), NEW ok \in BOOLEAN,
           Len(results) <= ProbingThreshold
    PROVE  /\ Remember(results, ok) \in Seq(BOOLEAN)
           /\ Len(Remember(results, ok)) <= ProbingThreshold
           /\ Convincing(Remember(results, ok)) => ok
<1> DEFINE n == Len(results)
           all == Append(results, ok)
<1>1. all \in Seq(BOOLEAN) /\ Len(all) = n + 1 /\ all[n + 1] = ok
  OBVIOUS
<1>2. n \in Nat /\ n <= 3
  BY DEF ProbingThreshold
<1>3. Remember(results, ok) = IF Len(all) > ProbingThreshold THEN Tail(all) ELSE all
  BY DEF Remember
<1> HIDE DEF n, all
<1> QED
  BY <1>1, <1>2, <1>3, ConvincingEndsWell

\* What a mark makes of a record.
LEMMA MarksAreRecords ==
    ASSUME NEW h \in HealthRecords
    PROVE  Failure(h) \in HealthRecords /\ Success(h) \in HealthRecords
BY ThresholdAssumption DEF Failure, Success, HealthRecords, UpTo

\* A failure forgets the good answers, and does not leave the instance healthy.
LEMMA FailureForgets ==
    ASSUME NEW h \in HealthRecords
    PROVE  Failure(h).status # "healthy" /\ Failure(h).successes = 0
BY ThresholdAssumption DEF Failure, HealthRecords, UpTo

\* A success that is covered by one good answer more.
LEMMA SuccessIsCovered ==
    ASSUME NEW h \in HealthRecords, NEW s \in Nat, NEW debt \in {0, 1},
           h.status = "healthy" => s >= SuccessThreshold - 1,
           h.status # "healthy" => h.successes <= s + debt
    PROVE  /\ UpTo(SuccessThreshold, s) \in Nat
           /\ Success(h).status = "healthy" => UpTo(SuccessThreshold, s) >= SuccessThreshold - 1
           /\ Success(h).status # "healthy" =>
                 Success(h).successes <= UpTo(SuccessThreshold, s) + debt
BY ThresholdAssumption DEF Success, HealthRecords, UpTo

\* A success without a good answer uses the one the invariant leaves.
LEMMA SuccessOnCredit ==
    ASSUME NEW h \in HealthRecords, NEW s \in Nat,
           h.status = "healthy" => s >= SuccessThreshold - 1,
           h.status # "healthy" => h.successes <= s
    PROVE  /\ Success(h).status = "healthy" => s >= SuccessThreshold - 1
           /\ Success(h).status # "healthy" => Success(h).successes <= s + 1
BY ThresholdAssumption DEF Success, HealthRecords, UpTo

\* A mark keeps the accounts of every instance, whoever makes it.
LEMMA MarkKeepsAccounts ==
    ASSUME TypeOK, CountIsCovered, HealthyIsEarned,
           NEW i \in Instances, NEW ok \in BOOLEAN, Mark(i, ok),
           \A j \in Instances : Owes(j) <=> Owes(j)'
    PROVE  /\ health' \in [Instances -> HealthRecords]
           /\ streak' \in [Instances -> Nat]
           /\ CountIsCovered'
           /\ HealthyIsEarned'
<1> DEFINE debt(j) == IF Owes(j) THEN 0 ELSE 1
<1>1. \A j \in Instances : health[j] \in HealthRecords /\ streak[j] \in Nat /\ debt(j) \in {0, 1}
  BY DEF TypeOK
<1>2. \A j \in Instances : debt(j)' = debt(j)
  OBVIOUS
<1>3. \A j \in Instances : health[j].status = "healthy" => streak[j] >= SuccessThreshold - 1
  BY DEF HealthyIsEarned
<1>4. \A j \in Instances : health[j].status # "healthy" => health[j].successes <= streak[j] + debt(j)
  BY DEF CountIsCovered
<1> HIDE DEF debt
<1>5. CASE ok
  <2>1. /\ health' = [health EXCEPT ![i] = Success(health[i])]
        /\ streak' = [streak EXCEPT ![i] = UpTo(SuccessThreshold, streak[i])]
    BY <1>5 DEF Mark, MarkSuccess
  <2>2. Success(health[i]) \in HealthRecords /\ UpTo(SuccessThreshold, streak[i]) \in Nat
    BY <1>1, <1>3, <1>4, MarksAreRecords, SuccessIsCovered
  <2>3. /\ health' \in [Instances -> HealthRecords]
        /\ streak' \in [Instances -> Nat]
    BY <2>1, <2>2 DEF TypeOK
  <2>4. \A j \in Instances :
           /\ health'[j].status = "healthy" => streak'[j] >= SuccessThreshold - 1
           /\ health'[j].status # "healthy" => health'[j].successes <= streak'[j] + debt(j)
    <3> TAKE j \in Instances
    <3>1. CASE j = i
      <4>1. health'[j] = Success(health[i]) /\ streak'[j] = UpTo(SuccessThreshold, streak[i])
        BY <2>1, <3>1 DEF TypeOK
      <4> QED
        BY <1>1, <1>3, <1>4, <3>1, <4>1, SuccessIsCovered
    <3>2. CASE j # i
      <4>1. health'[j] = health[j] /\ streak'[j] = streak[j]
        BY <2>1, <3>2 DEF TypeOK
      <4> QED
        BY <1>3, <1>4, <4>1
    <3> QED
      BY <3>1, <3>2
  <2> QED
    BY <1>2, <2>3, <2>4 DEF CountIsCovered, HealthyIsEarned, debt
<1>6. CASE ~ok
  <2>1. /\ health' = [health EXCEPT ![i] = Failure(health[i])]
        /\ streak' = [streak EXCEPT ![i] = 0]
    BY <1>6 DEF Mark, MarkFailed
  <2>2. Failure(health[i]) \in HealthRecords
    BY <1>1, MarksAreRecords
  <2>3. /\ health' \in [Instances -> HealthRecords]
        /\ streak' \in [Instances -> Nat]
    BY <2>1, <2>2 DEF TypeOK
  <2>4. \A j \in Instances :
           /\ health'[j].status = "healthy" => streak'[j] >= SuccessThreshold - 1
           /\ health'[j].status # "healthy" => health'[j].successes <= streak'[j] + debt(j)
    <3> TAKE j \in Instances
    <3>1. CASE j = i
      <4>1. health'[j] = Failure(health[i]) /\ streak'[j] = 0
        BY <2>1, <3>1 DEF TypeOK
      <4> QED
        BY <1>1, <3>1, <4>1, FailureForgets
    <3>2. CASE j # i
      <4>1. health'[j] = health[j] /\ streak'[j] = streak[j]
        BY <2>1, <3>2 DEF TypeOK
      <4> QED
        BY <1>3, <1>4, <4>1
    <3> QED
      BY <3>1, <3>2
  <2> QED
    BY <1>2, <2>3, <2>4 DEF CountIsCovered, HealthyIsEarned, debt
<1> QED
  BY <1>5, <1>6

\* Where neither a record nor a debt changes, the accounts stand.
LEMMA AccountsStand ==
    ASSUME CountIsCovered, HealthyIsEarned, UNCHANGED markVars,
           \A j \in Instances : health[j].status # "healthy" => (Owes(j)' => Owes(j)),
           TypeOK
    PROVE  CountIsCovered' /\ HealthyIsEarned'
<1>1. \A j \in Instances : health[j] \in HealthRecords /\ streak[j] \in Nat
  BY DEF TypeOK
<1>2. HealthyIsEarned'
  BY DEF HealthyIsEarned, markVars
<1>3. ASSUME NEW j \in Instances, health'[j].status # "healthy"
      PROVE  health'[j].successes <= streak'[j] + (IF Owes(j)' THEN 0 ELSE 1)
  <2>1. health[j].successes <= streak[j] + (IF Owes(j) THEN 0 ELSE 1)
    BY <1>3 DEF CountIsCovered, markVars
  <2>2. health[j].successes \in Nat /\ streak[j] \in Nat
    BY <1>1 DEF HealthRecords
  <2>3. Owes(j)' => Owes(j)
    BY <1>3 DEF markVars
  <2>4. health'[j] = health[j] /\ streak'[j] = streak[j]
    BY DEF markVars
  <2> QED
    BY <2>1, <2>2, <2>3, <2>4
<1> QED
  BY <1>2, <1>3 DEF CountIsCovered

-----------------------------------------------------------------------------
(***************************************************************************)
(* The invariant, action by action.  A round that the step leaves alone    *)
(* owes what it owed.                                                      *)
(***************************************************************************)
LEMMA InvInit == Init => Inv
<1> SUFFICES ASSUME Init PROVE Inv
  OBVIOUS
<1>1. TypeOK
  <2>1. kind \in {"timeout", "health_check"} /\ strategy \in {"immediate", "gradual", "probing"}
    BY ThresholdAssumption DEF Init
  <2>2. NewHealth \in HealthRecords /\ Resting \in Rounds /\ NoLoop \in CheckLoops
    BY DEF NewHealth, HealthRecords, Resting, Rounds, NoLoop, CheckLoops
  <2>3. <<>> \in Seq(BOOLEAN)
    OBVIOUS
  <2> QED
    BY <2>1, <2>2, <2>3, ThresholdAssumption DEF Init, TypeOK
<1>2. AttemptIsOfRound /\ EntryIsThere
  BY DEF Init, AttemptIsOfRound, Attempting, EntryIsThere, Resting
<1>3. CountIsCovered /\ HealthyIsEarned
  BY ThresholdAssumption DEF Init, CountIsCovered, HealthyIsEarned, NewHealth
<1>4. ProbesBounded
  <2>1. Len(<<>>) <= ProbingThreshold
    BY DEF ProbingThreshold
  <2>2. \A i \in Instances : probes[i] = <<>>
    BY DEF Init
  <2> QED
    BY <2>1, <2>2 DEF ProbesBounded
<1> QED
  BY <1>1, <1>2, <1>3, <1>4 DEF Inv

\* A step that leaves the records, the list and the round alone.
LEMMA BystanderStep ==
    ASSUME Inv, TypeOK', UNCHANGED <<markVars, listed, held, round, probes>>
    PROVE  Inv'
<1>1. CountIsCovered' /\ HealthyIsEarned'
  BY AccountsStand DEF Inv, Owes
<1>2. AttemptIsOfRound' /\ EntryIsThere' /\ ProbesBounded'
  BY DEF Inv, AttemptIsOfRound, Attempting, EntryIsThere, Entry, ProbesBounded
<1> QED
  BY <1>1, <1>2 DEF Inv

LEMMA FlipStep == ASSUME Inv, NEW i \in Instances, Flip(i) PROVE Inv'
<1>1. TypeOK'
  BY DEF Inv, TypeOK, Flip, markVars, managerVars, checkVars
<1> QED
  BY <1>1, BystanderStep DEF Flip, managerVars

LEMMA StopStep == ASSUME Inv, Stop PROVE Inv'
<1>1. TypeOK'
  BY DEF Inv, TypeOK, Stop, envVars, markVars
<1> QED
  BY <1>1, BystanderStep DEF Stop

LEMMA StartChecksStep == ASSUME Inv, NEW l \in Loops, StartChecks(l) PROVE Inv'
<1>1. [loops EXCEPT ![l].pc = "select"] \in [Loops -> CheckLoops]
  BY DEF Inv, TypeOK, CheckLoops
<1>2. TypeOK'
  BY <1>1 DEF Inv, TypeOK, StartChecks, envVars, markVars, managerVars
<1> QED
  BY <1>2, BystanderStep DEF StartChecks, managerVars

LEMMA StopChecksStep == ASSUME Inv, StopChecks PROVE Inv'
<1>1. TypeOK'
  BY DEF Inv, TypeOK, StopChecks, envVars, markVars, managerVars
<1> QED
  BY <1>1, BystanderStep DEF StopChecks, managerVars

LEMMA UpdateInstancesStep ==
    ASSUME Inv, NEW list \in SUBSET Instances, UpdateInstances(list) PROVE Inv'
<1>1. TypeOK'
  BY DEF Inv, TypeOK, UpdateInstances, envVars, markVars, managerVars
<1> QED
  BY <1>1, BystanderStep DEF UpdateInstances, managerVars

LEMMA CheckTickStep == ASSUME Inv, NEW l \in Loops, CheckTick(l) PROVE Inv'
<1>1. Checking(cache) \in CheckLoops
  BY DEF Inv, TypeOK, Checking, NoLoop, CheckLoops
<1>2. TypeOK'
  BY <1>1 DEF Inv, TypeOK, CheckTick, envVars, markVars, managerVars
<1> QED
  BY <1>2, BystanderStep DEF CheckTick, managerVars

LEMMA CheckLoopEndsStep == ASSUME Inv, NEW l \in Loops, CheckLoopEnds(l) PROVE Inv'
<1>1. [loops EXCEPT ![l].pc = "ended"] \in [Loops -> CheckLoops]
  BY DEF Inv, TypeOK, CheckLoops
<1>2. TypeOK'
  BY <1>1 DEF Inv, TypeOK, CheckLoopEnds, envVars, markVars, managerVars
<1> QED
  BY <1>2, BystanderStep DEF CheckLoopEnds, managerVars

\* A mark made by a step that leaves the manager alone.
LEMMA ReportStep ==
    ASSUME Inv, NEW i \in Instances, NEW ok \in BOOLEAN, Report(i, ok) PROVE Inv'
<1>1. Mark(i, ok) /\ UNCHANGED <<envVars, managerVars, checkVars>>
  BY DEF Report
<1>2. /\ health' \in [Instances -> HealthRecords]
      /\ streak' \in [Instances -> Nat]
      /\ CountIsCovered'
      /\ HealthyIsEarned'
  BY <1>1, MarkKeepsAccounts DEF Inv, Owes, managerVars
<1>3. TypeOK'
  BY <1>1, <1>2 DEF Inv, TypeOK, envVars, managerVars, checkVars
<1>4. AttemptIsOfRound' /\ EntryIsThere' /\ ProbesBounded'
  BY <1>1 DEF Inv, AttemptIsOfRound, Attempting, EntryIsThere, Entry, ProbesBounded, managerVars
<1> QED
  BY <1>2, <1>3, <1>4 DEF Inv

LEMMA CheckOneStep ==
    ASSUME Inv, NEW l \in Loops, NEW i \in Instances, CheckOne(l, i) PROVE Inv'
<1>1. Mark(i, up[i]) /\ UNCHANGED <<envVars, managerVars, cache, running, stopCh, panicked>>
  BY DEF CheckOne
<1>2. up[i] \in BOOLEAN
  BY DEF Inv, TypeOK
<1>3. /\ health' \in [Instances -> HealthRecords]
      /\ streak' \in [Instances -> Nat]
      /\ CountIsCovered'
      /\ HealthyIsEarned'
  BY <1>1, <1>2, MarkKeepsAccounts DEF Inv, Owes, managerVars
<1>4. Checking(loops[l].left \ {i}) \in CheckLoops
  BY DEF Inv, TypeOK, Checking, NoLoop, CheckLoops
<1>5. loops' = [loops EXCEPT ![l] = Checking(loops[l].left \ {i})]
  BY DEF CheckOne
<1>6. loops' \in [Loops -> CheckLoops]
  BY <1>4, <1>5 DEF Inv, TypeOK
<1>7. TypeOK'
  BY <1>1, <1>3, <1>6 DEF Inv, TypeOK, envVars, managerVars
<1>8. AttemptIsOfRound' /\ EntryIsThere' /\ ProbesBounded'
  BY <1>1 DEF Inv, AttemptIsOfRound, Attempting, EntryIsThere, Entry, ProbesBounded, managerVars
<1> QED
  BY <1>3, <1>7, <1>8 DEF Inv

-----------------------------------------------------------------------------
\* The manager's steps that leave the records and the strategy's results alone, and
\* are not between Recover and Settle.
LEMMA ListStep ==
    ASSUME Inv, UNCHANGED <<envVars, markVars, probes, stopped, checkVars>>,
           listed' \in [Instances -> Entries \cup {None}],
           held' \in [Instances -> Entries \cup {None}],
           round' \in Rounds,
           round' = round \/ round'.pc # "settle",
           AttemptIsOfRound', EntryIsThere'
    PROVE  Inv'
<1>1. TypeOK'
  BY DEF Inv, TypeOK, envVars, markVars, checkVars
<1>2. CountIsCovered' /\ HealthyIsEarned'
  <2>1. \A j \in Instances : Owes(j)' => Owes(j)
    BY DEF Owes
  <2> QED
    BY <2>1, AccountsStand DEF Inv
<1>3. ProbesBounded'
  BY DEF Inv, ProbesBounded
<1> QED
  BY <1>1, <1>2, <1>3 DEF Inv

LEMMA PendingRounds ==
    ASSUME NEW todo \in SUBSET Instances
    PROVE  /\ Pending(todo) \in Rounds
           /\ Pending(todo).todo = todo
           /\ Pending(todo).pc = IF todo = {} THEN "select" ELSE "next"
BY DEF Pending, Resting, Rounds

LEMMA AddInstanceStep == ASSUME Inv, NEW i \in Instances, AddInstance(i) PROVE Inv'
<1>1. NewEntry \in Entries
  BY DEF NewEntry, Entries
<1>2. listed' \in [Instances -> Entries \cup {None}]
  BY <1>1 DEF AddInstance, Inv, TypeOK
<1>3. EntryIsThere'
  <2>1. \A j \in Instances : held'[j] = held[j] /\ (listed[j] # None => listed'[j] = listed[j])
    BY DEF AddInstance, Inv, TypeOK
  <2>2. round.todo \subseteq Instances
    BY DEF Inv, TypeOK, Rounds
  <2> QED
    BY <2>1, <2>2 DEF AddInstance, Inv, EntryIsThere, Entry
<1> QED
  BY <1>2, <1>3, ListStep DEF AddInstance, Inv, TypeOK, AttemptIsOfRound, Attempting

LEMMA RemoveInstanceStep == ASSUME Inv, NEW i \in Instances, RemoveInstance(i) PROVE Inv'
<1>1. /\ listed' \in [Instances -> Entries \cup {None}]
      /\ held' \in [Instances -> Entries \cup {None}]
  BY DEF RemoveInstance, Delete, Inv, TypeOK
<1>2. EntryIsThere'
  <2>1. \A j \in Instances : j # i => held'[j] = held[j] /\ listed'[j] = listed[j]
    BY DEF RemoveInstance, Delete, Inv, TypeOK
  <2>2. held'[i] = IF i \in round.todo /\ held[i] = None THEN listed[i] ELSE held[i]
    BY DEF RemoveInstance, Delete, Inv, TypeOK
  <2>3. round.todo \subseteq Instances
    BY DEF Inv, TypeOK, Rounds
  <2> QED
    BY <2>1, <2>2, <2>3 DEF RemoveInstance, Inv, EntryIsThere, Entry
<1> QED
  BY <1>1, <1>2, ListStep DEF RemoveInstance, Inv, TypeOK, AttemptIsOfRound, Attempting

LEMMA ElapseStep == ASSUME Inv, NEW i \in Instances, Elapse(i) PROVE Inv'
<1>1. listed[i] \in Entries
  BY DEF Elapse, Inv, TypeOK
<1>2. [listed[i] EXCEPT !.due = TRUE] \in Entries
  BY <1>1 DEF Entries
<1>3. [listed[i] EXCEPT !.due = TRUE] # None
  BY <1>2, ThresholdAssumption
<1>4. listed' = [listed EXCEPT ![i] = [listed[i] EXCEPT !.due = TRUE]]
  BY DEF Elapse
<1>5. listed' \in [Instances -> Entries \cup {None}]
  BY <1>2, <1>4 DEF Inv, TypeOK
<1>6. EntryIsThere'
  <2>1. \A j \in Instances : held'[j] = held[j] /\ (listed[j] # None => listed'[j] # None)
    BY <1>3, <1>4 DEF Elapse, Inv, TypeOK
  <2>2. round.todo \subseteq Instances
    BY DEF Inv, TypeOK, Rounds
  <2> QED
    BY <2>1, <2>2 DEF Elapse, Inv, EntryIsThere, Entry
<1> QED
  BY <1>5, <1>6, ListStep DEF Elapse, Inv, TypeOK, AttemptIsOfRound, Attempting

LEMMA TickStep == ASSUME Inv, Tick PROVE Inv'
<1> DEFINE todo == {i \in Instances : listed[i] # None}
<1>1. round' = Pending(todo) /\ UNCHANGED <<listed, held>> /\ round.pc = "select"
  BY DEF Tick
<1>2. /\ Pending(todo) \in Rounds
      /\ Pending(todo).todo = todo
      /\ Pending(todo).pc = IF todo = {} THEN "select" ELSE "next"
  BY PendingRounds
<1>3. EntryIsThere'
  BY <1>1, <1>2 DEF Inv, EntryIsThere, AttemptIsOfRound, Entry, TypeOK
<1>4. AttemptIsOfRound'
  BY <1>1, <1>2 DEF AttemptIsOfRound, Attempting
<1> QED
  BY <1>1, <1>2, <1>3, <1>4, ListStep DEF Tick, Inv, TypeOK

LEMMA TooEarlyStep == ASSUME Inv, NEW i \in Instances, TooEarly(i) PROVE Inv'
<1> DEFINE todo == round.todo \ {i}
<1>1. round' = Pending(todo) /\ UNCHANGED listed /\ held' = [held EXCEPT ![i] = None]
  BY DEF TooEarly
<1>2. todo \in SUBSET Instances
  BY DEF Inv, TypeOK, Rounds
<1>3. /\ Pending(todo) \in Rounds
      /\ Pending(todo).todo = todo
      /\ Pending(todo).pc = IF todo = {} THEN "select" ELSE "next"
  BY <1>2, PendingRounds
<1>4. EntryIsThere'
  BY <1>1, <1>2, <1>3 DEF Inv, EntryIsThere, Entry, TypeOK
<1>5. AttemptIsOfRound'
  BY <1>1, <1>3 DEF AttemptIsOfRound, Attempting
<1>6. held' \in [Instances -> Entries \cup {None}]
  BY <1>1 DEF Inv, TypeOK
<1> QED
  BY <1>1, <1>3, <1>4, <1>5, <1>6, ListStep DEF TooEarly, Inv, TypeOK

\* The attempt writes the entry it holds, in the map or beside it.
LEMMA AttemptStep == ASSUME Inv, NEW i \in Instances, Attempt(i) PROVE Inv'
<1> DEFINE e == [Entry(i) EXCEPT !.due = FALSE]
<1>1. i \in round.todo /\ round.pc = "next" /\ SetEntry(i, e)
  BY DEF Attempt
<1>2. Entry(i) \in Entries
  BY <1>1 DEF Inv, EntryIsThere, TypeOK, Entry
<1>3. e \in Entries
  BY <1>2 DEF Entries
<1>4. e # None
  BY <1>3, ThresholdAssumption
<1> HIDE DEF e
<1>5. /\ listed' \in [Instances -> Entries \cup {None}]
      /\ held' \in [Instances -> Entries \cup {None}]
  BY <1>1, <1>3 DEF Inv, TypeOK, SetEntry
<1>6. round \in Rounds
  BY DEF Inv, TypeOK
<1>7. /\ round' \in Rounds
      /\ round'.todo = round.todo
      /\ round'.cur = i
      /\ round'.pc \in {"recover", "dial"}
  BY <1>6 DEF Attempt, Rounds
<1>8. EntryIsThere'
  <2>1. \A j \in Instances : j # i => held'[j] = held[j] /\ listed'[j] = listed[j]
    BY <1>1 DEF SetEntry, Inv, TypeOK
  <2>2. /\ held'[i] = IF held[i] # None THEN e ELSE held[i]
        /\ listed'[i] = IF held[i] # None THEN listed[i] ELSE e
    BY <1>1 DEF SetEntry, Inv, TypeOK
  <2>3. round.todo \subseteq Instances
    BY <1>6 DEF Rounds
  <2> QED
    BY <1>1, <1>4, <1>7, <2>1, <2>2, <2>3 DEF Inv, EntryIsThere, Entry
<1>9. AttemptIsOfRound'
  BY <1>1, <1>7 DEF AttemptIsOfRound, Attempting
<1> QED
  BY <1>5, <1>7, <1>8, <1>9, ListStep DEF Attempt, Inv, TypeOK

LEMMA DialStep == ASSUME Inv, Dial PROVE Inv'
<1>1. round \in Rounds /\ round.cur \in Instances
  BY DEF Dial, Inv, TypeOK, Rounds, AttemptIsOfRound, Attempting
<1>2. up[round.cur] \in BOOLEAN /\ NilErrors(up[round.cur]) \subseteq BOOLEAN
  BY <1>1 DEF Inv, TypeOK, NilErrors
<1>3. /\ round' \in Rounds
      /\ round'.todo = round.todo
      /\ round'.cur = round.cur
      /\ round'.pc = "mark"
  BY <1>1, <1>2 DEF Dial, Rounds
<1>4. EntryIsThere' /\ AttemptIsOfRound'
  BY <1>3 DEF Dial, Inv, EntryIsThere, Entry, AttemptIsOfRound, Attempting
<1> QED
  BY <1>3, <1>4, ListStep DEF Dial, Inv, TypeOK

LEMMA EndLoopStep == ASSUME Inv, EndLoop PROVE Inv'
<1>1. round \in Rounds
  BY DEF Inv, TypeOK
<1>2. /\ round' \in Rounds
      /\ round'.todo = round.todo
      /\ round'.pc = "ended"
  BY <1>1 DEF EndLoop, Rounds
<1>3. EntryIsThere' /\ AttemptIsOfRound'
  BY <1>1, <1>2 DEF EndLoop, Inv, EntryIsThere, Entry, AttemptIsOfRound, Attempting
<1> QED
  BY <1>2, <1>3, ListStep DEF EndLoop, Inv, TypeOK

\* Nothing is owed before the strategy has looked, or right after it.
LEMMA MarkDialledStep == ASSUME Inv, MarkDialled PROVE Inv'
<1>1. round \in Rounds /\ round.cur \in Instances /\ round.good \in BOOLEAN
  BY DEF MarkDialled, Inv, TypeOK, Rounds, AttemptIsOfRound, Attempting
<1>2. /\ round' \in Rounds
      /\ round'.todo = round.todo
      /\ round'.cur = round.cur
      /\ round'.pc = "recover"
  BY <1>1 DEF MarkDialled, Rounds
<1>3. \A j \in Instances : Owes(j) <=> Owes(j)'
  BY <1>2 DEF MarkDialled, Owes
<1>4. /\ health' \in [Instances -> HealthRecords]
      /\ streak' \in [Instances -> Nat]
      /\ CountIsCovered'
      /\ HealthyIsEarned'
  BY <1>1, <1>3, MarkKeepsAccounts DEF MarkDialled, Inv
<1>5. TypeOK'
  BY <1>2, <1>4 DEF MarkDialled, Inv, TypeOK, envVars, checkVars
<1>6. AttemptIsOfRound' /\ EntryIsThere' /\ ProbesBounded'
  BY <1>2 DEF MarkDialled, Inv, AttemptIsOfRound, Attempting, EntryIsThere, Entry, ProbesBounded
<1> QED
  BY <1>4, <1>5, <1>6 DEF Inv

\* A strategy is convinced of a healthy instance only.
LEMMA RecoverStep == ASSUME Inv, Recover PROVE Inv'
<1> DEFINE i == round.cur
           healthy == round.ok /\ health[i].status = "healthy"
           results == Remember(probes[i], healthy)
           blesses == IF strategy = "probing" THEN Convincing(results) ELSE healthy
<1>1. round \in Rounds /\ i \in Instances /\ i \in round.todo /\ healthy \in BOOLEAN
  BY DEF Recover, Inv, TypeOK, Rounds, AttemptIsOfRound, Attempting
<1>2. /\ round' = [round EXCEPT !.pc = "settle", !.bless = blesses]
      /\ probes' = IF strategy # "probing" THEN probes
                   ELSE [probes EXCEPT ![i] = IF blesses THEN <<>> ELSE results]
      /\ round.pc = "recover"
      /\ UNCHANGED <<envVars, markVars, listed, held, stopped, checkVars>>
  BY DEF Recover
<1>3. probes[i] \in Seq(BOOLEAN) /\ Len(probes[i]) <= ProbingThreshold
  BY <1>1 DEF Inv, TypeOK, ProbesBounded
<1> HIDE DEF healthy, i
<1>4. /\ results \in Seq(BOOLEAN)
      /\ Len(results) <= ProbingThreshold
      /\ Convincing(results) => healthy
  BY <1>1, <1>3, NewestIsLast
<1> HIDE DEF results
<1>5. blesses \in BOOLEAN /\ (blesses => healthy)
  BY <1>1, <1>4 DEF Convincing
<1> HIDE DEF blesses
<1>6. /\ round' \in Rounds
      /\ round'.todo = round.todo
      /\ round'.cur = round.cur
      /\ round'.bless = blesses
      /\ round'.pc = "settle"
  BY <1>1, <1>2, <1>5 DEF Rounds
<1>7. \A j \in Instances : health[j].status # "healthy" => (Owes(j)' => Owes(j))
  BY <1>5, <1>6 DEF Owes, healthy, i
<1>8. CountIsCovered' /\ HealthyIsEarned'
  BY <1>2, <1>7, AccountsStand DEF Inv
<1>9. probes' \in [Instances -> Seq(BOOLEAN)] /\ ProbesBounded'
  <2>1. <<>> \in Seq(BOOLEAN) /\ Len(<<>>) <= ProbingThreshold
    BY DEF ProbingThreshold
  <2>2. CASE strategy # "probing"
    BY <1>2, <2>2 DEF Inv, TypeOK, ProbesBounded
  <2>3. CASE strategy = "probing"
    <3> DEFINE kept == IF blesses THEN <<>> ELSE results
    <3>1. kept \in Seq(BOOLEAN) /\ Len(kept) <= ProbingThreshold
      BY <1>4, <2>1
    <3>2. probes' = [probes EXCEPT ![i] = kept]
      BY <1>2, <2>3
    <3> HIDE DEF kept
    <3> QED
      BY <3>1, <3>2 DEF Inv, TypeOK, ProbesBounded
  <2> QED
    BY <2>2, <2>3
<1>10. TypeOK'
  BY <1>2, <1>6, <1>9 DEF Inv, TypeOK, envVars, markVars, checkVars
<1>11. AttemptIsOfRound' /\ EntryIsThere'
  BY <1>1, <1>2, <1>6 DEF Inv, AttemptIsOfRound, Attempting, EntryIsThere, Entry, i
<1> QED
  BY <1>8, <1>9, <1>10, <1>11 DEF Inv

\* The strategy's mark pays what it owed: the one success no answer stands for.
LEMMA SettleStep == ASSUME Inv, Settle PROVE Inv'
<1> DEFINE i == round.cur
           todo == round.todo \ {i}
           n == SuccessesAfter(Entry(i), round.ok)
<1>1. /\ round.pc = "settle"
      /\ round' = Pending(todo)
      /\ health' = IF round.bless THEN [health EXCEPT ![i] = Success(health[i])] ELSE health
      /\ listed' = IF n >= RecoveryThreshold THEN [listed EXCEPT ![i] = None]
                   ELSE IF held[i] # None THEN listed
                   ELSE [listed EXCEPT ![i].successes = n]
      /\ held' = [held EXCEPT ![i] = None]
      /\ UNCHANGED <<envVars, streak, probes, stopped, checkVars>>
  BY DEF Settle
<1>2. round \in Rounds /\ i \in Instances /\ i \in round.todo /\ todo \in SUBSET Instances
  BY <1>1 DEF Inv, TypeOK, Rounds, AttemptIsOfRound, Attempting
<1>3. Entry(i) \in Entries /\ (held[i] = None => listed[i] \in Entries)
  BY <1>2 DEF Inv, EntryIsThere, TypeOK, Entry
<1>4. n \in Nat
  BY <1>3 DEF SuccessesAfter, Entries
<1> HIDE DEF i, n
<1>5. listed' \in [Instances -> Entries \cup {None}]
  <2>1. CASE n >= RecoveryThreshold \/ held[i] # None
    BY <1>1, <2>1 DEF Inv, TypeOK
  <2>2. CASE ~(n >= RecoveryThreshold) /\ held[i] = None
    <3>1. [listed[i] EXCEPT !.successes = n] \in Entries
      BY <1>3, <1>4, <2>2 DEF Entries
    <3>2. listed' = [listed EXCEPT ![i] = [listed[i] EXCEPT !.successes = n]]
      BY <1>1, <2>2
    <3> QED
      BY <3>1, <3>2 DEF Inv, TypeOK
  <2> QED
    BY <2>1, <2>2
<1>6. \A j \in Instances : j # i => listed'[j] = listed[j] /\ held'[j] = held[j]
  BY <1>1, <1>2 DEF Inv, TypeOK
<1>7. held' \in [Instances -> Entries \cup {None}] /\ held'[i] = None
  BY <1>1, <1>2 DEF Inv, TypeOK
<1>8. /\ Pending(todo) \in Rounds
      /\ Pending(todo).todo = todo
      /\ Pending(todo).pc = IF todo = {} THEN "select" ELSE "next"
  BY <1>2, PendingRounds
<1>9. EntryIsThere' /\ AttemptIsOfRound'
  BY <1>1, <1>2, <1>6, <1>7, <1>8 DEF Inv, EntryIsThere, Entry, AttemptIsOfRound, Attempting
<1>10. \A j \in Instances : health[j] \in HealthRecords /\ streak[j] \in Nat
  BY DEF Inv, TypeOK
<1>11. \A j \in Instances : ~Owes(j)'
  BY <1>1, <1>8 DEF Owes
<1>12. /\ health' \in [Instances -> HealthRecords]
       /\ CountIsCovered' /\ HealthyIsEarned'
  <2>1. CASE round.bless
    <3>1. health' = [health EXCEPT ![i] = Success(health[i])]
      BY <1>1, <2>1
    <3>2. Success(health[i]) \in HealthRecords
      BY <1>2, <1>10, MarksAreRecords
    <3>3. health' \in [Instances -> HealthRecords]
      BY <3>1, <3>2 DEF Inv, TypeOK
    <3>4. \A j \in Instances :
             /\ health'[j].status = "healthy" => streak[j] >= SuccessThreshold - 1
             /\ health'[j].status # "healthy" => health'[j].successes <= streak[j] + 1
      <4> TAKE j \in Instances
      <4>1. CASE j = i
        <5>1. health'[j] = Success(health[i])
          BY <3>1, <4>1 DEF Inv, TypeOK
        <5>2. /\ health[i].status = "healthy" => streak[i] >= SuccessThreshold - 1
              /\ health[i].status # "healthy" => health[i].successes <= streak[i]
          <6>1. Owes(i)
            BY <1>1, <2>1 DEF Owes, i
          <6>2. /\ health[i].status = "healthy" => streak[i] >= SuccessThreshold - 1
                /\ health[i].status # "healthy" => health[i].successes <= streak[i] + 0
            BY <1>2, <6>1 DEF Inv, CountIsCovered, HealthyIsEarned
          <6> QED
            BY <1>2, <1>10, <6>2
        <5> QED
          BY <1>2, <1>10, <4>1, <5>1, <5>2, SuccessOnCredit
      <4>2. CASE j # i
        <5>1. health'[j] = health[j]
          BY <3>1, <4>2 DEF Inv, TypeOK
        <5>2. ~Owes(j)
          BY <4>2 DEF Owes, i
        <5> QED
          BY <5>1, <5>2 DEF Inv, CountIsCovered, HealthyIsEarned
      <4> QED
        BY <4>1, <4>2
    <3> QED
      BY <1>1, <1>11, <3>3, <3>4 DEF CountIsCovered, HealthyIsEarned
  <2>2. CASE ~round.bless
    <3>1. UNCHANGED markVars
      BY <1>1, <2>2 DEF markVars
    <3> QED
      BY <1>11, <3>1, AccountsStand DEF Inv, TypeOK, markVars
  <2> QED
    BY <2>1, <2>2
<1>13. TypeOK'
  BY <1>1, <1>5, <1>7, <1>8, <1>12 DEF Inv, TypeOK, envVars, checkVars
<1>14. ProbesBounded'
  BY <1>1 DEF Inv, ProbesBounded
<1> QED
  BY <1>9, <1>12, <1>13, <1>14 DEF Inv

-----------------------------------------------------------------------------
\* Every step, the stuttering one included.
LEMMA NextKeeps == Inv /\ [Next]_vars => Inv'
<1> SUFFICES ASSUME Inv, [Next]_vars PROVE Inv'
  OBVIOUS
<1>1. CASE UNCHANGED vars
  <2>1. TypeOK'
    BY <1>1 DEF vars, Inv, TypeOK
  <2> QED
    BY <1>1, <2>1, BystanderStep DEF vars, markVars
<1>2. CASE LoopStep
  BY <1>2, TickStep, DialStep, MarkDialledStep, RecoverStep, SettleStep, TooEarlyStep, AttemptStep
     DEF LoopStep
<1>3. CASE EndLoop \/ Stop \/ StopChecks
  BY <1>3, EndLoopStep, StopStep, StopChecksStep
<1>4. ASSUME NEW i \in Instances,
             \/ Flip(i) \/ Report(i, TRUE) \/ Report(i, FALSE)
             \/ AddInstance(i) \/ RemoveInstance(i) \/ Elapse(i)
      PROVE  Inv'
  BY <1>4, FlipStep, ReportStep, AddInstanceStep, RemoveInstanceStep, ElapseStep
<1>5. ASSUME NEW list \in SUBSET Instances, UpdateInstances(list) PROVE Inv'
  BY <1>5, UpdateInstancesStep
<1>6. ASSUME NEW l \in Loops, StartChecks(l) \/ CheckStep(l) \/ CheckLoopEnds(l)
      PROVE  Inv'
  BY <1>6, StartChecksStep, CheckTickStep, CheckOneStep, CheckLoopEndsStep DEF CheckStep
<1> QED
  BY <1>1, <1>2, <1>3, <1>4, <1>5, <1>6 DEF Next

\* detector.go and recovery.go, any number of callers, instances and check loops: the
\* accounts of every instance stand in every state.
THEOREM AccountsHold == Spec => []Inv
<1> QED
  BY InvInit, NextKeeps, PTL DEF Spec

\* recovery.go:131-140: recoverInstance never looks into an entry that is not there,
\* although callers remove and add entries while the round is under way.
THEOREM EntryIsThereHolds == Spec => []EntryIsThere
<1>1. Inv => EntryIsThere
  BY DEF Inv
<1> QED
  BY <1>1, AccountsHold, PTL

\* An instance that has failed is healthy only after SuccessThreshold good answers,
\* but for the one success a strategy adds by itself.
THEOREM HealthyIsEarnedHolds == Spec => []HealthyIsEarned
<1>1. Inv => HealthyIsEarned
  BY DEF Inv
<1> QED
  BY <1>1, AccountsHold, PTL
=============================================================================
