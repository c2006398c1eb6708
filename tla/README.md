# TLA+ models of fyer-rpc

fyer-rpc is a Go RPC framework: a binary protocol over TCP, a client with a
connection pool, registration and discovery over etcd, load balancing, groups
and selectors, and a failover layer with retries, failure detection, recovery
and a circuit breaker. This directory holds TLA+ modules for its components,
the TLC configurations that check them, and TLAPS proofs of what matters most.

All line numbers are those of the source under `src/`.

## The system

| part | state | operations | what makes it hard |
|---|---|---|---|
| circuit breaker (`cluster/failover/breaker.go`) | map ID -> `*instanceState` (state, error count, `openUntil`, half-open counters, `backoffFactor`), a cleanup goroutine | `Allow`, `MarkSuccess`, `MarkFailure`, `GetState`, `Reset`, `Close`, `removeStaleInstances` | pointers used after the map's lock is released; counters changed under a shared lock; a lock dropped in the middle of `Allow`; a float converted to a Duration |
| failover handler (`failover.go`) | one `InstanceManager` (list, status, round-robin index) shared by all calls, a detector, a breaker, a retry policy | `Execute`, `UpdateInstances`, `GetInstance`, `MarkInstanceStatus`, `handleSuccess`, `handleFailure` | concurrent `Execute`s over one manager; three views of an instance under three locks; retries |
| detectors (`detector.go`) | status and two counters per instance; error windows; a check loop | `Detect`, `MarkFailed`, `MarkSuccess`, `ReportRequest`, `Start`, `Stop` | check and update under separate locks; restart of the loop |
| recovery (`recovery.go`) | recovering instances, strategies, a loop | `AddInstance`, `RemoveInstance`, `Recover`, `Start`, `Stop` | a loop beside the calls; what counts as recovered |
| retry policies, configuration (`retry.go`, `config.go`) | limits, a random source | `ShouldRetry`, `NextBackoff`, `MaxAttempts`, options | arithmetic on Durations |
| pool and client (`rpc/pool.go`, `client.go`, `connection.go`, `proxy.go`, `api/client.go`) | a buffered channel of idle connections; the socket's two streams; a closed flag | `Get`, `Put`, `Close`, `Call`, `CallWithTimeout`, `CallWithFailover` | a worker goroutine that outlives its caller; responses matched by position; closing under load |
| server (`rpc/server.go`, `api/server.go`) | registered services, one goroutine per connection | `handleConnection`, `RegisterService`, `Start`, `Stop` | every error must be answered under its request's number |
| protocol (`protocol/`) | none | `EncodeMessage`, `DecodeMessage`, codecs | several small writes per message; an error between them |
| registry (`registry/etcd/`) | leases, keepalive goroutines, subscriber channels, watch goroutines | `Register`, `Deregister`, `Subscribe`, `Unsubscribe`, `UpdateService`, `Close` | lease expiry, crashes, full channels, closing a channel under a sender |
| discovery (`discovery/discovery.go`) | a cache with time stamps, watcher goroutines and their channels | `GetService`, `Watch`, `Next`, `Stop`, `updateCache`, `cleanCache`, `Close` | watcher and reader overwrite each other; two sides close one channel |
| resolver, load balancers (`discovery/resolver.go`, `balancer.go`, `balancer/`) | an instance list in each, an RWMutex, notification channels, update loops | `Resolve`, `Refresh`, `Select`, `SelectWithFailover`, `Update`, `Feedback`, `Close` | a read lock taken twice; read and write back under two locks; dropped notifications |
| groups, selectors (`cluster/group`, `cluster/selector`) | registered groups, a chain of filters | `Select`, `Route`, `UpdateConfig` | sequential; error paths of an update |
| metrics (`failover/metrics.go`, `discovery/metrics`) | counters and averages | `ReportSuccess`, `ReportFailure`, `RecordLatency` | averages updated in place with integers |
| client and server configuration, utilities | options, loggers | setters | nothing decides on them |

A call goes through these parts as follows. The resolver gives the load
balancer a list of instances, fed by registry watches. `Execute` stores the
list in the instance manager, selects an instance, asks the breaker, asks the
detector (which dials), runs the operation (a pooled `CallWithTimeout`), and
reports the outcome to detector, breaker and manager in turn. The parts share
memory, each under its own mutex; nobody holds two of them across a call,
except `SelectWithFailover`.

What makes each part correct:

* breaker: opens at the threshold, stays open for its period, lets probes
  through, decides on them, and never refuses for ever;
* failover: at most one run of the operation per instance, a truthful result,
  no blame without a failure, termination;
* detectors and recovery: a healthy status is earned, an instance leaves
  recovery when it has recovered, loops end when they are stopped;
* pool: one owner per connection, none lost, the response of a call belongs to
  its request, a call with a timeout does not wait for ever;
* server and protocol: the n-th answer on a connection is the n-th request's;
* registry and discovery: a dead server disappears and a live registration
  stays, a subscriber ends up with the last list, no send on a closed channel,
  the cache does not stay behind the registry;
* load balancer: no lock cycle, no lost update, the fastest enabled instance;
* groups and selectors: filters whose order does not matter, atomic updates.

`PROJECT.json` lists the components with their status, and every hazard with
the line it bites at and the properties that watch it.

## The modules

| module | models | with |
|---|---|---|
| `CircuitBreaker` | `SimpleCircuitBreaker` for one instance ID, every operation cut where it holds no lock | `CircuitBreakerProofs` |
| `BreakerPromise` | the abstract breaker: the state diagram its callers may rely on | refined by `CircuitBreaker` (`KeepsPromise`) |
| `BreakerBackoff` | the length of the open period, overflow included | `AlgorithmsProofs` |
| `FailoverHandler` | `Execute` with its instance manager, timeout detector and retry policy; the breaker as `BreakerPromise` has it | `MCFailoverHandler`, `FailoverHandlerProofs` |
| `Recovery` | `RecoveryManager`, its strategies, `HealthCheckDetector` and the callers that report, over one detector record | `MCRecovery`, `RecoveryProofs` |
| `PooledCalls` | callers, workers, pool, connections, the server's loop, closing | `PooledCallsProofs` |
| `PoolPromise` | the abstract pool: who borrows, dials, gives up and closes a connection | refined by `PooledCalls` (`KeepsPoolPromise`) |
| `Subscriptions` | `EtcdRegistry`'s channels: `Subscribe`, its watch goroutine, `Unsubscribe`, `Close`, with subscribers that read | `MCSubscriptions`, `SubscriptionsProofs` |
| `Leases` | `EtcdRegistry`'s leases: `Register`, its keepalive goroutine, `Deregister`, `UpdateService`, `Close`, crash and restart | `LeasesProofs` |
| `Discovery` | `DefaultDiscovery`'s cache and one `Watch` with its consumer | |
| `LoadBalancer` | resolver, `LoadBalancer` and `FastestBalancer`: the way of a list through them, and the calls under the read lock | `LoadBalancerProofs` |
| `Selection`, `Delays`, `Monitors`, `Wire` | pure parts as operators: groups, routers, selectors, balancer choice; configuration, retry and recovery delays; error windows and averages; one connection's exchanges | `MCAlgorithms`, `AlgorithmsProofs` |

**CircuitBreaker.** `heap` holds the `instanceState` objects, `entry` is
`b.instances[id]`, `ptr[t]` the pointer goroutine `t` got from
`getOrCreateState` and uses later, possibly after `Reset` or the cleanup has
taken the object out of the map. `pc[t]` says between which critical sections
the goroutine is: `AllowFetch` then one of `AllowClosed`, `AllowRefuse`,
`AllowProbe` + `AllowCount` (the read of the counter and its increment, both
under the read lock, which `NoReaders` makes writers wait for) or
`AllowExpired` + `TransitionFetch` + `TransitionToHalfOpen`; then `MarkFetch`
and `MarkSuccess` or `MarkFailure`. `counted` is a ghost: which half-open
period counted a call. Time is the flag `expired`. A second `Close` closes `done`
again; the panic ends the process, so `cleaner = "panicked"` ends the behaviour.

**BreakerBackoff.** The open period in ticks, `backoffFactor` in multiples of
`1/Scale`, and `ToDuration`, the conversion that Go leaves to the platform when
the value does not fit (`Fits`): the largest or the most negative Duration.
The module has a specification of its own; the run `algorithms` takes it along
(`PureParts`), and a lemma, `PurePartsAreBoth`, says that the run's behaviours are
behaviours of both specifications the theorems speak of.

**FailoverHandler.** `list`, `marked`, `index` are the instance manager,
`health` the detector, `breaker` the breaker, `call[c]` the local variables and
the position of the `Execute` of caller `c`. Each call of a component is one
step, as each takes its own lock. `Allow` is two steps when the open period has
expired, because the code releases the lock there. `Start` stores any list,
the empty one too: with it the caller returns at once, after the shared list
has been replaced. `StartCancelled` is the early return of a context that is
already cancelled; with an empty list it indexes `instances[0]` and panics, which
ends the behaviour. The environment decides
which dials and operations fail. The error that accompanies a failed result is
not modelled, `FailedNodes` and `Instance` of a successful one are.

**Recovery.** `health` is `BaseDetector`'s record, which callers (`Report`), the
recovery loop (`Attempt`, `Dial`, `MarkDialled`, `Recover`, `Settle`) and the
check loops (`CheckTick`, `CheckOne`) write. `listed` is `recoveryStates`; an
entry that `RemoveInstance` deletes while the round still points at it moves to
`held`, and `Settle` deletes by ID, a newer entry too, as the code does.
`AddInstance` takes whatever status its caller passes. `NilErrors` are the
answers for which `Detect` returns no error: a good one, and of a health
checker also `(false, nil)`. `streak` is a ghost: the good answers since the last
failure. Delays are the flag `due`. `StartChecks`, `StopChecks` and `Stop` keep the code's
missing guards: a second close sets `panicked`, which ends the behaviour.

**PooledCalls.** A call is a caller (`Enter`, `Get*`, `Finish` or `Timeout`,
`Put*`) and a worker (`Write`, `Read`). A caller whose deadline passes while
its worker is still at work sets the ghost `late`; `Client.Call`, which waits
for its own work, is a call outside `Timed`, whose deadline never passes, so
everything stated under `~late` holds for it. `Rejected` is a call turned away
before it has a connection, `EncodeFails` a request that fails before
anything is written. `ClosePool` closes the channel, `DrainOne` closes the idle
connections one by one. A connection has a state and two streams. Two
workers that encode or decode on one connection together leave `Garbage`. The
server answers in order (`Serve`) or goes away (`Drop`). `Place`, `Phase`,
`Held` and `Stage` read off this state what `PoolPromise` speaks of: where each
connection is, whether a call has had its connection, which one it holds, and
how far closing is.

**Subscriptions.** One service and version. `current` is the channel in
`r.watchers`, `handle` says whose cancel function is in `r.leases`, `mu` is the
client that keeps `r.mu` locked between `Subscribe`'s list (`SubscribeList`)
and its watch (`SubscribeWatch`). The watch goroutine of a channel goes round
`WatchEvent`, `WatchList`, `WatchCheck`, `WatchSend`, and leaves by
`WatchCleanup`, its deferred function. A list is known by the etcd revision it
was read at. `missed` is a ghost set where the code loses a change: in `Change`
between list and watch, in `WatchListFails`, and in `WatchSend` on a full
channel. `Change` is etcd, seen through its API.

**Leases.** `lease` and `key` are etcd's, `leases` is the entry of the service in
`r.leases`, `keeper[n]` the goroutine the `Register` of lease `n` left behind.
`Register` is `Grant`, `PutKey`, `Keep`, and `RegisterFails` between any two of
them; `Deregister` is `Load`, `Revoke`, `Delete`, run by the user or by a
keepalive goroutine that has seen its channel close (`Notice`), or whose lease the
etcd client gave up on its own deadline (`GiveUp`). `Crash` forgets
everything local, `Expire` takes a lease away whether or not it was renewed.
UpdateService's `Put` has no lease (`PutWithoutLease`), as in the code.

**Discovery.** `cache` is the entry of one service, with its age in ticks.
`GetService` is `Hit`, or `Miss`, `List` and `Store`; the watch goroutine is
`WatchReceive`, `UpdateCache`, `WatchSend` and leaves through `Exit`, its
deferred function. Lists are versions of the service. `UpdateCache` after
`Close` writes to a nil map and panics, as in the code.

**LoadBalancer.** `NewResolver` is `NewList`, `NewStore` and `NewSubscribe`, beside
the refresher, which runs already; what is published in between is not sent
(resolver.go:43-50), and only a refresh or the next change makes up for it.
A list then travels `chan` -> `Resolver.instances` (`WatchReceive`)
-> a token in `updateChan` (`WatchNotify`) -> `UpdateResolve`, `Update` ->
`FastestBalancer.instances`, which `LoopRead` and `LoopStore` of its own
goroutine copy and store back. `lb.mu` is not a variable: readers are the
callers inside `SelectWithFailover`, the waiting writer is `updates.pc =
"locking"`, and `CanRLock` keeps new readers out while it waits. `lost` is a
ghost set in the two steps that leave the balancer's list behind. `Close`,
`CloseResolver` and `CloseChannels` are the three parts of closing that others can
come between; a second `Close` panics.

**Selection, Delays, Monitors, Wire.** Operators over lists and reports; the
comment of each names its function. Strings are members of small sets, regular
expressions and numbers are given by relations (`Matching`, `Number`). A
stream in `Wire` is a sequence of parts that `EncodeMessage` writes and
`DecodeMessage` reads. A BaseSelector with a function of its own keeps what
it accepts or fails; an instance without a group has the empty name, as a Go map
gives it. A method's response may be one the codec refuses; a method that panics,
or a request without metadata (server.go:84), ends the process with everything
behind it unanswered (`Panics`). `Delays` has the options of `config.go`, each with its
guard, and policies made from the result; its `Sound` states, for whatever
options were given, the assumptions the other modules make of thresholds and
limits. A loop over a list is a recursive function local to its operator: of
the place in the list for `Keep`, `RouteChain`, `SelectChain`, `NewConfig`,
`Registered` and `WriteAll`, of the number of reports for `RateAfter`, `StatsAfter`
and `LatenciesAfter`, of the number of calls of `Read` for `ReadAll`. This is the
form the proofs can speak of. `MCAlgorithms` draws one sample per behaviour
(`Samples`, `DrawSample`).

Operators whose comment starts with `Mutant:` are not part of the models. Each
is a plausible mistake in the definition that follows it; `PROJECT.json`
(`mutants`) pairs every checked property with one that breaks it.

## The runs

| run | cfg | result | what it shows |
|---|---|---|---|
| `breaker` | `CircuitBreaker.cfg` | holds | `ClosedBelowThreshold`, `NeverWedged`, `CoolingIsKept`, refinement of `BreakerPromise` (`KeepsPromise`); a half-open breaker out of budget decides (`ExhaustedDecides`), an open one is probed while callers ask (`OpenIsProbed`) |
| `failover` | `FailoverHandler.cfg` | holds | two concurrent `Execute`s, one of which may empty the other's list: `AtMostOncePerInstance`, `ResultTruthful`, `ExclusionHasCause`, `SwitchesInstance`, and every `Execute` returns (`ExecuteReturns`) |
| `failover_reinstated` | `FailoverReinstated.cfg` | violated | an instance marked unhealthy is never selected again, so it is never marked healthy (`Reinstated`) |
| `recovery` | `MCRecovery.cfg` | holds | an instance that has failed is healthy again only after good answers (`HealthyIsEarned`); one that stays up and is not recorded unhealthy leaves the recovery list (`EntriesLeave`); a stopped check loop ends, restarted or not (`ChecksEnd`) |
| `recovery_unstable` | `RecoveryUnstable.cfg` | violated | an instance that is down leaves the recovery list as recovered (`LeavesRecovered`) |
| `pooled_calls` | `PooledCalls.cfg` | holds | refinement of `PoolPromise` (`KeepsPoolPromise`), so no connection is lost; one owner per connection (`ExclusiveUse`); until one call is late, idle connections are quiet (`QuietInTime`) and every response is the caller's own (`PairedInTime`) |
| `pooled_mispaired` | `PooledMispaired.cfg` | violated | after a late call another is given the response to it (`Paired`) |
| `subscriptions` | `MCSubscriptions.cfg` | holds | one open channel, closed once (`ClosedOnce`), with a live watch goroutine (`Served`); lists arrive in order (`InOrder`); a watch that has caught up has sent the last list, unless a change was lost in one of the three known ways (`SettledIsCurrent`) |
| `leases` | `Leases.cfg` | holds | a single registration stands until its lease runs out or is given up by the etcd client (`RegistrationStands`); a crashed server's entry disappears (`CrashedDisappears`), unless `UpdateService` was called |
| `discovery` | `Discovery.cfg` | holds | however readers and watcher overwrite each other, `GetService` ends up with the latest list (`ServesLatest`); the watch goroutine ends and frees its consumer (`WatcherEnds`) |
| `balancer` | `LoadBalancer.cfg` | holds | once everything is quiet the balancer has the resolver's list, but for two ways of losing it (`Settled`); a refresh interval repairs it (`Repaired`); calls return, but for one caught between its two read locks (`CallsReturn`) |
| `algorithms` | `MCAlgorithms.cfg` | holds | each pure part against a reference definition on bounded inputs: `Routes`, `ABTests`, `FastestChosen`, `Waits`, `Rates`, `Averages`, `Answers`; and `BreakerBackoff`: each relapse lengthens the open period up to ten timeouts, while the product fits (`PeriodsGrowWhileTheyFit`), and after an outage periods start afresh (`OutageForgotten`) |

A property with an exception names it by the state that causes it, so that
nothing else can hide behind it: `lost` and `Wedged` in `LoadBalancer`,
`refreshed` and `again` in `Leases`, `missed` in `Subscriptions`, `late` in
`PooledCalls`, `Fits` in `BreakerBackoff`. Each of these is a real hazard of the
code and is described below.
An exception confines a hazard and does not catch it: `CallsReturn` and `Repaired`
say that the deadlock of `balancer.go:104` needs a call without failover,
`CrashedDisappears` that an entry left behind needs an `UpdateService`.

### Bounds

* `breaker`: two goroutines, two objects, threshold 2, limit 1, ratio 4/5. Two
  objects are enough for one that is in the map and one that is only pointed
  at; with a limit of 1 two goroutines pass the last slot together. The
  counters need no bound: a period ends before they grow further. The proofs
  below cover any number of goroutines and objects.
* `algorithms`, open periods: `Timeout` 2 ticks, `MaxDuration` 63. Nine
  relapses: the fifth reaches the cap of 20 ticks, the eighth outgrows
  `MaxDuration`, so the cap is checked against both values of the conversion.
* `failover`: two callers, the list `<a, b>` and the empty one, two retries, one
  fault, round robin: enough for a caller to fail on an instance, for one to mark
  what the other is about to select or to empty its list, and for the breaker to
  open, cool down and be probed. With one retry the retry limit would end every
  `Execute` that returns to an instance it has called. With a third list, `<b>`,
  the properties hold too (`ChangingService` in `MCFailoverHandler`), but the run
  takes over four minutes; the theorems cover any lists.
* `recovery`: one instance (entries of several share nothing but the loop), two
  starts of the check loop, thresholds 2, three pairs of detector and strategy.
  Counters saturate at their thresholds, which is all they are compared with.
* `pooled_calls`: three calls, two of them with deadlines and one
  `Client.Call`, two connections, one idle place, closing: a surplus connection is
  closed, connections are reused, and a late worker meets the next owner.
  `pooled_mispaired` needs one connection.
* `subscriptions`: two clients, two channels, two changes, one place per
  channel. Two channels are one that is being cleaned up and one made since;
  with one place (ten in the code) a second list already finds the channel full.
* `leases`: two `Register` calls in one life of the server or in two; each leaves
  a goroutine.
* `discovery`: two readers, two changes, a TTL of two ticks, one place in
  `eventChan` (ten in the code).
* `balancer`: one caller, one change: a list from before `Subscribe` or after it,
  and nil. One caller holds up the writer as well as two do, and it is the writer
  it can wait for. Two callers and two changes were run for `Settled` alone.
* `algorithms`: lists of up to five instances, up to two routers, selectors or
  options, up to three errors, eleven reports, three requests and a break at
  each part. `HalfRange` 2^20 ms lets an interval times a power overflow.

`Symmetry` permutes clients and channels in `subscriptions`, which has no
liveness property. `CHECK_DEADLOCK FALSE` is set where the system may stop: calls are finite
in number and a panic ends the process (`PooledCalls`, `Discovery`,
`Recovery`, `CircuitBreaker`, `FailoverHandler`), clients may be done and the
registry closed (`Subscriptions`),
two read locks and a writer may wait for each other (`LoadBalancer`), and a
sample is drawn once (`MCAlgorithms`).

### Fairness

Weak fairness of goroutines that have started an operation, of loops and their
tickers, and of the clock: Go's scheduler runs every runnable goroutine, an
`RWMutex` does not starve a waiting writer, `openUntil`, cache entries and leases
that nobody renews run out. In `FailoverHandler` and `LoadBalancer` an
operation that was started ends, as one of `CallWithTimeout` does; one of
`simpleClient.Call` need not (see below).
`RefreshList` is strongly fair: `ListServices` may fail, but not for ever.
`CheckLoopEnds` is strongly fair: a Go `select` with several ready cases
picks one at random, so a closed `stopCh` that is ready again and again is
picked at last, though the ticker is ready beside it. A panic ends the process,
and with it what fairness asks for. Nobody has to start a
call, publish, `Reset`, clean up, stop or close, with one exception: `BusySpec`
of `failover_reinstated` lets callers call for ever, to give the excluded
instance every chance. Of the server, of etcd's answers and of instances
nothing is assumed.

## The proofs

| module | theorems | assumptions |
|---|---|---|
| `CircuitBreakerProofs` | `TypeCorrect`, `BookkeepingHolds`, `NeverWedgedHolds`, `ClosedBelowThresholdHolds`, `OverrunBoundedHolds`, `CoolingIsKeptHolds`, `KeepsPromiseHolds` | finitely many goroutines; threshold and limit positive; ratio in (0, 1], as `config.go` enforces |
| `AlgorithmsProofs` | `RatesHold`, `AveragesHold`, `WaitsHold`, `RoutesHold`, `ABTestsHold`, `FastestChosenHolds`, `AnswersHold`; of `BreakerBackoff`: `OutageForgottenHolds`, `AheadHolds`, `PeriodsGrowWhileTheyFitHolds` | nil is no instance; `HalfRange`, where Durations wrap, is positive; ten timeouts of the breaker fit in a Duration |
| `FailoverHandlerProofs` | `AtMostOncePerInstanceHolds`, `ResultTruthfulHolds`, `ExclusionHasCauseHolds`, `SwitchesInstanceHolds`, `TypeCorrect` | lists are sequences of instances, empty ones too; thresholds positive; `SwitchesInstanceHolds` only: the policy retries on every error |
| `PooledCallsProofs` | `OwnershipHolds`, `ExclusiveUseHolds`, `NoConnectionLeakHolds`, `ExchangeHolds`, `PairedInTimeHolds`, `QuietInTimeHolds`, `KeepsPoolPromiseHolds` | names of calls, connections and results are distinct |
| `SubscriptionsProofs` | `SubscribedHolds`, `ClosedOnceHolds`, `ServedHolds`, `SettledIsCurrentHolds`, `OrderedHolds`, `InOrderHolds` | channels hold at least one list; nil is no client and no channel |
| `RecoveryProofs` | `AccountsHold`, `EntryIsThereHolds`, `HealthyIsEarnedHolds` | thresholds positive; nil is no instance and no entry |
| `LeasesProofs` | `RegistrationStandsHolds`, `KeyIsAttachedHolds`, `TheReasonStaysHolds` | none but that the bound on `Register` calls is a number |
| `LoadBalancerProofs` | `SettledHolds`, `ListsAreKnownHolds`, `NotWedgedWithFailoverHolds` | none but that the bound on changes is a number |

*The breaker is never wedged.* `NeverWedged` (a half-open breaker that has
counted a call has one still to report) is not inductive. `Bookkeeping` adds
that a counted call has not reported yet and, while its object is in the map,
will report to that object; that the number of counted calls is at most the
successes plus those under way; that a goroutine about to count still sees
the object half-open, because it holds the read lock; and that those goroutines
have read the counter below its limit, which bounds the overrun
(`OverrunBoundedHolds`, for any number of goroutines). A success that leaves
the breaker half-open leaves the rate below the ratio, so successes are fewer
than calls and some call is still under way.

*Refinement.* `Mode`, `VisibleErrors` and `entry` map every step to a step or a
stutter of `BreakerPromise`. Steps on objects outside the map stutter; this is
where late reports and late transitions are shown to be harmless.

*Cooling.* `CoolingIsKept` is an action property: of an object that waits, open
and not expired, only the waiting object itself may be replaced. Every write of
the breaker goes through one of three forms (installing a fresh object, fetching
a pointer, writing back an object), and a lemma per form shows that a waiting
object goes on waiting: a late `transitionToHalfOpen` looks at `openUntil` again
under the lock, a report leaves an open object open, and a fresh object only
takes the address of one nobody points at.

*Ahead.* That a relapse lengthens the period is not a fact about two states of
the breaker but about the factor and the period computed from its last value.
`Ahead` says that the period was computed from a factor at least 1.0 below the
present one; the product with the timeout then grows by a timeout at least
(`RaisedByOne`), truncation included, unless the cap makes it equal.

*Tracked and suspected.* The properties of `Execute` say what a result means
while other callers change the manager it selects from; the invariant makes no
assumption on what the manager hands out. `Tracked` keeps `tried`, `failed` and
`runs` in agreement at every stage: what is recorded as failed is what was
tried, less the instance in hand, and the instance in hand has not been run
before the operation runs on it. `SuspicionHasCause` covers the three views of
an instance (detector, breaker, rotation) together, because each is the reason
for the next: an open breaker makes `Execute` record a failure, and a recorded
failure takes the instance out of rotation when it is selected again.
`Persistent` adds that an `Execute` in a retry has an error of the handler's
own. The proof holds for all three strategies, any lists and any number of
callers, where the run has two callers and "next".

*Ownership.* Every dialled connection that is not closed is in the pool once or
held by one caller, and what is held or pooled was not closed by this side. It
is inductive for all steps, late calls and `Close` included.

*Exchange.* Until a call is late a worker never outlives its caller's wait, so
the only message on a connection in use belongs to the exchange of its one
call, and the connection is at rest when it changes hands. `late` never turns
back, so `~late => Exchange` is an invariant, and `PairedInTime` and
`QuietInTime` follow. Once a call is late the first part fails, and
`pooled_mispaired` shows the consequence.

*The pool's promise.* `PoolPromise` is what the calls may rely on: a call
borrows one connection once, dials only when none is idle, and gives it up
once; a connection is given up for good only when the pool is full, and no
closed one comes back. Steps of the workers, of the server and of the sockets
are stutters, `Timeout` and `Finish` too: a late call still holds its connection
until its `Put`. The mapping needs `Ownership` (what a call holds is not idle)
and `PoolFits` (the channel's length is the number of idle connections and
within its capacity).

*Subscribed.* `ClosedOnce` alone is not inductive: that the deferred function of
an old watch goroutine leaves a newer channel alone needs `LockHolder` (a
`Subscribe` between its list and its watch holds `r.mu`, and the channel it made
is in the map) and `Unmade` (a channel is made once, before its goroutine).
`SettledIsCurrent` needs `Progress`: what a goroutine has listed is not older
than the events that made it list, and what it has sent is not older than the
events it had seen when it waits again. The proof follows the goroutine once
round its loop, for any number of clients, channels and changes.

*Ordered.* `InOrder` (no subscriber goes back to an older list) speaks of what a
client has received, perhaps from several channels. `Ordered` gives the lists one
order: each buffer is sorted, what is coming on the open channel is not older
than anything buffered elsewhere (`OpenIsNewest`) nor than what anybody has, and
what waits for a client is not older than what it has (`HeldIsNewer`). The old
channel's goroutine cannot disturb it, because a closed channel takes no list.

*Earned health.* The strategies of the recovery manager decide on one state of
the detector and mark a success in a later step; in between a failure may have
been reported. `Owes` is that success on its way, and `CountIsCovered` says that
the successes counted for an unhealthy instance are covered by its good answers,
plus one that a strategy has added. The probing strategy needs a fact about its
window of results: one that convinces it ends with a good answer
(`ConvincingEndsWell`).

*The reason stays.* The keepalive goroutine of a `Register` deregisters when its
channel closes. For one of the three causes (`Over`: the lease has ended, the
client was closed, the context was cancelled) nothing ever turns back while the
process runs, so it still holds at `Revoke`; and with a single `Register` the
lease it finds is its own (`OnlyOne`). So it never gets past `Revoke` to the key.
`KeyIsAttached` needs no such restriction: it is why the key of a dead server
goes when its lease does.

*Following.* `Settled` speaks of moments at which nothing is under way.
`Following` says for every state where a list may be: about to be announced, in
the notification channel, with the writer that waits for the lock, or already
in the balancer, unless one of the two known steps has lost it. A notification
dropped because one waits is the case that makes it interesting: the token that
waits stands for the newer list too, since the receiver asks the resolver.

*Every input.* The run `algorithms` draws samples; each theorem about it says
the same of every input, and then that every sample is such an input
(`Samples => []...`). `RatesHold` and `AveragesHold` speak of any reports and any
window size, zero and negative ones included; `WaitsHold` of any list of options,
any context and any sequence of errors; `RoutesHold` and `ABTestsHold` of any
chain of the kinds of routers and selectors there are and any list;
`FastestChosenHolds` of any list whose latencies are integers and of any number
of tries; `AnswersHold` of any registrations whose methods return payloads or
errors, may panic or return what cannot be encoded, any requests, those without
metadata too, and a break anywhere. `ABTestsHold` assumes that no selector of the chain has the A/B
selector's own name, as `Select` of a chain that contained itself would not
return.

*Recursion.* The induction theorems of the library take an operator as a
parameter, which the provers here cannot instantiate. `Induction`,
`BoundedInduction` and `SequenceInduction` take a set instead and follow from the
well-founded order of the naturals by `WFMin`, which takes a set too. A recursive
function is a `CHOOSE`, so its equations hold only once some function satisfies
them: `HistoryExists` builds one for every step that stays in a set, and each
recursive definition has a lemma that applies it (`KeepHistory`, `ChainHistory`,
`SelectHistory`, `RateHistory`, `StatsHistory`, `LatencyHistory`, `PowerHistory`,
`RecoveryDelayDefined`, `WriteHistory`, `RegisterHistory`; for `ReadAll`,
`ReadWritten` gives the solution outright). From there on the proofs are inductive invariants of
the loops.

*Windows and averages.* `RateFacts` says that the counters are those of the
window that is kept (`errors` its failures, `streak` the failures at its end, the
window the last reports), which `FailuresAppend` and `FailuresTail` carry over a
report that pushes an old one out. `AverageMoves` is the arithmetic of
`avg += (d - avg) / n`, with Go's division, which truncates towards zero: the
new average is between the old one and the sample. `Extremes` then keeps it among
the samples, and `TotalBounds` does the same for the mean of a window.

*Waits.* `ConfigNumbers` is what the guards of the options are for: whatever was
given, in whatever order, limits are positive and the maximum not below the base.
A policy made of such a configuration is a `GoodPolicy`, with or without a
context around it. Its retries end with the attempts it allows (`RetriesEnd`) and
its waits are within their limits (`WaitWithin`); they grow while the product
fits a Duration (`ScaledGrows`), since once it fits it did so before
(`ProductFitsBefore`).

*Filters.* `Keep` is a filter: what it returns is what it was given, less the
rejected, in the same order (`KeepSet`), and two of them in a row are one with
both conditions (`KeepTwice`). `ChainIsFilter` carries that along a chain of
routers, for which the order then does not matter. `ABChainServes` follows a
chain of selectors up to the first that serves.

*Fastest.* `Sorted(list)` is every order by latency, since the code's sort leaves
equal ones in any order; it has each instance once (`SortedKeepsAll`). The
choice is the first enabled one among the first `retryTimes` (`LeastPosition`).
If there is none, these are disabled and as fast as any enabled instance, and
they are distinct, so there are `retryTimes` of them.

*Answers.* `Encoded`, `DecodedWhole`, `DecodedCut` and `DecodedPartly` say what
one message is on the wire: it is read as it was written when it is there, and
neither a message that is cut off nor one whose metadata could not be encoded is
taken for another. `Written` places each message where the ones before it
end (`Reach`), so reading what arrived returns the first messages up to the break
(`ReadWritten`); it is used twice, for the requests and for the answers, which
can always be encoded (`RequestIsAnswered`). `LastServes` says which registration
serves a name: the last that offers a method.

### Only model-checked

* Liveness: `ExhaustedDecides`, `OpenIsProbed`, `ExecuteReturns`,
  `CrashedDisappears`, `ServesLatest`, `WatcherEnds`, `Repaired`, `CallsReturn`,
  `EntriesLeave`, `ChecksEnd`. They rest on fairness and with it on `ENABLED`,
  which the prover does not support. What `Discovery` promises is all of this
  kind, so no theorem speaks of it. For `CrashedDisappears` and `CallsReturn` the
  safety half is proved (`KeyIsAttachedHolds`, `NotWedgedWithFailoverHolds`).
* Runs that expect a violation (`failover_reinstated`, `pooled_mispaired`,
  `recovery_unstable`) have nothing to prove.

Every other property of the passing runs, and so each of their invariants, is
stated by a theorem.

The proofs about the pure parts found two places in which an operator did not say
what the code does. Go's division truncates towards zero, and `-(-a \div b)`,
where the minus applies to the quotient, rounds down; no sample had told them
apart. And the window of the averages had no size for zero samples, for which the
code takes its default. Both are corrected.

## Observed

Failover:

* `backoffFactor` has no cap of its own, and the product with the timeout is
  converted to a Duration before the cap is applied (`breaker.go:230-234`). With a
  timeout of 30 s the product no longer fits after about 48 relapses, each
  capped at five minutes, so after some four hours of one outage. On amd64 the
  conversion then yields the most negative Duration, and the breaker is due at
  once after every failure until it is closed, against `breaker.go:221` "下次开路时间将变长"
  (the next open period will be longer). `PeriodsGrowWhileTheyFit` names the
  exception by `Fits(factor)`; without it TLC finds the eighth relapse of
  `BreakerBackoff` with a period of -64.
* `config.go:21` says of `HalfOpenMaxCalls` "半开状态下允许的最大调用次数" (the
  maximum number of calls allowed in the half-open state). `Allow` does not
  count the calls that find the open period expired (`breaker.go:124`), so more
  run; `OverrunBoundedHolds` bounds the counted ones.
* A goroutine that saw the open period expire is let through even when the
  breaker has meanwhile been probed and opened again (`breaker.go:124`), and a
  late success of an older call, or that of the probe, can close a half-open breaker
  while the call it has counted is under way (`breaker.go:160`). `failover.md:198`
  speaks of the success rate of the requests in the half-open state.
* Two services behind one handler share its instance list (`failover.go:197`):
  an operation can run on an instance of the other service.
* The default `RetryableErrors` (`config.go:50`) are spelled with underscores
  and compared with `strings.Contains`, so "connection refused", "service
  unavailable" and an open circuit are not retried by default; only timeouts
  are. The runs make all errors retryable.
* `ShouldRetry` asks for `attempt < MaxAttempts` (`retry.go:21`) and `Execute`
  asks before every attempt but the first, so `MaxRetries` n gives n - 1
  retries.
* `ExponentialBackoffRetryPolicy` truncates the power of the multiplier to an
  integer (`retry.go:100`): a multiplier of 1.5 leaves the first wait at the
  bare interval. An interval times a large power overflows before the
  limit is applied; `Waits` speaks of the products that fit.
* The recovery loop drops an instance when its strategy returned no error
  `RecoveryThreshold` times (`recovery.go:131`), and a strategy returns none
  for an instance whose record says unhealthy (`detector.go`, `Detect`): such an
  instance leaves the list while it is still marked unhealthy and may be down
  (`recovery_unstable`). `EntriesLeave` does not speak of such an instance.
* The check loop of `HealthCheckDetector` cannot be restarted (`detector.go:274`):
  the second loop ends at once, while `running` (line 237, "是否正在运行", whether it
  is running) stays true.
* `Execute` with a cancelled context and an empty list indexes `instances[0]`
  (`failover.go:191`) and panics; with an empty list alone it returns an error after
  it has emptied the list other calls select from (`failover.go:197`).
* `SimpleInstanceMonitor` divides by all requests, failures included, so its
  average response time moves less than a mean (`metrics.go`).

Calls:

* `Put` after the pool was closed sends on a closed channel (`pool.go:43`);
  the model has it as `PutPanics`, which ends the behaviour.
* `simpleClient.Call` derives a context with a timeout and then calls
  `Client.Call`, which ignores it (`api/client.go:93`), although line 78 says
  "添加超时" (add the timeout): a server that does not answer keeps the caller for
  ever. The dial in `Get` has no deadline either.
* `CallWithFailover` executes the operation once inside `Execute`, dials the
  chosen instance again after its success and calls a second time
  (`rpc/client.go`).
* The protobuf codec refuses metadata (a map), which every request carries, so
  a request with the protobuf serializer always fails, after its fixed header
  has been written (`protocol.go:52`); the server's connection ends there.

Registry, discovery, balancing:

* The keepalive goroutine deregisters by service key when its lease ends
  (`registry.go:104`): after a second `Register` it revokes the lease of the
  newer registration. `RegistrationStands` excludes this by `again`.
  The goroutine also deregisters when the etcd client gives up a lease that is
  still alive; `RegistrationStands` names that by the goroutine's state "late".
* `UpdateService`, which the example server calls as its heartbeat, puts the key
  without a lease (`registry.go:333`); after that the entry outlives the server.
* A change between `Subscribe`'s list and its watch (`registry.go:155-179`), or
  one whose list finds the channel full, is announced to nobody until the next
  change, although `service registry&discovery.md:232` says subscribers are
  notified when instances change.
* All subscribers of a service share one channel, so each list reaches one of
  them, and the `Unsubscribe` of one ends the subscription of all, even of one
  made after it looked (`registry.go:285`). `Resolver.watch`
  (`resolver.go:68`) then reads nil from the closed channel for ever, and the
  balancer's list becomes empty.
* A watcher that receives a list after `Discovery.Close` writes to a nil map
  (`discovery.go:230`), which panics.
* `SelectWithFailover` without failover takes `lb.mu` for reading twice
  (`balancer.go:104`, 145); an update waiting in between blocks it, the update and
  all later calls for ever. `Wedged` names this state.
* `NewResolver` lists the instances and subscribes afterwards: a change in between
  is not sent (`resolver.go:43-50`). A second `Close` of a `LoadBalancer` or a breaker
  closes a closed channel and panics.
* A request without metadata makes the server read a field of a nil pointer
  (`server.go:84`), in a goroutine that does not recover; so does a method that
  panics. `Panics` ends the exchange there.
* `ABGroupSelector`'s ratio is only compared with one half
  (`selector/group.go`); a `label` group without labels matches every
  instance, and the default configuration (`group/config.go:53`, an exact match
  of an empty key) matches none.
* `ChainBuilder.Build` hands its own slice to the chain (`chain.go:131`), so
  `Remove` on one built chain shifts the elements of another.
* `NewCommonConfig` copies `*DefaultCommonConfig` with its `Metadata` map
  (`config/common.go:194`), so `WithMetadata` changes the default of everybody.

## Not modelled

* `registry/etcd/watch.go`: a second watcher that nothing in the library uses.
* `CallWithFailover` and the load-balanced path of the proxy: sequential
  compositions of operations modelled in `FailoverHandler`, `LoadBalancer` and
  `PooledCalls`, each with a connection of its own.
* `api/server.go`, `api/service.go`, `Start` and `Stop` of the RPC server: they
  open and close listeners and call `Register` and `Deregister` once.
* `failover/metric_integration.go`, `discovery/metrics`: they only record.
* `config/client.go`, `common.go`, `server.go`, logging: plain setters.
* `UpdateInstances`, `GetStats` and the getters of `LoadBalancer`, `UpdateConfig`
  of the failover handler: single critical sections that no run needs.
* The strategies "random" and "best" of the instance manager are in
  `FailoverHandler` and its proofs; the run has "next".
* Byte layouts, JSON text, address and tag strings: represented by values.
* Examples, mocks and generated code: not part of the library.

## Plan

1. An abstract specification of a subscriber's view (a list is some earlier
   state of the registry, in order, and finally the last) that `Subscriptions`,
   `Discovery` and `LoadBalancer` implement; `Ordered` and `ListsAreKnown` are the
   invariants the refinement needs.
2. An abstract specification of `Execute` (some instances are tried once each,
   and the last one answers or all are reported) that `FailoverHandler`
   implements; `Tracked` is the invariant.
3. Safety invariants of `Discovery`'s cache (an entry is as old as it says) with
   their proof, which `ServesLatest` rests on.
