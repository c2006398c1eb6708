----------------------------- MODULE Discovery -----------------------------
(***************************************************************************)
(* src/discovery/discovery.go: DefaultDiscovery with its cache, the        *)
(* goroutine behind one Watch, and the consumer that calls Next.           *)
(*                                                                         *)
(* One service.  A list is its version: the number of changes it shows.    *)
(* GetService looks at the cache, asks the registry without a lock and     *)
(* stores the answer; watcher and cleaner write the same entry.            *)
(***************************************************************************)
EXTENDS Integers, Sequences

CONSTANTS Callers,   \* goroutines that call GetService
          MaxRev,    \* bound on the changes of the service
          TTL,       \* cacheTTL in ticks
          Capacity   \* of eventChan (10 in the code)

ASSUME DiscoveryAssumption ==
    MaxRev \in Nat /\ TTL \in Nat \ {0} /\ Capacity \in Nat \ {0}

VARIABLES
    rev,         \* version of the service in the registry
    watchChan,   \* lists sent on the channel of Subscribe and not yet received
    unsubscribed,\* that channel is closed
    cache,       \* the entry of the service: [list, age], or Missing
    closed,      \* Close was called; the map is nil
    get,         \* caller -> where its GetService is, and the list it carries
    watcher,     \* the goroutine of Watch, and the list it carries
    stopped,     \* defaultWatcher.stopped
    stopChan,    \* stopChan is closed
    eventChan,   \* lists for Next
    eventClosed, \* eventChan is closed
    next,        \* a consumer is inside Next
    panicked     \* updateCache wrote to the nil map

watchVars == <<watcher, stopped, stopChan, eventChan, eventClosed, next>>
vars == <<rev, watchChan, unsubscribed, cache, closed, get, watchVars, panicked>>

Missing == [list |-> -1, age |-> TTL + 1]
Now(list) == [list |-> list, age |-> 0]
At(pc, list) == [pc |-> pc, list |-> list]
Idle == At("idle", -1)

Fresh(entry) == entry.age < TTL

Init ==
    /\ rev = 0
    /\ watchChan = <<>>
    /\ unsubscribed = FALSE
    /\ cache = Missing
    /\ closed = FALSE
    /\ get = [c \in Callers |-> Idle]
    /\ watcher = Idle
    /\ stopped = FALSE
    /\ stopChan = FALSE
    /\ eventChan = <<>>
    /\ eventClosed = FALSE
    /\ next = FALSE
    /\ panicked = FALSE

-----------------------------------------------------------------------------
(***************************************************************************)
(* The registry and the clock.                                             *)
(***************************************************************************)
Publish ==
    /\ rev < MaxRev
    /\ rev' = rev + 1
    /\ watchChan' = IF unsubscribed THEN watchChan ELSE Append(watchChan, rev')
    /\ UNCHANGED <<unsubscribed, cache, closed, get, watchVars, panicked>>

ChannelCloses ==
    /\ ~unsubscribed
    /\ unsubscribed' = TRUE
    /\ UNCHANGED <<rev, watchChan, cache, closed, get, watchVars, panicked>>

Tick ==
    /\ cache.age <= TTL
    /\ cache' = [cache EXCEPT !.age = @ + 1]
    /\ UNCHANGED <<rev, watchChan, unsubscribed, closed, get, watchVars, panicked>>

-----------------------------------------------------------------------------
(***************************************************************************)
(* GetService                                                              *)
(***************************************************************************)
SetGet(c, state) ==
    /\ get' = [get EXCEPT ![c] = state]
    /\ UNCHANGED <<rev, watchChan, unsubscribed, closed, watchVars, panicked>>

\* Mutant: a hit makes the entry young again.
HitSlides(c) ==
    /\ get[c].pc = "idle"
    /\ ~closed
    /\ Fresh(cache)
    /\ cache' = Now(cache.list)
    /\ UNCHANGED <<rev, watchChan, unsubscribed, closed, get, watchVars, panicked>>

\* A fresh entry is the answer.
Hit(c) ==
    /\ get[c].pc = "idle"
    /\ ~closed
    /\ Fresh(cache)
    /\ UNCHANGED vars

Miss(c) ==
    /\ get[c].pc = "idle"
    /\ ~closed
    /\ ~Fresh(cache)
    /\ SetGet(c, At("list", -1))
    /\ UNCHANGED cache

\* ListServices; on an error GetService returns it.
List(c) ==
    /\ get[c].pc = "list"
    /\ SetGet(c, At("store", rev)) \/ SetGet(c, Idle)
    /\ UNCHANGED cache

Store(c) ==
    /\ get[c].pc = "store"
    /\ SetGet(c, Idle)
    /\ cache' = IF closed THEN cache ELSE Now(get[c].list)

CleanCache ==
    /\ ~closed
    /\ cache.age > TTL
    /\ cache' = Missing
    /\ UNCHANGED <<rev, watchChan, unsubscribed, closed, get, watchVars, panicked>>

Close ==
    /\ ~closed
    /\ closed' = TRUE
    /\ cache' = Missing
    /\ UNCHANGED <<rev, watchChan, unsubscribed, get, watchVars, panicked>>

-----------------------------------------------------------------------------
(***************************************************************************)
(* Watch: the goroutine, and the consumer's Next and Stop.                 *)
(***************************************************************************)
\* Mutant: the deferred function leaves the channel open.
ExitQuietly ==
    /\ watcher' = At("ended", -1)
    /\ stopped' = TRUE
    /\ UNCHANGED eventClosed

\* The goroutine's deferred function: whoever sets stopped first decides whether
\* eventChan is closed.
Exit ==
    /\ watcher' = At("ended", -1)
    /\ stopped' = TRUE
    /\ eventClosed' = (eventClosed \/ ~stopped)

WatchExit ==
    /\ watcher.pc = "idle"
    /\ stopChan \/ (unsubscribed /\ watchChan = <<>>)
    /\ Exit
    /\ UNCHANGED <<rev, watchChan, unsubscribed, cache, closed, get, stopChan,
                   eventChan, next, panicked>>

WatchReceive ==
    /\ watcher.pc = "idle"
    /\ watchChan # <<>>
    /\ watchChan' = Tail(watchChan)
    /\ IF stopped THEN Exit
       ELSE watcher' = At("update", Head(watchChan)) /\ UNCHANGED <<stopped, eventClosed>>
    /\ UNCHANGED <<rev, unsubscribed, cache, closed, get, stopChan, eventChan, next,
                   panicked>>

\* updateCache does not look at closed: the map is nil then.
UpdateCache ==
    /\ watcher.pc = "update"
    /\ panicked' = closed
    /\ cache' = IF closed THEN cache ELSE Now(watcher.list)
    /\ watcher' = [watcher EXCEPT !.pc = "send"]
    /\ UNCHANGED <<rev, watchChan, unsubscribed, closed, get, stopped, stopChan,
                   eventChan, eventClosed, next>>

\* The list is dropped when the channel is full.
WatchSend ==
    /\ watcher.pc = "send"
    /\ \/ /\ Len(eventChan) < Capacity
          /\ eventChan' = Append(eventChan, watcher.list)
          /\ watcher' = Idle
          /\ UNCHANGED <<stopped, eventClosed>>
       \/ stopChan /\ Exit /\ UNCHANGED eventChan
       \/ /\ Len(eventChan) = Capacity /\ ~stopChan
          /\ watcher' = Idle
          /\ UNCHANGED <<stopped, eventClosed, eventChan>>
    /\ UNCHANGED <<rev, watchChan, unsubscribed, cache, closed, get, stopChan, next,
                   panicked>>

CallNext ==
    /\ ~next
    /\ next' = TRUE
    /\ UNCHANGED <<rev, watchChan, unsubscribed, cache, closed, get, watcher, stopped,
                   stopChan, eventChan, eventClosed, panicked>>

NextReturns ==
    /\ next
    /\ next' = FALSE
    /\ \/ eventChan # <<>> /\ eventChan' = Tail(eventChan)
       \/ (stopChan \/ (eventClosed /\ eventChan = <<>>)) /\ UNCHANGED eventChan
    /\ UNCHANGED <<rev, watchChan, unsubscribed, cache, closed, get, watcher, stopped,
                   stopChan, eventClosed, panicked>>

Stop ==
    /\ ~stopped
    /\ stopped' = TRUE
    /\ stopChan' = TRUE
    /\ UNCHANGED <<rev, watchChan, unsubscribed, cache, closed, get, watcher, eventChan,
                   eventClosed, next, panicked>>

-----------------------------------------------------------------------------
GetStep(c) == List(c) \/ Store(c)
WatchStep == WatchExit \/ WatchReceive \/ UpdateCache \/ WatchSend

Next ==
    /\ ~panicked
    /\ \/ Publish \/ ChannelCloses \/ Tick
       \/ \E c \in Callers : Hit(c) \/ Miss(c) \/ GetStep(c)
       \/ CleanCache \/ Close
       \/ WatchStep
       \/ CallNext \/ NextReturns \/ Stop

Spec == Init /\ [][Next]_vars

(***************************************************************************)
(* Time passes, the watch goroutine runs, and so do a GetService and a     *)
(* Next that were begun.  Nobody has to call, publish, stop or close.      *)
(***************************************************************************)
Fairness ==
    /\ WF_vars(~panicked /\ Tick)
    /\ WF_vars(~panicked /\ WatchStep)
    /\ WF_vars(~panicked /\ NextReturns)
    /\ \A c \in Callers : WF_vars(~panicked /\ GetStep(c))

FairSpec == Spec /\ Fairness

-----------------------------------------------------------------------------
(***************************************************************************)
(* Properties                                                              *)
(***************************************************************************)
\* discovery.go:84-115 and 219-237: GetService and the watcher overwrite each
\* other's entry, and the older list may win.  It does not win for good: once the
\* service no longer changes there comes a time from which GetService answers
\* with the latest list only, from a fresh entry or from the registry.
ServesLatest ==
    <>[](/\ Fresh(cache) => cache.list = rev
         /\ \A c \in Callers : get[c].pc = "store" => get[c].list = rev)
    \/ <>(closed \/ panicked)

\* discovery.go:138-178 and 251-274: when the watcher is stopped or the registry closes
\* the channel the goroutine ends and a consumer in Next gets its answer, whoever
\* sets stopped first and however full eventChan is.
WatcherEnds ==
    stopped \/ unsubscribed ~> panicked \/ (watcher.pc = "ended" /\ ~next)

=============================================================================
