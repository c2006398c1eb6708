---------------------------- MODULE LoadBalancer ----------------------------
(***************************************************************************)
(* src/discovery/resolver.go, balancer.go and balancer/fastest.go.         *)
(*                                                                         *)
(* A Resolver copies the lists the registry sends (and, with               *)
(* WithRefreshInterval, lists it fetches itself) and notifies a            *)
(* LoadBalancer, which resolves again and passes the list on to the        *)
(* FastestBalancer it selects from.  The FastestBalancer has a goroutine   *)
(* of its own that re-reads its list to refresh latencies.                 *)
(*                                                                         *)
(* A list is its version: the number of changes of the service it shows,   *)
(* or Nil.  What Select makes of a list is in Selection.  lb.mu is a Go    *)
(* RWMutex: a waiting writer keeps new readers out.                        *)
(***************************************************************************)
EXTENDS Integers, Sequences

CONSTANTS Callers, MaxRev

ASSUME LoadBalancerAssumption == MaxRev \in Nat

\* The nil list a closed channel yields.
Nil == -1

VARIABLES
    rev,        \* version of the service in the registry
    chan,       \* lists sent on the channel of Subscribe and not yet received
    chanClosed, \* that channel is closed
    refresh,    \* WithRefreshInterval was given
    instances,  \* Resolver.instances
    done,       \* Resolver.done is closed
    watch,      \* NewResolver, then the goroutine of Resolver.watch
    refresher,  \* the goroutine of WithRefreshInterval
    failover,   \* enableFailover
    token,      \* a notification waits in updateChan
    watching,   \* updateChan is one of Resolver.notify
    lb,         \* how far NewLoadBalancer is; "panicked" after a second Close
    closed,     \* LoadBalancer.closed is closed
    updates,    \* the goroutine of watchUpdates
    fastest,    \* FastestBalancer.instances
    loop,       \* the goroutine of FastestBalancer.updateLoop
    callers,    \* caller -> where its SelectWithFailover is
    lost        \* history: the balancer's list has been left behind, see Settled

resolverVars == <<instances, done, watch, refresher, token, watching>>
registryVars == <<rev, chan, chanClosed>>
configVars == <<refresh, failover>>
vars == <<registryVars, configVars, resolverVars, lb, closed, updates, fastest, loop,
          callers, lost>>

\* A goroutine between two steps, and the list it carries.
At(pc, list) == [pc |-> pc, list |-> list]
Idle == At("select", Nil)

Init ==
    /\ rev = 0
    /\ chan = <<>>
    /\ chanClosed = FALSE
    /\ refresh \in BOOLEAN
    /\ instances = Nil
    /\ done = FALSE
    /\ watch = At("list", Nil)
    /\ refresher = IF refresh THEN Idle ELSE At("ended", Nil)
    /\ failover \in BOOLEAN
    /\ token = FALSE
    /\ watching = FALSE
    /\ lb = "resolve"
    /\ closed = FALSE
    /\ updates = Idle
    /\ fastest = Nil
    /\ loop = Idle
    /\ callers = [c \in Callers |-> "idle"]
    /\ lost = FALSE

-----------------------------------------------------------------------------
(***************************************************************************)
(* The registry: Subscriptions shows how a list can fail to be sent; here  *)
(* each one is, from Subscribe until another subscriber's Unsubscribe      *)
(* closes the channel.                                                     *)
(***************************************************************************)
Subscribed == watch.pc \notin {"list", "store", "subscribe"}

Publish ==
    /\ rev < MaxRev
    /\ rev' = rev + 1
    /\ chan' = IF Subscribed /\ ~chanClosed THEN Append(chan, rev') ELSE chan
    /\ UNCHANGED <<chanClosed, configVars, resolverVars, lb, closed, updates, fastest,
                   loop, callers, lost>>

ChannelCloses ==
    /\ Subscribed /\ ~chanClosed
    /\ chanClosed' = TRUE
    /\ UNCHANGED <<rev, chan, configVars, resolverVars, lb, closed, updates, fastest,
                   loop, callers, lost>>

-----------------------------------------------------------------------------
(***************************************************************************)
(* Resolver                                                                *)
(***************************************************************************)
\* NewResolver: ListServices, the list is stored, Subscribe.  A change in between
\* is not sent, and the refresher runs already.  (An error of either request
\* leaves no resolver.)
NewList ==
    /\ watch.pc = "list"
    /\ watch' = At("store", rev)
    /\ UNCHANGED <<registryVars, configVars, instances, done, refresher, token, watching,
                   lb, closed, updates, fastest, loop, callers, lost>>

NewStore ==
    /\ watch.pc = "store"
    /\ instances' = watch.list
    /\ watch' = At("subscribe", Nil)
    /\ UNCHANGED <<registryVars, configVars, done, refresher, token, watching, lb, closed,
                   updates, fastest, loop, callers, lost>>

NewSubscribe ==
    /\ watch.pc = "subscribe"
    /\ watch' = Idle
    /\ UNCHANGED <<registryVars, configVars, instances, done, refresher, token, watching,
                   lb, closed, updates, fastest, loop, callers, lost>>

WatchReceive ==
    /\ watch.pc = "select"
    /\ \/ chan # <<>> /\ instances' = Head(chan) /\ chan' = Tail(chan)
       \/ chan = <<>> /\ chanClosed /\ instances' = Nil /\ UNCHANGED chan
    /\ watch' = At("notify", Nil)
    /\ UNCHANGED <<rev, chanClosed, configVars, done, refresher, token, watching, lb,
                   closed, updates, fastest, loop, callers, lost>>

\* Mutant: an unbuffered channel only takes what watchUpdates is waiting for.
NotifiedUnbuffered == token \/ (watching /\ updates.pc = "select")

\* notifyUpdate sends without blocking on a channel that holds one notification.
Notified == token \/ watching

WatchNotify ==
    /\ watch.pc = "notify"
    /\ watch' = Idle
    /\ token' = Notified
    /\ UNCHANGED <<registryVars, configVars, instances, done, refresher, watching, lb,
                   closed, updates, fastest, loop, callers, lost>>

RefreshTo(where) ==
    /\ refresher' = where
    /\ UNCHANGED <<registryVars, configVars, instances, done, watch, token, watching,
                   lb, closed, updates, fastest, loop, callers, lost>>

RefreshTick == refresher.pc = "select" /\ RefreshTo(At("list", Nil))

RefreshList == refresher.pc = "list" /\ RefreshTo(At("store", rev))

\* ListServices fails: the next tick is waited for.
RefreshFails == refresher.pc = "list" /\ RefreshTo(Idle)

RefreshStore ==
    /\ refresher.pc = "store"
    /\ instances' = refresher.list
    /\ refresher' = At("notify", Nil)
    /\ UNCHANGED <<registryVars, configVars, done, watch, token, watching, lb, closed,
                   updates, fastest, loop, callers, lost>>

\* Mutant: the refreshed list is stored and nobody is told.
RefreshSilent ==
    /\ refresher.pc = "notify"
    /\ refresher' = Idle
    /\ UNCHANGED <<registryVars, configVars, instances, done, watch, token, watching,
                   lb, closed, updates, fastest, loop, callers, lost>>

RefreshNotify ==
    /\ refresher.pc = "notify"
    /\ refresher' = Idle
    /\ token' = Notified
    /\ UNCHANGED <<registryVars, configVars, instances, done, watch, watching, lb,
                   closed, updates, fastest, loop, callers, lost>>

\* Both goroutines end when they find done closed in their select.
ResolverEnds ==
    /\ done
    /\ \/ watch.pc = "select" /\ watch' = At("ended", Nil) /\ UNCHANGED refresher
       \/ refresher.pc = "select" /\ refresher' = At("ended", Nil) /\ UNCHANGED watch
    /\ UNCHANGED <<registryVars, configVars, instances, done, token, watching, lb,
                   closed, updates, fastest, loop, callers, lost>>

-----------------------------------------------------------------------------
(***************************************************************************)
(* NewLoadBalancer: Resolve, Initialize, Watch, in steps of their own.     *)
(***************************************************************************)
NewResolve ==
    /\ lb = "resolve"
    /\ Subscribed
    /\ lb' = "watch"
    /\ fastest' = instances
    /\ UNCHANGED <<registryVars, configVars, resolverVars, closed, updates, loop,
                   callers, lost>>

NewWatch ==
    /\ lb = "watch"
    /\ lb' = "running"
    /\ watching' = TRUE
    /\ lost' = (lost \/ instances # fastest)
    /\ UNCHANGED <<registryVars, configVars, instances, done, watch, refresher, token,
                   closed, updates, fastest, loop, callers>>

(***************************************************************************)
(* watchUpdates, the one goroutine that writes under lb.mu.                *)
(***************************************************************************)
\* A notification: Resolve, and Lock, from where on new readers wait.
UpdateResolve ==
    /\ lb = "running"
    /\ updates.pc = "select"
    /\ token \/ ~watching  \* Close has closed updateChan
    /\ token' = FALSE
    /\ updates' = At("locking", instances)
    /\ UNCHANGED <<registryVars, configVars, instances, done, watch, refresher,
                   watching, lb, closed, fastest, loop, callers, lost>>

Readers == {c \in Callers : callers[c] # "idle"}

Update ==
    /\ updates.pc = "locking"
    /\ Readers = {}
    /\ fastest' = updates.list
    /\ lost' = FALSE
    /\ updates' = Idle
    /\ UNCHANGED <<registryVars, configVars, resolverVars, lb, closed, loop, callers>>

UpdatesEnd ==
    /\ closed
    /\ updates.pc = "select"
    /\ updates' = At("ended", Nil)
    /\ UNCHANGED <<registryVars, configVars, resolverVars, lb, closed, fastest, loop,
                   callers, lost>>

\* Close: the load balancer's channel first; a second Close closes it again, and the
\* panic ends the process.
Close ==
    /\ lb = "running"
    /\ closed' = TRUE
    /\ lb' = IF closed THEN "panicked" ELSE lb
    /\ UNCHANGED <<registryVars, configVars, resolverVars, updates, fastest, loop, callers,
                   lost>>

\* Resolver.Close: done, which both of its goroutines look at.
CloseResolver ==
    /\ closed /\ ~done
    /\ done' = TRUE
    /\ UNCHANGED <<registryVars, configVars, instances, watch, refresher, token, watching,
                   lb, closed, updates, fastest, loop, callers, lost>>

\* Then updateChan and Unsubscribe, which closes the channel unless it fails.  The
\* resolver's mutex is held all along, and whoever notices waits for it.
CloseChannels ==
    /\ done /\ watching
    /\ watching' = FALSE
    /\ chanClosed' \in {chanClosed, TRUE}
    /\ UNCHANGED <<rev, chan, configVars, instances, done, watch, refresher, token, lb,
                   closed, updates, fastest, loop, callers, lost>>

-----------------------------------------------------------------------------
(***************************************************************************)
(* FastestBalancer.updateLoop: it copies the list under b.mu, asks for the *)
(* latencies without it and stores the list again, also without it.        *)
(***************************************************************************)
LoopRead ==
    /\ loop.pc = "select"
    /\ loop' = At("store", fastest)
    /\ UNCHANGED <<registryVars, configVars, resolverVars, lb, closed, updates, fastest,
                   callers, lost>>

LoopStore ==
    /\ loop.pc = "store"
    /\ loop' = Idle
    /\ fastest' = loop.list
    /\ lost' = (lost \/ loop.list # fastest)
    /\ UNCHANGED <<registryVars, configVars, resolverVars, lb, closed, updates, callers>>

-----------------------------------------------------------------------------
(***************************************************************************)
(* SelectWithFailover.  The read lock is held until it returns; without    *)
(* failover, Feedback takes it a second time.                              *)
(***************************************************************************)
CanRLock == updates.pc # "locking"

SetCaller(c, pc) ==
    /\ callers' = [callers EXCEPT ![c] = pc]
    /\ UNCHANGED <<registryVars, configVars, resolverVars, lb, closed, updates, fastest,
                   loop, lost>>

Enter(c) ==
    /\ lb = "running"
    /\ callers[c] = "idle"
    /\ CanRLock
    /\ SetCaller(c, "operation")

\* Mutant: every call reports through Feedback.
AfterOperationReports == "feedback"

\* Where a call goes from its operation: Execute's result is given to the
\* balancer itself, a plain call's to Feedback.
AfterOperation == IF failover THEN "idle" ELSE "feedback"

Operate(c) ==
    /\ callers[c] = "operation"
    /\ SetCaller(c, AfterOperation)

\* Select found no instance: the call returns at once.
SelectFails(c) ==
    /\ callers[c] = "operation"
    /\ SetCaller(c, "idle")

Feedback(c) ==
    /\ callers[c] = "feedback"
    /\ CanRLock
    /\ SetCaller(c, "idle")

-----------------------------------------------------------------------------
CallerStep(c) == Operate(c) \/ SelectFails(c) \/ Feedback(c)
WatchStep == WatchReceive \/ WatchNotify
NewStep == NewList \/ NewStore \/ NewSubscribe \/ NewResolve \/ NewWatch
RefreshStep == RefreshTick \/ RefreshList \/ RefreshFails \/ RefreshStore \/ RefreshNotify
CloseStep == Close \/ CloseResolver \/ CloseChannels
UpdateStep == UpdateResolve \/ Update
LoopStep == LoopRead \/ LoopStore

Alive == lb # "panicked"

Next ==
    /\ Alive
    /\ \/ Publish \/ ChannelCloses \/ CloseStep
       \/ NewStep \/ WatchStep \/ RefreshStep \/ ResolverEnds
       \/ UpdateStep \/ UpdatesEnd
       \/ LoopStep
       \/ \E c \in Callers : Enter(c) \/ CallerStep(c)

Spec == Init /\ [][Next]_vars

(***************************************************************************)
(* The goroutines are scheduled, an operation ends, ListServices does not  *)
(* fail for ever, and a writer that waits keeps readers out, so that it    *)
(* gets its turn.  Nobody has to call.                                     *)
(***************************************************************************)
Fairness ==
    /\ WF_vars(Alive /\ NewStep)
    /\ WF_vars(Alive /\ WatchStep)
    /\ WF_vars(Alive /\ RefreshStep) /\ SF_vars(Alive /\ RefreshList)
    /\ WF_vars(Alive /\ UpdateStep)
    /\ WF_vars(Alive /\ LoopStep)
    /\ \A c \in Callers : WF_vars(Alive /\ CallerStep(c))

FairSpec == Spec /\ Fairness

-----------------------------------------------------------------------------
(***************************************************************************)
(* Properties                                                              *)
(***************************************************************************)
\* Nothing is on its way from the resolver to the balancer.
Quiet ==
    /\ lb = "running"
    /\ ~token
    /\ updates.pc = "select"
    /\ watch.pc = "select"
    /\ refresher.pc # "notify"

\* balancer.go:162-185 with resolver.go:118-129, which drops a notification when one
\* is waiting: once everything is quiet the balancer selects from the resolver's
\* list.  It is left behind in two ways only: a change between Resolve and Watch
\* in NewLoadBalancer, and updateLoop storing the list it read before an Update.
Settled == Quiet /\ ~closed => fastest = instances \/ lost

\* balancer.go:104 and 145: the caller that takes the read lock twice waits for the
\* writer, and the writer for the caller.
Wedged ==
    /\ updates.pc = "locking"
    /\ \E c \in Callers : callers[c] = "feedback"

\* resolver.go:143-165: with a refresh interval the balancer always comes back to the
\* latest list, whatever was lost before, unless the load balancer is closed or
\* wedged or another subscriber closes the channel, which then yields nil lists.
Repaired ==
    refresh => []<>(fastest = rev \/ closed \/ chanClosed \/ (~failover /\ Wedged))

\* balancer.go:103-141: every SelectWithFailover returns; only one without failover
\* can be caught between its two read locks by watchUpdates.  (A second Close ends
\* the process.)
CallsReturn ==
    \A c \in Callers :
        callers[c] # "idle" ~> callers[c] = "idle" \/ (~failover /\ Wedged) \/ ~Alive

=============================================================================
