--------------------------- MODULE Subscriptions ---------------------------
(***************************************************************************)
(* The subscriptions of EtcdRegistry (registry/etcd/registry.go) to one    *)
(* service and version: Subscribe, the watch goroutine it starts,          *)
(* Unsubscribe and Close, with clients that use them the way a Resolver    *)
(* (discovery/resolver.go) does: subscribe, read the channel, unsubscribe. *)
(*                                                                         *)
(* r.watchers holds one channel per service and version, shared by every   *)
(* subscriber.  The channel is closed by whoever takes it out of the map,  *)
(* under r.mu, while the watch goroutine sends to it holding no lock.  The *)
(* sync.Map r.leases holds the goroutine's cancel function and is not      *)
(* protected by r.mu.                                                      *)
(*                                                                         *)
(* A list of instances is known by the revision of etcd it was read at.    *)
(* A Subscribe whose ListServices fails undoes its changes before it       *)
(* unlocks, so it is no step of the model.                                 *)
(***************************************************************************)
EXTENDS Integers, Sequences, FiniteSets

CONSTANTS
    Clients,    \* goroutines that subscribe and unsubscribe
    Chans,      \* channels that Subscribe can make
    None,       \* nil
    Capacity,   \* of a subscriber's channel (10 in the code)
    MaxRev      \* bound: changes of the service in etcd

ASSUME NoneIsNew == None \notin Clients \cup Chans
ASSUME CapacityPositive == Capacity \in Nat \ {0}
ASSUME MaxRevNat == MaxRev \in Nat

VARIABLES
    rev,        \* etcd: revision of the service's keys
    registry,   \* "open", "closing" (watchers closed), "closed" (client, too)
    mu,         \* the client that holds r.mu across two steps
    current,    \* r.watchers[service][version]
    handle,     \* r.leases[service/version]: whose cancel function it is
    state,      \* each channel: "new", "open", "closed", "panic"
    buf,        \* the lists buffered in it
    cancelled,  \* is its watchCtx cancelled?
    watch,      \* where its watch goroutine is
    seen,       \* the revision up to which its watch has delivered events
    listed,     \* the goroutine's (or Subscribe's) variable `instances', 0 when
                \*   it is out of scope
    client,     \* where each client is
    held,       \* the channel it reads
    got,        \* the last list it received
    sent,       \* ghost: the last list put into the channel
    missed      \* ghost: a change was not announced on the channel

vars == <<rev, registry, mu, current, handle, state, buf, cancelled, watch, seen,
          listed, client, held, got, sent, missed>>

channels == <<state, buf, sent>>
goroutines == <<watch, seen, listed, missed>>
clients == <<client, held, got>>

Init ==
    /\ rev = 0
    /\ registry = "open"
    /\ mu = None
    /\ current = None
    /\ handle = None
    /\ state = [c \in Chans |-> "new"]
    /\ buf = [c \in Chans |-> <<>>]
    /\ cancelled = [c \in Chans |-> FALSE]
    /\ watch = [c \in Chans |-> "none"]
    /\ seen = [c \in Chans |-> 0]
    /\ listed = [c \in Chans |-> 0]
    /\ client = [k \in Clients |-> "idle"]
    /\ held = [k \in Clients |-> None]
    /\ got = [k \in Clients |-> 0]
    /\ sent = [c \in Chans |-> 0]
    /\ missed = [c \in Chans |-> FALSE]

-----------------------------------------------------------------------------
\* delete(r.watchers[service], version); close(ch)
RemoveAndClose(c) ==
    /\ current' = None
    /\ state' = [state EXCEPT ![c] = IF @ = "open" THEN "closed" ELSE "panic"]

ClientGoto(k, where) == client' = [client EXCEPT ![k] = where]

WatchGoto(c, where) == watch' = [watch EXCEPT ![c] = where]

(***************************************************************************)
(* Subscribe                                                               *)
(***************************************************************************)
\* Mutant: a second subscriber is sent a list of its own.
SubscribeExistingSends(k) ==
    /\ client[k] = "idle"
    /\ held[k] = None
    /\ mu = None
    /\ current # None
    /\ held' = [held EXCEPT ![k] = current]
    /\ buf' = [buf EXCEPT ![current] = IF Len(@) < Capacity THEN Append(@, rev) ELSE @]
    /\ UNCHANGED <<rev, registry, mu, current, handle, state, sent, cancelled, goroutines,
                   client, got>>

\* The service is subscribed already: its channel is shared.
SubscribeExisting(k) ==
    /\ client[k] = "idle"
    /\ held[k] = None
    /\ mu = None
    /\ current # None
    /\ held' = [held EXCEPT ![k] = current]
    /\ UNCHANGED <<rev, registry, mu, current, handle, channels, cancelled, goroutines,
                   client, got>>

\* A new channel, and ListServices; r.mu stays locked.
SubscribeList(k) ==
    /\ client[k] = "idle"
    /\ held[k] = None
    /\ mu = None
    /\ current = None
    /\ registry # "closed"
    /\ \E c \in Chans :
          /\ state[c] = "new"
          /\ state' = [state EXCEPT ![c] = "open"]
          /\ current' = c
          /\ held' = [held EXCEPT ![k] = c]
          /\ listed' = [listed EXCEPT ![c] = rev]
    /\ mu' = k
    /\ ClientGoto(k, "subscribing")
    /\ UNCHANGED <<rev, registry, handle, buf, sent, cancelled, watch, seen, missed, got>>

\* The cancel function is stored, the first list sent, the watch created at
\* the revision etcd has NOW, the goroutine started and r.mu unlocked.
SubscribeWatch(k) ==
    LET c == held[k]
    IN  /\ client[k] = "subscribing"
        /\ handle' = c
        /\ buf' = [buf EXCEPT ![c] = Append(@, listed[c])]
        /\ sent' = [sent EXCEPT ![c] = listed[c]]
        /\ seen' = [seen EXCEPT ![c] = rev]
        /\ listed' = [listed EXCEPT ![c] = 0]
        /\ WatchGoto(c, "wait")
        /\ mu' = None
        /\ ClientGoto(k, "idle")
        /\ UNCHANGED <<rev, registry, current, state, cancelled, missed, held, got>>

(***************************************************************************)
(* The watch goroutine                                                     *)
(***************************************************************************)
\* A response with one or more events.
WatchEvent(c) ==
    /\ watch[c] = "wait"
    /\ \E r \in seen[c] + 1..rev : seen' = [seen EXCEPT ![c] = r]
    /\ WatchGoto(c, "list")
    /\ UNCHANGED <<rev, registry, mu, current, handle, channels, cancelled, listed, missed,
                   clients>>

\* The whole list is read again ...
WatchList(c) ==
    /\ watch[c] = "list"
    /\ registry # "closed"
    /\ listed' = [listed EXCEPT ![c] = rev]
    /\ WatchGoto(c, "check")
    /\ UNCHANGED <<rev, registry, mu, current, handle, channels, cancelled, seen, missed,
                   clients>>

\* ... or cannot be, or the response is an error: the events are forgotten.
WatchListFails(c) ==
    /\ watch[c] = "list"
    /\ missed' = [missed EXCEPT ![c] = TRUE]
    /\ WatchGoto(c, "wait")
    /\ UNCHANGED <<rev, registry, mu, current, handle, channels, cancelled, seen, listed,
                   clients>>

\* Under RLock: is there SOME channel for the service?
WatchCheck(c) ==
    /\ watch[c] = "check"
    /\ mu = None
    /\ WatchGoto(c, IF current = None THEN "exit" ELSE "send")
    /\ UNCHANGED <<rev, registry, mu, current, handle, channels, cancelled, seen, listed,
                   missed, clients>>

\* Mutant: the events that arrived meanwhile are drained after the send.
WatchSendDrains(c) ==
    LET room == Len(buf[c]) < Capacity
    IN  /\ watch[c] = "send"
        /\ state[c] = "open"
        /\ buf' = [buf EXCEPT ![c] = IF room THEN Append(@, listed[c]) ELSE @]
        /\ sent' = [sent EXCEPT ![c] = IF room THEN listed[c] ELSE @]
        /\ missed' = [missed EXCEPT ![c] = ~room]
        /\ seen' = [seen EXCEPT ![c] = rev]
        /\ listed' = [listed EXCEPT ![c] = 0]
        /\ WatchGoto(c, "wait")
        /\ UNCHANGED <<rev, registry, mu, current, handle, state, cancelled, clients>>

\* select { case ch <- instances: default: }
WatchSend(c) ==
    LET room == Len(buf[c]) < Capacity
    IN  /\ watch[c] = "send"
        /\ state[c] = "open"
        /\ buf' = [buf EXCEPT ![c] = IF room THEN Append(@, listed[c]) ELSE @]
        /\ sent' = [sent EXCEPT ![c] = IF room THEN listed[c] ELSE @]
        /\ missed' = [missed EXCEPT ![c] = ~room]
        /\ listed' = [listed EXCEPT ![c] = 0]
        /\ WatchGoto(c, "wait")
        /\ UNCHANGED <<rev, registry, mu, current, handle, state, cancelled, seen, clients>>

\* The channel was closed after the check: the send panics, the deferred
\* function recovers.
WatchSendPanics(c) ==
    /\ watch[c] = "send"
    /\ state[c] # "open"
    /\ WatchGoto(c, "exit")
    /\ UNCHANGED <<rev, registry, mu, current, handle, channels, cancelled, seen, listed,
                   missed, clients>>

\* watchCtx is cancelled, or etcd ends the watch.
WatchStops(c) ==
    /\ watch[c] = "wait"
    /\ WatchGoto(c, "exit")
    /\ UNCHANGED <<rev, registry, mu, current, handle, channels, cancelled, seen, listed,
                   missed, clients>>

\* Mutant: the channel in the map is not compared with the goroutine's own.
WatchCleanupAny(c) ==
    /\ watch[c] = "exit"
    /\ mu = None
    /\ cancelled' = [cancelled EXCEPT ![c] = TRUE]
    /\ IF current # None THEN RemoveAndClose(c) ELSE UNCHANGED <<current, state>>
    /\ WatchGoto(c, "done")
    /\ seen' = [seen EXCEPT ![c] = 0]
    /\ listed' = [listed EXCEPT ![c] = 0]
    /\ sent' = [sent EXCEPT ![c] = 0]
    /\ missed' = [missed EXCEPT ![c] = FALSE]
    /\ UNCHANGED <<rev, registry, mu, handle, buf, clients>>

\* Mutant: the goroutine ends without its deferred function.
WatchCleanupSkipped(c) ==
    /\ watch[c] = "exit"
    /\ WatchGoto(c, "done")
    /\ UNCHANGED <<rev, registry, mu, current, handle, channels, cancelled, seen, listed,
                   missed, clients>>

\* The deferred function.  The variables of the goroutine are gone.
WatchCleanup(c) ==
    /\ watch[c] = "exit"
    /\ mu = None
    /\ cancelled' = [cancelled EXCEPT ![c] = TRUE]
    /\ IF current = c THEN RemoveAndClose(c) ELSE UNCHANGED <<current, state>>
    /\ WatchGoto(c, "done")
    /\ seen' = [seen EXCEPT ![c] = 0]
    /\ listed' = [listed EXCEPT ![c] = 0]
    /\ sent' = [sent EXCEPT ![c] = 0]
    /\ missed' = [missed EXCEPT ![c] = FALSE]
    /\ UNCHANGED <<rev, registry, mu, handle, buf, clients>>

(***************************************************************************)
(* Unsubscribe and Close                                                   *)
(***************************************************************************)
\* leases.Load and the cancel function.  The client has stopped reading.
UnsubscribeCancel(k) ==
    /\ client[k] = "idle"
    /\ held[k] # None
    /\ held' = [held EXCEPT ![k] = None]
    /\ IF handle = None
       THEN ClientGoto(k, "look") /\ UNCHANGED cancelled
       ELSE ClientGoto(k, "forget") /\ cancelled' = [cancelled EXCEPT ![handle] = TRUE]
    /\ UNCHANGED <<rev, registry, mu, current, handle, channels, goroutines, got>>

\* leases.Delete: it may be another subscription's by now.
UnsubscribeForget(k) ==
    /\ client[k] = "forget"
    /\ handle' = None
    /\ ClientGoto(k, "look")
    /\ UNCHANGED <<rev, registry, mu, current, channels, cancelled, goroutines, held, got>>

\* Under RLock; nothing to do if the goroutine has cleaned up.
UnsubscribeLook(k) ==
    /\ client[k] = "look"
    /\ mu = None
    /\ ClientGoto(k, IF current = None THEN "idle" ELSE "remove")
    /\ UNCHANGED <<rev, registry, mu, current, handle, channels, cancelled, goroutines,
                   held, got>>

\* Under Lock, 10 ms later, for whatever channel is in the map by now.
UnsubscribeRemove(k) ==
    /\ client[k] = "remove"
    /\ mu = None
    /\ IF current # None THEN RemoveAndClose(current) ELSE UNCHANGED <<current, state>>
    /\ ClientGoto(k, "idle")
    /\ UNCHANGED <<rev, registry, mu, handle, buf, sent, cancelled, goroutines, held, got>>

\* Close, under Lock: every cancel function and every channel ...
CloseWatchers ==
    /\ registry = "open"
    /\ mu = None
    /\ cancelled' = [c \in Chans |-> cancelled[c] \/ c = handle]
    /\ IF current # None THEN RemoveAndClose(current) ELSE UNCHANGED <<current, state>>
    /\ registry' = "closing"
    /\ UNCHANGED <<rev, mu, handle, buf, sent, goroutines, clients>>

\* ... and then the etcd client.
CloseClient ==
    /\ registry = "closing"
    /\ registry' = "closed"
    /\ UNCHANGED <<rev, mu, current, handle, channels, cancelled, goroutines, clients>>

(***************************************************************************)
(* The subscriber, and etcd                                                *)
(***************************************************************************)
\* instances := <-r.watcher.  The nil of a closed channel is no list.
Receive(k) ==
    LET c == held[k]
    IN  /\ client[k] = "idle"
        /\ c # None
        /\ buf[c] # <<>>
        /\ got' = [got EXCEPT ![k] = Head(buf[c])]
        /\ buf' = [buf EXCEPT ![c] = Tail(@)]
        /\ UNCHANGED <<rev, registry, mu, current, handle, state, sent, cancelled,
                       goroutines, client, held>>

\* An instance is registered, updated, deregistered or expires.  Between a
\* Subscribe's list and its watch nobody will be told.
Change ==
    /\ rev < MaxRev
    /\ rev' = rev + 1
    /\ missed' = [c \in Chans |-> missed[c] \/ (mu # None /\ c = current)]
    /\ UNCHANGED <<registry, mu, current, handle, channels, cancelled, watch, seen, listed,
                   clients>>

-----------------------------------------------------------------------------
WatchStep(c) ==
    \/ WatchEvent(c) \/ WatchList(c) \/ WatchListFails(c) \/ WatchCheck(c)
    \/ WatchSend(c) \/ WatchSendPanics(c) \/ WatchCleanup(c)

\* A client inside Subscribe or Unsubscribe.
ClientStep(k) ==
    \/ SubscribeWatch(k)
    \/ UnsubscribeForget(k) \/ UnsubscribeLook(k) \/ UnsubscribeRemove(k)

Next ==
    \/ \E k \in Clients :
          \/ SubscribeExisting(k) \/ SubscribeList(k) \/ UnsubscribeCancel(k)
          \/ ClientStep(k) \/ Receive(k)
    \/ \E c \in Chans : WatchStep(c) \/ WatchStops(c)
    \/ CloseWatchers \/ CloseClient \/ Change

Spec == Init /\ [][Next]_vars

-----------------------------------------------------------------------------
Revs == 0..MaxRev

TypeOK ==
    /\ rev \in Revs
    /\ registry \in {"open", "closing", "closed"}
    /\ mu \in Clients \cup {None}
    /\ current \in Chans \cup {None}
    /\ handle \in Chans \cup {None}
    /\ state \in [Chans -> {"new", "open", "closed", "panic"}]
    /\ buf \in [Chans -> Seq(Revs)]
    /\ \A c \in Chans : Len(buf[c]) <= Capacity
    /\ cancelled \in [Chans -> BOOLEAN]
    /\ watch \in [Chans -> {"none", "wait", "list", "check", "send", "exit", "done"}]
    /\ seen \in [Chans -> Revs]
    /\ listed \in [Chans -> Revs]
    /\ client \in [Clients -> {"idle", "subscribing", "forget", "look", "remove"}]
    /\ held \in [Clients -> Chans \cup {None}]
    /\ got \in [Clients -> Revs]
    /\ sent \in [Chans -> Revs]
    /\ missed \in [Chans -> BOOLEAN]

\* The channel in the map is the one open channel, and no channel is closed
\* twice: Unsubscribe, Close and the deferred function of the watch goroutine,
\* which all close it, agree on who does.
ClosedOnce ==
    \A c \in Chans : state[c] # "panic" /\ (state[c] = "open" <=> c = current)

\* A channel in the map has a live watch goroutine, or a Subscribe that is about
\* to start it: a later Subscribe that is handed the channel is not handed a
\* dead one, and it is closed when the goroutine ends.
Served ==
    \A c \in Chans : c = current =>
        /\ watch[c] # "done"
        /\ watch[c] = "none" <=> mu # None

\* A watch that has seen every change has put the latest list into the channel,
\* unless a change was lost in one of the three ways the code has: between
\* Subscribe's list and its watch, to an error of etcd, or to a full channel.
\* In particular no change is lost between the events and the list of one
\* round, or between two rounds.
SettledIsCurrent ==
    \A c \in Chans :
        watch[c] = "wait" /\ seen[c] = rev /\ ~missed[c] => sent[c] = rev

\* A subscriber never receives a list older than one it has received, whatever
\* channels it was given and whoever reads them beside it.
InOrder == [][\A k \in Clients : got'[k] >= got[k]]_vars

-----------------------------------------------------------------------------
(***************************************************************************)
(* Why ClosedOnce, Served and SettledIsCurrent hold.                       *)
(***************************************************************************)
\* r.mu is held by the one client inside Subscribe, whose channel is current.
LockHolder ==
    /\ \A k \in Clients : client[k] = "subscribing" <=> mu = k
    /\ mu # None => held[mu] = current /\ current # None

\* A channel that was not made has no goroutine, and nothing is in a channel
\* before its goroutine starts.
Unmade ==
    \A c \in Chans :
        /\ state[c] = "new" => watch[c] = "none" /\ ~missed[c]
        /\ watch[c] = "none" => buf[c] = <<>>

\* Revisions are read from etcd.
RevsAreOld ==
    \A c \in Chans : seen[c] <= rev /\ listed[c] <= rev /\ sent[c] <= rev

\* How far a goroutine has come: what it has listed is not older than the
\* events it has seen, and what it has sent is not older when it waits again.
Progress ==
    \A c \in Chans :
        /\ watch[c] \in {"check", "send"} => listed[c] >= seen[c]
        /\ watch[c] = "wait" /\ ~missed[c] => sent[c] >= seen[c]
        /\ mu # None /\ c = current /\ ~missed[c] => listed[c] = rev

\* Inductive, with TypeOK: one open channel, its goroutine, and how far the
\* goroutine has come.
Subscribed ==
    ClosedOnce /\ Served /\ LockHolder /\ Unmade /\ RevsAreOld /\ Progress
=============================================================================
