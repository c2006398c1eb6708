------------------------- MODULE LoadBalancerProofs -------------------------
(***************************************************************************)
(* Proofs about LoadBalancer, for any number of callers and of changes:    *)
(* the list the balancer selects from follows the resolver's, every list   *)
(* on the way shows the service as it once was, and a call with failover   *)
(* is never caught between two read locks.                                 *)
(***************************************************************************)
EXTENDS LoadBalancer, TLAPS

\* What a list can show.
Lists == {Nil} \cup (0..MaxRev)

\* Where Resolver.watch and the refresher can be.
WatchPlaces == {"list", "store", "subscribe", "select", "notify", "ended"}
RefreshPlaces == {"select", "list", "store", "notify", "ended"}

TypeOK ==
    /\ rev \in 0..MaxRev
    /\ chan \in Seq(Lists)
    /\ chanClosed \in BOOLEAN
    /\ refresh \in BOOLEAN
    /\ instances \in Lists
    /\ done \in BOOLEAN
    /\ watch \in [pc : WatchPlaces, list : Lists]
    /\ refresher \in [pc : RefreshPlaces, list : Lists]
    /\ failover \in BOOLEAN
    /\ token \in BOOLEAN
    /\ watching \in BOOLEAN
    /\ lb \in {"resolve", "watch", "running", "panicked"}
    /\ closed \in BOOLEAN
    /\ updates \in [pc : {"select", "locking", "ended"}, list : Lists]
    /\ fastest \in Lists
    /\ loop \in [pc : {"select", "store"}, list : Lists]
    /\ callers \in [Callers -> {"idle", "operation", "feedback"}]
    /\ lost \in BOOLEAN

\* NewLoadBalancer registers its channel before anybody can close it, and only then
\* starts watchUpdates; the resolver is made first, and closed after it.
Started ==
    /\ lb = "running" /\ ~closed => watching
    /\ lb \in {"resolve", "watch"} => ~closed /\ updates.pc = "select"
    /\ updates.pc = "ended" \/ done => closed
    /\ ~Subscribed => lb = "resolve"

\* The resolver has changed its list and has not notified yet.
Announcing == watch.pc = "notify" \/ refresher.pc = "notify"

\* balancer.go:162-185: unless a notification is on its way, watchUpdates is about to
\* pass on the resolver's list, or has done so and the balancer still has it.
Following ==
    lb = "running" /\ ~closed =>
        \/ Announcing
        \/ token
        \/ IF updates.pc = "locking" THEN updates.list = instances
           ELSE fastest = instances \/ lost

\* resolver.go and fastest.go hand lists around; none shows a change to come.
ListsAreKnown ==
    /\ \A n \in 1..Len(chan) : chan[n] <= rev
    /\ instances <= rev
    /\ watch.list <= rev
    /\ refresher.list <= rev
    /\ updates.list <= rev
    /\ fastest <= rev
    /\ loop.list <= rev

\* balancer.go:127-141: only a call without failover goes on to Feedback.
OnlyPlainCallsFeedBack == \A c \in Callers : callers[c] = "feedback" => ~failover

\* balancer.go:104 and 145: so with failover nobody takes the read lock twice.
NotWedgedWithFailover == failover => ~Wedged

Inv == TypeOK /\ Started /\ Following /\ ListsAreKnown /\ OnlyPlainCallsFeedBack

-----------------------------------------------------------------------------
(***************************************************************************)
(* Sequences.                                                              *)
(***************************************************************************)
\* What Append and Tail leave of the elements.
LEMMA AppendElements ==
    ASSUME NEW S, NEW s \in Seq(S), NEW e \in S
    PROVE  /\ Append(s, e) \in Seq(S)
           /\ \A n \in 1..Len(Append(s, e)) :
                 Append(s, e)[n] = e \/ (n \in 1..Len(s) /\ Append(s, e)[n] = s[n])
OBVIOUS

LEMMA TailElements ==
    ASSUME NEW S, NEW s \in Seq(S), s # <<>>
    PROVE  /\ Tail(s) \in Seq(S)
           /\ Head(s) \in S
           /\ 1 \in 1..Len(s) /\ Head(s) = s[1]
           /\ \A n \in 1..Len(Tail(s)) : n + 1 \in 1..Len(s) /\ Tail(s)[n] = s[n + 1]
OBVIOUS

-----------------------------------------------------------------------------
(***************************************************************************)
(* The invariant, action by action.                                        *)
(***************************************************************************)
\* A new version, at the end of the channel.
LEMMA PublishKeeps == ASSUME Inv, Publish PROVE Inv'
<1> DEFINE new == rev + 1
<1>1. /\ rev' = new /\ new \in 0..MaxRev /\ new \in Lists
      /\ chan' \in {chan, Append(chan, new)}
      /\ UNCHANGED <<chanClosed, configVars, resolverVars, lb, closed, updates, fastest,
                     loop, callers, lost>>
  BY LoadBalancerAssumption DEF Publish, Inv, TypeOK, Lists
<1>2. rev <= new
  BY DEF Inv, TypeOK
<1> HIDE DEF new
<1>3. /\ chan' \in Seq(Lists)
      /\ \A n \in 1..Len(chan') : chan'[n] = new \/ (n \in 1..Len(chan) /\ chan'[n] = chan[n])
  <2>1. CASE chan' = chan
    BY <2>1 DEF Inv, TypeOK
  <2>2. CASE chan' = Append(chan, new)
    <3>1. chan \in Seq(Lists) /\ new \in Lists
      BY <1>1 DEF Inv, TypeOK
    <3> QED
      BY <2>2, <3>1, AppendElements
  <2> QED
    BY <1>1, <2>1, <2>2
<1>4. TypeOK'
  BY <1>1, <1>3 DEF resolverVars, configVars, Inv, TypeOK
<1>5. ListsAreKnown'
  <2>1. \A n \in 1..Len(chan) : chan[n] \in Lists
    BY DEF Inv, TypeOK
  <2>2. \A n \in 1..Len(chan') : chan'[n] <= rev'
    BY <1>1, <1>2, <1>3, <2>1 DEF Inv, TypeOK, ListsAreKnown, Lists, Nil
  <2>3. /\ instances' <= rev' /\ watch'.list <= rev' /\ refresher'.list <= rev' /\ updates'.list <= rev'
        /\ fastest' <= rev' /\ loop'.list <= rev'
    BY <1>1, <1>2 DEF resolverVars, Inv, TypeOK, ListsAreKnown, Lists, Nil
  <2> QED
    BY <2>2, <2>3 DEF ListsAreKnown
<1>6. Started' /\ OnlyPlainCallsFeedBack'
  BY <1>1 DEF resolverVars, configVars, Inv, Started, Subscribed, OnlyPlainCallsFeedBack
<1>7. Following'
  BY <1>1 DEF resolverVars, Inv, Following, Announcing
<1> QED
  BY <1>4, <1>5, <1>6, <1>7 DEF Inv

\* Nothing the balancer has changes.
LEMMA ChannelClosesKeeps == ASSUME Inv, ChannelCloses PROVE Inv'
<1>1. TypeOK'
  BY LoadBalancerAssumption DEF ChannelCloses, resolverVars, configVars, Inv, TypeOK,
     Lists, Nil, WatchPlaces, RefreshPlaces
<1>2. Started' /\ OnlyPlainCallsFeedBack'
  BY DEF ChannelCloses, resolverVars, configVars, Inv, TypeOK, Started, Subscribed,
     OnlyPlainCallsFeedBack
<1>3. Following'
  BY DEF ChannelCloses, resolverVars, configVars, Inv, TypeOK, Started, Subscribed,
     Following, Announcing
<1>4. ListsAreKnown'
  BY LoadBalancerAssumption DEF ChannelCloses, resolverVars, configVars, Inv, TypeOK,
     Lists, Nil, ListsAreKnown
<1> QED
  BY <1>1, <1>2, <1>3, <1>4 DEF Inv

\* A load balancer that is closed need not follow.
LEMMA CloseKeeps == ASSUME Inv, Close PROVE Inv'
<1>1. TypeOK'
  BY LoadBalancerAssumption DEF Close, registryVars, configVars, resolverVars, Inv,
     TypeOK, Lists, Nil, WatchPlaces, RefreshPlaces
<1>2. Started' /\ OnlyPlainCallsFeedBack'
  BY DEF Close, registryVars, configVars, resolverVars, Inv, TypeOK, Started,
     Subscribed, OnlyPlainCallsFeedBack
<1>3. Following'
  BY DEF Close, registryVars, configVars, resolverVars, Inv, TypeOK, Started,
     Subscribed, Following, Announcing
<1>4. ListsAreKnown'
  BY LoadBalancerAssumption DEF Close, registryVars, configVars, resolverVars, Inv,
     TypeOK, Lists, Nil, ListsAreKnown
<1> QED
  BY <1>1, <1>2, <1>3, <1>4 DEF Inv

\* The resolver is closed by the load balancer.
LEMMA CloseResolverKeeps == ASSUME Inv, CloseResolver PROVE Inv'
<1>1. TypeOK'
  BY LoadBalancerAssumption DEF CloseResolver, registryVars, configVars, Inv, TypeOK,
     Lists, Nil, WatchPlaces, RefreshPlaces
<1>2. Started' /\ OnlyPlainCallsFeedBack'
  BY DEF CloseResolver, registryVars, configVars, Inv, TypeOK, Started, Subscribed,
     OnlyPlainCallsFeedBack
<1>3. Following'
  BY DEF CloseResolver, registryVars, configVars, Inv, TypeOK, Started, Subscribed,
     Following, Announcing
<1>4. ListsAreKnown'
  BY LoadBalancerAssumption DEF CloseResolver, registryVars, configVars, Inv, TypeOK,
     Lists, Nil, ListsAreKnown
<1> QED
  BY <1>1, <1>2, <1>3, <1>4 DEF Inv

LEMMA CloseChannelsKeeps == ASSUME Inv, CloseChannels PROVE Inv'
<1>1. TypeOK'
  <2>1. done' \in BOOLEAN /\ watching' \in BOOLEAN /\ chanClosed' \in BOOLEAN
    BY DEF CloseChannels, Inv, TypeOK
  <2>2. UNCHANGED <<rev, chan, refresh, failover, instances, watch, refresher, token, lb,
                    closed, updates, fastest, loop, callers, lost>>
    BY DEF CloseChannels, configVars
  <2> QED
    BY <2>1, <2>2 DEF Inv, TypeOK
<1>2. Started' /\ OnlyPlainCallsFeedBack'
  BY DEF CloseChannels, configVars, Inv, TypeOK, Started, Subscribed,
     OnlyPlainCallsFeedBack
<1>3. Following'
  BY DEF CloseChannels, configVars, Inv, TypeOK, Started, Subscribed, Following,
     Announcing
<1>4. ListsAreKnown'
  BY LoadBalancerAssumption DEF CloseChannels, configVars, Inv, TypeOK, Lists, Nil,
     ListsAreKnown
<1> QED
  BY <1>1, <1>2, <1>3, <1>4 DEF Inv

\* The list changes and is to be announced.
LEMMA WatchReceiveKeeps == ASSUME Inv, WatchReceive PROVE Inv'
<1>1. /\ watch.pc = "select" /\ watch' = At("notify", Nil)
      /\ UNCHANGED <<rev, chanClosed, configVars, done, refresher, token, watching, lb,
                     closed, updates, fastest, loop, callers, lost>>
  BY DEF WatchReceive
<1>2. /\ chan' \in Seq(Lists)
      /\ instances' \in Lists /\ instances' <= rev
      /\ \A n \in 1..Len(chan') : chan'[n] <= rev
  <2>1. CASE chan # <<>> /\ instances' = Head(chan) /\ chan' = Tail(chan)
    <3>1. /\ Tail(chan) \in Seq(Lists) /\ Head(chan) \in Lists
          /\ 1 \in 1..Len(chan) /\ Head(chan) = chan[1]
          /\ \A n \in 1..Len(Tail(chan)) : n + 1 \in 1..Len(chan) /\ Tail(chan)[n] = chan[n + 1]
      BY <2>1, TailElements DEF Inv, TypeOK
    <3>2. chan[1] <= rev
      BY <3>1 DEF Inv, ListsAreKnown
    <3>3. \A n \in 1..Len(chan') : chan'[n] <= rev
      BY <2>1, <3>1 DEF Inv, ListsAreKnown
    <3> QED
      BY <2>1, <3>1, <3>2, <3>3
  <2>2. CASE chan = <<>> /\ chanClosed /\ instances' = Nil /\ UNCHANGED chan
    BY <2>2 DEF Inv, TypeOK, ListsAreKnown, Lists, Nil
  <2> QED
    BY <2>1, <2>2 DEF WatchReceive
<1>3. watch' \in [pc : WatchPlaces, list : Lists] /\ watch'.pc = "notify"
  BY <1>1 DEF At, Lists, Nil, WatchPlaces
<1>4. TypeOK'
  BY <1>1, <1>2, <1>3 DEF configVars, Inv, TypeOK
<1>5. ListsAreKnown'
  <2>1. watch'.list = Nil
    BY <1>1 DEF At
  <2>2. watch'.list <= rev
    BY <2>1 DEF Inv, TypeOK, Nil
  <2> QED
    BY <1>1, <1>2, <2>2 DEF Inv, ListsAreKnown
<1>6. Started' /\ OnlyPlainCallsFeedBack'
  <2>1. Subscribed /\ Subscribed'
    BY <1>1 DEF At, Subscribed
  <2> QED
    BY <1>1, <2>1 DEF configVars, Inv, Started, OnlyPlainCallsFeedBack
<1>7. Following'
  BY <1>3 DEF Following, Announcing
<1> QED
  BY <1>4, <1>5, <1>6, <1>7 DEF Inv

\* The notification waits, or one already did.
LEMMA WatchNotifyKeeps == ASSUME Inv, WatchNotify PROVE Inv'
<1>1. TypeOK'
  BY LoadBalancerAssumption DEF WatchNotify, Idle, Notified, registryVars, configVars,
     At, Inv, TypeOK, Lists, Nil, WatchPlaces, RefreshPlaces
<1>2. Started' /\ OnlyPlainCallsFeedBack'
  BY DEF WatchNotify, Idle, Notified, registryVars, configVars, At, Inv, TypeOK,
     Started, Subscribed, OnlyPlainCallsFeedBack
<1>3. Following'
  BY DEF WatchNotify, Idle, Notified, registryVars, configVars, At, Inv, TypeOK,
     Started, Subscribed, Following, Announcing
<1>4. ListsAreKnown'
  BY LoadBalancerAssumption DEF WatchNotify, Idle, Notified, registryVars, configVars,
     At, Inv, TypeOK, Lists, Nil, ListsAreKnown
<1> QED
  BY <1>1, <1>2, <1>3, <1>4 DEF Inv

\* The fetched list is not the resolver's yet.
LEMMA RefreshTickKeeps == ASSUME Inv, RefreshTick PROVE Inv'
<1>1. TypeOK'
  BY LoadBalancerAssumption DEF RefreshTick, RefreshTo, At, registryVars, configVars,
     Inv, TypeOK, Lists, Nil, WatchPlaces, RefreshPlaces
<1>2. Started' /\ OnlyPlainCallsFeedBack'
  BY DEF RefreshTick, RefreshTo, At, registryVars, configVars, Inv, TypeOK, Started,
     Subscribed, OnlyPlainCallsFeedBack
<1>3. Following'
  BY DEF RefreshTick, RefreshTo, At, registryVars, configVars, Inv, TypeOK, Started,
     Subscribed, Following, Announcing
<1>4. ListsAreKnown'
  BY LoadBalancerAssumption DEF RefreshTick, RefreshTo, At, registryVars, configVars,
     Inv, TypeOK, Lists, Nil, ListsAreKnown
<1> QED
  BY <1>1, <1>2, <1>3, <1>4 DEF Inv

LEMMA RefreshListKeeps == ASSUME Inv, RefreshList PROVE Inv'
<1>1. TypeOK'
  BY LoadBalancerAssumption DEF RefreshList, RefreshTo, At, registryVars, configVars,
     Inv, TypeOK, Lists, Nil, WatchPlaces, RefreshPlaces
<1>2. Started' /\ OnlyPlainCallsFeedBack'
  BY DEF RefreshList, RefreshTo, At, registryVars, configVars, Inv, TypeOK, Started,
     Subscribed, OnlyPlainCallsFeedBack
<1>3. Following'
  BY DEF RefreshList, RefreshTo, At, registryVars, configVars, Inv, TypeOK, Started,
     Subscribed, Following, Announcing
<1>4. ListsAreKnown'
  BY LoadBalancerAssumption DEF RefreshList, RefreshTo, At, registryVars, configVars,
     Inv, TypeOK, Lists, Nil, ListsAreKnown
<1> QED
  BY <1>1, <1>2, <1>3, <1>4 DEF Inv

LEMMA RefreshFailsKeeps == ASSUME Inv, RefreshFails PROVE Inv'
<1>1. TypeOK'
  BY LoadBalancerAssumption DEF RefreshFails, RefreshTo, Idle, At, registryVars,
     configVars, Inv, TypeOK, Lists, Nil, WatchPlaces, RefreshPlaces
<1>2. Started' /\ OnlyPlainCallsFeedBack'
  BY DEF RefreshFails, RefreshTo, Idle, At, registryVars, configVars, Inv, TypeOK,
     Started, Subscribed, OnlyPlainCallsFeedBack
<1>3. Following'
  BY DEF RefreshFails, RefreshTo, Idle, At, registryVars, configVars, Inv, TypeOK,
     Started, Subscribed, Following, Announcing
<1>4. ListsAreKnown'
  BY LoadBalancerAssumption DEF RefreshFails, RefreshTo, Idle, At, registryVars,
     configVars, Inv, TypeOK, Lists, Nil, ListsAreKnown
<1> QED
  BY <1>1, <1>2, <1>3, <1>4 DEF Inv

\* The list changes and is to be announced.
LEMMA RefreshStoreKeeps == ASSUME Inv, RefreshStore PROVE Inv'
<1>1. TypeOK'
  BY LoadBalancerAssumption DEF RefreshStore, At, registryVars, configVars, Inv, TypeOK,
     Lists, Nil, WatchPlaces, RefreshPlaces
<1>2. Started' /\ OnlyPlainCallsFeedBack'
  BY DEF RefreshStore, At, registryVars, configVars, Inv, TypeOK, Started, Subscribed,
     OnlyPlainCallsFeedBack
<1>3. Following'
  BY DEF RefreshStore, At, registryVars, configVars, Inv, TypeOK, Started, Subscribed,
     Following, Announcing
<1>4. ListsAreKnown'
  BY LoadBalancerAssumption DEF RefreshStore, At, registryVars, configVars, Inv, TypeOK,
     Lists, Nil, ListsAreKnown
<1> QED
  BY <1>1, <1>2, <1>3, <1>4 DEF Inv

\* The notification waits, or one already did.
LEMMA RefreshNotifyKeeps == ASSUME Inv, RefreshNotify PROVE Inv'
<1>1. TypeOK'
  BY LoadBalancerAssumption DEF RefreshNotify, Idle, Notified, registryVars, configVars,
     At, Inv, TypeOK, Lists, Nil, WatchPlaces, RefreshPlaces
<1>2. Started' /\ OnlyPlainCallsFeedBack'
  BY DEF RefreshNotify, Idle, Notified, registryVars, configVars, At, Inv, TypeOK,
     Started, Subscribed, OnlyPlainCallsFeedBack
<1>3. Following'
  BY DEF RefreshNotify, Idle, Notified, registryVars, configVars, At, Inv, TypeOK,
     Started, Subscribed, Following, Announcing
<1>4. ListsAreKnown'
  BY LoadBalancerAssumption DEF RefreshNotify, Idle, Notified, registryVars, configVars,
     At, Inv, TypeOK, Lists, Nil, ListsAreKnown
<1> QED
  BY <1>1, <1>2, <1>3, <1>4 DEF Inv

\* The resolver is done because the load balancer is closed.
LEMMA ResolverEndsKeeps == ASSUME Inv, ResolverEnds PROVE Inv'
<1>1. TypeOK'
  BY LoadBalancerAssumption DEF ResolverEnds, At, registryVars, configVars, Inv, TypeOK,
     Lists, Nil, WatchPlaces, RefreshPlaces
<1>2. Started' /\ OnlyPlainCallsFeedBack'
  BY DEF ResolverEnds, At, registryVars, configVars, Inv, TypeOK, Started, Subscribed,
     OnlyPlainCallsFeedBack
<1>3. Following'
  BY DEF ResolverEnds, At, registryVars, configVars, Inv, TypeOK, Started, Subscribed,
     Following, Announcing
<1>4. ListsAreKnown'
  BY LoadBalancerAssumption DEF ResolverEnds, At, registryVars, configVars, Inv, TypeOK,
     Lists, Nil, ListsAreKnown
<1> QED
  BY <1>1, <1>2, <1>3, <1>4 DEF Inv

\* There is no load balancer yet that follows the resolver.
LEMMA NewListKeeps == ASSUME Inv, NewList PROVE Inv'
<1>1. TypeOK'
  BY LoadBalancerAssumption DEF NewList, At, registryVars, configVars, Inv, TypeOK,
     Lists, Nil, WatchPlaces, RefreshPlaces
<1>2. Started' /\ OnlyPlainCallsFeedBack'
  BY DEF NewList, At, registryVars, configVars, Inv, TypeOK, Started, Subscribed,
     OnlyPlainCallsFeedBack
<1>3. Following'
  BY DEF NewList, At, registryVars, configVars, Inv, TypeOK, Started, Subscribed,
     Following, Announcing
<1>4. ListsAreKnown'
  BY LoadBalancerAssumption DEF NewList, At, registryVars, configVars, Inv, TypeOK,
     Lists, Nil, ListsAreKnown
<1> QED
  BY <1>1, <1>2, <1>3, <1>4 DEF Inv

LEMMA NewStoreKeeps == ASSUME Inv, NewStore PROVE Inv'
<1>1. TypeOK'
  BY LoadBalancerAssumption DEF NewStore, At, registryVars, configVars, Inv, TypeOK,
     Lists, Nil, WatchPlaces, RefreshPlaces
<1>2. Started' /\ OnlyPlainCallsFeedBack'
  BY DEF NewStore, At, registryVars, configVars, Inv, TypeOK, Started, Subscribed,
     OnlyPlainCallsFeedBack
<1>3. Following'
  BY DEF NewStore, At, registryVars, configVars, Inv, TypeOK, Started, Subscribed,
     Following, Announcing
<1>4. ListsAreKnown'
  BY LoadBalancerAssumption DEF NewStore, At, registryVars, configVars, Inv, TypeOK,
     Lists, Nil, ListsAreKnown
<1> QED
  BY <1>1, <1>2, <1>3, <1>4 DEF Inv

LEMMA NewSubscribeKeeps == ASSUME Inv, NewSubscribe PROVE Inv'
<1>1. TypeOK'
  BY LoadBalancerAssumption DEF NewSubscribe, Idle, At, registryVars, configVars, Inv,
     TypeOK, Lists, Nil, WatchPlaces, RefreshPlaces
<1>2. Started' /\ OnlyPlainCallsFeedBack'
  BY DEF NewSubscribe, Idle, At, registryVars, configVars, Inv, TypeOK, Started,
     Subscribed, OnlyPlainCallsFeedBack
<1>3. Following'
  BY DEF NewSubscribe, Idle, At, registryVars, configVars, Inv, TypeOK, Started,
     Subscribed, Following, Announcing
<1>4. ListsAreKnown'
  BY LoadBalancerAssumption DEF NewSubscribe, Idle, At, registryVars, configVars, Inv,
     TypeOK, Lists, Nil, ListsAreKnown
<1> QED
  BY <1>1, <1>2, <1>3, <1>4 DEF Inv

\* The load balancer is not running yet.
LEMMA NewResolveKeeps == ASSUME Inv, NewResolve PROVE Inv'
<1>1. TypeOK'
  BY LoadBalancerAssumption DEF NewResolve, resolverVars, registryVars, configVars, Inv,
     TypeOK, Lists, Nil, WatchPlaces, RefreshPlaces
<1>2. Started' /\ OnlyPlainCallsFeedBack'
  BY DEF NewResolve, resolverVars, registryVars, configVars, Inv, TypeOK, Started,
     Subscribed, OnlyPlainCallsFeedBack
<1>3. Following'
  BY DEF NewResolve, resolverVars, registryVars, configVars, Inv, TypeOK, Started,
     Subscribed, Following, Announcing
<1>4. ListsAreKnown'
  BY LoadBalancerAssumption DEF NewResolve, resolverVars, registryVars, configVars, Inv,
     TypeOK, Lists, Nil, ListsAreKnown
<1> QED
  BY <1>1, <1>2, <1>3, <1>4 DEF Inv

\* What changed since Resolve is lost.
LEMMA NewWatchKeeps == ASSUME Inv, NewWatch PROVE Inv'
<1>1. TypeOK'
  BY LoadBalancerAssumption DEF NewWatch, registryVars, configVars, Inv, TypeOK, Lists,
     Nil, WatchPlaces, RefreshPlaces
<1>2. Started' /\ OnlyPlainCallsFeedBack'
  BY DEF NewWatch, registryVars, configVars, Inv, TypeOK, Started, Subscribed,
     OnlyPlainCallsFeedBack
<1>3. Following'
  BY DEF NewWatch, registryVars, configVars, Inv, TypeOK, Started, Subscribed,
     Following, Announcing
<1>4. ListsAreKnown'
  BY LoadBalancerAssumption DEF NewWatch, registryVars, configVars, Inv, TypeOK, Lists,
     Nil, ListsAreKnown
<1> QED
  BY <1>1, <1>2, <1>3, <1>4 DEF Inv

\* The notification is taken, and the list with it.
LEMMA UpdateResolveKeeps == ASSUME Inv, UpdateResolve PROVE Inv'
<1>1. TypeOK'
  <2>1. token' \in BOOLEAN /\ updates' \in [pc : {"select", "locking", "ended"}, list : Lists]
    BY DEF UpdateResolve, At, Inv, TypeOK
  <2>2. UNCHANGED <<rev, chan, chanClosed, refresh, failover, instances, done, watch, refresher,
                    watching, lb, closed, fastest, loop, callers, lost>>
    BY DEF UpdateResolve, registryVars, configVars
  <2> QED
    BY <2>1, <2>2 DEF Inv, TypeOK
<1>2. Started' /\ OnlyPlainCallsFeedBack'
  BY DEF UpdateResolve, At, registryVars, configVars, Inv, TypeOK, Started, Subscribed,
     OnlyPlainCallsFeedBack
<1>3. Following'
  BY DEF UpdateResolve, At, registryVars, configVars, Inv, TypeOK, Started, Subscribed,
     Following, Announcing
<1>4. ListsAreKnown'
  BY LoadBalancerAssumption DEF UpdateResolve, At, registryVars, configVars, Inv,
     TypeOK, Lists, Nil, ListsAreKnown
<1> QED
  BY <1>1, <1>2, <1>3, <1>4 DEF Inv

\* The list is passed on.
LEMMA UpdateKeeps == ASSUME Inv, Update PROVE Inv'
<1>1. TypeOK'
  <2>1. Idle \in [pc : {"select", "locking", "ended"}, list : Lists]
    BY DEF Idle, At, Lists
  <2>2. fastest' \in Lists /\ lost' \in BOOLEAN
    BY DEF Update, Inv, TypeOK
  <2>3. updates' = Idle
    BY DEF Update
  <2>4. UNCHANGED <<rev, chan, chanClosed, refresh, failover, instances, done, watch, refresher,
                    token, watching, lb, closed, loop, callers>>
    BY DEF Update, registryVars, configVars, resolverVars
  <2> QED
    BY <2>1, <2>2, <2>3, <2>4 DEF Inv, TypeOK
<1>2. Started' /\ OnlyPlainCallsFeedBack'
  BY DEF Update, Idle, Readers, resolverVars, registryVars, configVars, At, Inv, TypeOK,
     Started, Subscribed, OnlyPlainCallsFeedBack
<1>3. Following'
  BY DEF Update, Idle, Readers, resolverVars, registryVars, configVars, At, Inv, TypeOK,
     Started, Subscribed, Following, Announcing
<1>4. ListsAreKnown'
  BY LoadBalancerAssumption DEF Update, Idle, Readers, resolverVars, registryVars,
     configVars, At, Inv, TypeOK, Lists, Nil, ListsAreKnown
<1> QED
  BY <1>1, <1>2, <1>3, <1>4 DEF Inv

\* The goroutine ends when the load balancer is closed.
LEMMA UpdatesEndKeeps == ASSUME Inv, UpdatesEnd PROVE Inv'
<1>1. TypeOK'
  BY LoadBalancerAssumption DEF UpdatesEnd, At, resolverVars, registryVars, configVars,
     Inv, TypeOK, Lists, Nil, WatchPlaces, RefreshPlaces
<1>2. Started' /\ OnlyPlainCallsFeedBack'
  BY DEF UpdatesEnd, At, resolverVars, registryVars, configVars, Inv, TypeOK, Started,
     Subscribed, OnlyPlainCallsFeedBack
<1>3. Following'
  BY DEF UpdatesEnd, At, resolverVars, registryVars, configVars, Inv, TypeOK, Started,
     Subscribed, Following, Announcing
<1>4. ListsAreKnown'
  BY LoadBalancerAssumption DEF UpdatesEnd, At, resolverVars, registryVars, configVars,
     Inv, TypeOK, Lists, Nil, ListsAreKnown
<1> QED
  BY <1>1, <1>2, <1>3, <1>4 DEF Inv

\* The refresh of the latencies reads the list.
LEMMA LoopReadKeeps == ASSUME Inv, LoopRead PROVE Inv'
<1>1. TypeOK'
  BY LoadBalancerAssumption DEF LoopRead, At, resolverVars, registryVars, configVars,
     Inv, TypeOK, Lists, Nil, WatchPlaces, RefreshPlaces
<1>2. Started' /\ OnlyPlainCallsFeedBack'
  BY DEF LoopRead, At, resolverVars, registryVars, configVars, Inv, TypeOK, Started,
     Subscribed, OnlyPlainCallsFeedBack
<1>3. Following'
  BY DEF LoopRead, At, resolverVars, registryVars, configVars, Inv, TypeOK, Started,
     Subscribed, Following, Announcing
<1>4. ListsAreKnown'
  BY LoadBalancerAssumption DEF LoopRead, At, resolverVars, registryVars, configVars,
     Inv, TypeOK, Lists, Nil, ListsAreKnown
<1> QED
  BY <1>1, <1>2, <1>3, <1>4 DEF Inv

\* It puts back what it read: if that is not the same, it is lost.
LEMMA LoopStoreKeeps == ASSUME Inv, LoopStore PROVE Inv'
<1>1. TypeOK'
  BY LoadBalancerAssumption DEF LoopStore, Idle, resolverVars, registryVars, configVars,
     At, Inv, TypeOK, Lists, Nil, WatchPlaces, RefreshPlaces
<1>2. Started' /\ OnlyPlainCallsFeedBack'
  BY DEF LoopStore, Idle, resolverVars, registryVars, configVars, At, Inv, TypeOK,
     Started, Subscribed, OnlyPlainCallsFeedBack
<1>3. Following'
  BY DEF LoopStore, Idle, resolverVars, registryVars, configVars, At, Inv, TypeOK,
     Started, Subscribed, Following, Announcing
<1>4. ListsAreKnown'
  BY LoadBalancerAssumption DEF LoopStore, Idle, resolverVars, registryVars, configVars,
     At, Inv, TypeOK, Lists, Nil, ListsAreKnown
<1> QED
  BY <1>1, <1>2, <1>3, <1>4 DEF Inv

\* Callers touch no list.
LEMMA EnterKeeps == ASSUME Inv, NEW c \in Callers, Enter(c) PROVE Inv'
<1>1. TypeOK'
  BY LoadBalancerAssumption DEF Enter, CanRLock, SetCaller, resolverVars, registryVars,
     configVars, Inv, TypeOK, Lists, Nil, WatchPlaces, RefreshPlaces
<1>2. Started' /\ OnlyPlainCallsFeedBack'
  BY DEF Enter, CanRLock, SetCaller, resolverVars, registryVars, configVars, Inv,
     TypeOK, Started, Subscribed, OnlyPlainCallsFeedBack
<1>3. Following'
  BY DEF Enter, CanRLock, SetCaller, resolverVars, registryVars, configVars, Inv,
     TypeOK, Started, Subscribed, Following, Announcing
<1>4. ListsAreKnown'
  BY LoadBalancerAssumption DEF Enter, CanRLock, SetCaller, resolverVars, registryVars,
     configVars, Inv, TypeOK, Lists, Nil, ListsAreKnown
<1> QED
  BY <1>1, <1>2, <1>3, <1>4 DEF Inv

LEMMA OperateKeeps == ASSUME Inv, NEW c \in Callers, Operate(c) PROVE Inv'
<1>1. TypeOK'
  BY LoadBalancerAssumption DEF Operate, SetCaller, AfterOperation, resolverVars,
     registryVars, configVars, Inv, TypeOK, Lists, Nil, WatchPlaces, RefreshPlaces
<1>2. Started' /\ OnlyPlainCallsFeedBack'
  BY DEF Operate, SetCaller, AfterOperation, resolverVars, registryVars, configVars,
     Inv, TypeOK, Started, Subscribed, OnlyPlainCallsFeedBack
<1>3. Following'
  BY DEF Operate, SetCaller, AfterOperation, resolverVars, registryVars, configVars,
     Inv, TypeOK, Started, Subscribed, Following, Announcing
<1>4. ListsAreKnown'
  BY LoadBalancerAssumption DEF Operate, SetCaller, AfterOperation, resolverVars,
     registryVars, configVars, Inv, TypeOK, Lists, Nil, ListsAreKnown
<1> QED
  BY <1>1, <1>2, <1>3, <1>4 DEF Inv

LEMMA SelectFailsKeeps == ASSUME Inv, NEW c \in Callers, SelectFails(c) PROVE Inv'
<1>1. TypeOK'
  BY LoadBalancerAssumption DEF SelectFails, SetCaller, resolverVars, registryVars,
     configVars, Inv, TypeOK, Lists, Nil, WatchPlaces, RefreshPlaces
<1>2. Started' /\ OnlyPlainCallsFeedBack'
  BY DEF SelectFails, SetCaller, resolverVars, registryVars, configVars, Inv, TypeOK,
     Started, Subscribed, OnlyPlainCallsFeedBack
<1>3. Following'
  BY DEF SelectFails, SetCaller, resolverVars, registryVars, configVars, Inv, TypeOK,
     Started, Subscribed, Following, Announcing
<1>4. ListsAreKnown'
  BY LoadBalancerAssumption DEF SelectFails, SetCaller, resolverVars, registryVars,
     configVars, Inv, TypeOK, Lists, Nil, ListsAreKnown
<1> QED
  BY <1>1, <1>2, <1>3, <1>4 DEF Inv

LEMMA FeedbackKeeps == ASSUME Inv, NEW c \in Callers, Feedback(c) PROVE Inv'
<1>1. TypeOK'
  BY LoadBalancerAssumption DEF Feedback, CanRLock, SetCaller, resolverVars,
     registryVars, configVars, Inv, TypeOK, Lists, Nil, WatchPlaces, RefreshPlaces
<1>2. Started' /\ OnlyPlainCallsFeedBack'
  BY DEF Feedback, CanRLock, SetCaller, resolverVars, registryVars, configVars, Inv,
     TypeOK, Started, Subscribed, OnlyPlainCallsFeedBack
<1>3. Following'
  BY DEF Feedback, CanRLock, SetCaller, resolverVars, registryVars, configVars, Inv,
     TypeOK, Started, Subscribed, Following, Announcing
<1>4. ListsAreKnown'
  BY LoadBalancerAssumption DEF Feedback, CanRLock, SetCaller, resolverVars,
     registryVars, configVars, Inv, TypeOK, Lists, Nil, ListsAreKnown
<1> QED
  BY <1>1, <1>2, <1>3, <1>4 DEF Inv

-----------------------------------------------------------------------------
\* Initially the load balancer has nothing and every list is the first.
LEMMA InvInit == Init => Inv
<1> SUFFICES ASSUME Init PROVE Inv
  OBVIOUS
<1>1. TypeOK
  <2>1. <<>> \in Seq(Lists)
    OBVIOUS
  <2>2. /\ Idle \in [pc : {"select"}, list : Lists]
        /\ At("list", Nil) \in [pc : {"list"}, list : Lists]
        /\ At("ended", Nil) \in [pc : {"ended"}, list : Lists]
    BY DEF Idle, At, Lists
  <2>3. 0 \in Lists /\ Nil \in Lists /\ 0 \in 0..MaxRev
    BY LoadBalancerAssumption DEF Lists
  <2>4. /\ watch \in [pc : WatchPlaces, list : Lists]
        /\ refresher \in [pc : RefreshPlaces, list : Lists]
        /\ updates \in [pc : {"select", "locking", "ended"}, list : Lists]
        /\ loop \in [pc : {"select", "store"}, list : Lists]
    BY <2>2 DEF Init, WatchPlaces, RefreshPlaces
  <2> QED
    BY <2>1, <2>3, <2>4 DEF Init, TypeOK
<1>2. Started /\ Following /\ OnlyPlainCallsFeedBack
  BY DEF Init, Idle, At, Started, Subscribed, Following, OnlyPlainCallsFeedBack
<1>3. ListsAreKnown
  <2>1. 1..Len(<<>>) = {}
    OBVIOUS
  <2> QED
    BY <2>1 DEF Init, Idle, At, Nil, ListsAreKnown
<1> QED
  BY <1>1, <1>2, <1>3 DEF Inv

\* Every step, the stuttering one included.
LEMMA NextKeeps == Inv /\ [Next]_vars => Inv'
<1> SUFFICES ASSUME Inv, [Next]_vars PROVE Inv'
  OBVIOUS
<1>1. CASE UNCHANGED vars
  BY <1>1 DEF vars, registryVars, configVars, resolverVars, Inv, TypeOK, Started,
     Subscribed, Following, Announcing, ListsAreKnown, OnlyPlainCallsFeedBack
<1>2. CASE Publish \/ ChannelCloses \/ CloseStep
  BY <1>2, PublishKeeps, ChannelClosesKeeps, CloseKeeps, CloseResolverKeeps,
     CloseChannelsKeeps
     DEF CloseStep
<1>3. CASE WatchStep \/ RefreshStep \/ ResolverEnds
  BY <1>3, WatchReceiveKeeps, WatchNotifyKeeps, RefreshTickKeeps, RefreshListKeeps,
     RefreshFailsKeeps, RefreshStoreKeeps, RefreshNotifyKeeps, ResolverEndsKeeps
     DEF WatchStep, RefreshStep
<1>4. CASE NewStep
  BY <1>4, NewListKeeps, NewStoreKeeps, NewSubscribeKeeps, NewResolveKeeps, NewWatchKeeps
     DEF NewStep
<1>5. CASE UpdateStep \/ UpdatesEnd \/ LoopStep
  BY <1>5, UpdateResolveKeeps, UpdateKeeps, UpdatesEndKeeps, LoopReadKeeps, LoopStoreKeeps
     DEF UpdateStep, LoopStep
<1>6. ASSUME NEW c \in Callers, Enter(c) \/ CallerStep(c) PROVE Inv'
  BY <1>6, EnterKeeps, OperateKeeps, SelectFailsKeeps, FeedbackKeeps DEF CallerStep
<1> QED
  BY <1>1, <1>2, <1>3, <1>4, <1>5, <1>6 DEF Next

\* Any number of callers, changes and refreshes.
LEMMA Invariance == Spec => []Inv
<1> QED
  BY InvInit, NextKeeps, PTL DEF Spec

\* balancer.go:162-185, resolver.go:118-129: a notification that is dropped because one
\* waits loses nothing; when everything is quiet the balancer has the resolver's list
\* or has lost it in one of the two named ways.
THEOREM SettledHolds == Spec => []Settled
<1>1. Inv => Settled
  BY DEF Inv, TypeOK, Following, Announcing, Settled, Quiet
<1> QED
  BY <1>1, Invariance, PTL

\* resolver.go:60-129, fastest.go: every list that is stored, carried or selected from
\* shows the service as it was at some time, or is the nil list of a closed channel.
THEOREM ListsAreKnownHolds == Spec => []ListsAreKnown
<1>1. Inv => ListsAreKnown
  BY DEF Inv
<1> QED
  BY <1>1, Invariance, PTL

\* balancer.go:104 and 145: with failover no caller is caught between two read locks by
\* watchUpdates.
THEOREM NotWedgedWithFailoverHolds == Spec => []NotWedgedWithFailover
<1>1. Inv => NotWedgedWithFailover
  BY DEF Inv, OnlyPlainCallsFeedBack, NotWedgedWithFailover, Wedged
<1> QED
  BY <1>1, Invariance, PTL
=============================================================================
