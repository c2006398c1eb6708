------------------------ MODULE SubscriptionsProofs ------------------------
(***************************************************************************)
(* Proofs about Subscriptions: the channel in the registry's map is the    *)
(* one open channel, it has a live goroutine, and a goroutine at rest has  *)
(* sent what it has seen.  One inductive invariant, Subscribed, carries    *)
(* all three; a second, Ordered, puts the lists of all channels in one     *)
(* order, so that no subscriber goes back to an older list.  Both are      *)
(* shown action by action, for any number of clients and channels and any  *)
(* capacity.                                                               *)
(***************************************************************************)
EXTENDS Subscriptions, TLAPS

Inv == TypeOK /\ Subscribed

-----------------------------------------------------------------------------
\* Initially no channel has been made.
LEMMA SubscribedInit == Init => Inv
BY NoneIsNew, CapacityPositive, MaxRevNat DEF Init, Inv, TypeOK,
    Subscribed, ClosedOnce, Served, LockHolder, Unmade, RevsAreOld, Progress, Revs

\* Whoever takes a channel out of the map closes an open one, and leaves none
\* open: the heart of ClosedOnce.
LEMMA RemoveAndCloseIsSafe ==
    ASSUME Inv, mu = None, NEW c \in Chans, c = current, RemoveAndClose(c)
    PROVE  /\ current' = None
           /\ state' = [state EXCEPT ![c] = "closed"]
           /\ state' \in [Chans -> {"new", "open", "closed", "panic"}]
           /\ \A d \in Chans : state'[d] # "panic" /\ state'[d] # "open"
           /\ \A d \in Chans : state'[d] = "new" => state[d] = "new"
BY NoneIsNew DEF RemoveAndClose, Inv, TypeOK, Subscribed, ClosedOnce

-----------------------------------------------------------------------------
\* Being handed the channel in the map changes nothing else.
LEMMA SubscribeExistingStep ==
    ASSUME Inv, NEW k \in Clients, SubscribeExisting(k)
    PROVE  Inv'
<1>1. TypeOK'
  BY NoneIsNew, CapacityPositive, MaxRevNat
     DEF SubscribeExisting, channels, goroutines, Inv, TypeOK, Revs
<1>2. ClosedOnce' /\ Served' /\ LockHolder'
  BY NoneIsNew
     DEF SubscribeExisting, channels, goroutines, Inv, TypeOK, Subscribed, ClosedOnce,
         Served, LockHolder, Unmade
<1>3. Unmade' /\ RevsAreOld' /\ Progress'
  BY NoneIsNew, MaxRevNat
     DEF SubscribeExisting, channels, goroutines, Inv, TypeOK, Subscribed, ClosedOnce,
         Served, LockHolder, Unmade, RevsAreOld, Progress, Revs
<1> QED
  BY <1>1, <1>2, <1>3 DEF Inv, Subscribed

\* The new channel becomes the one in the map, its maker holds r.mu.
LEMMA SubscribeListStep ==
    ASSUME Inv, NEW k \in Clients, SubscribeList(k)
    PROVE  Inv'
<1>1. TypeOK'
  BY NoneIsNew, CapacityPositive, MaxRevNat
     DEF SubscribeList, ClientGoto, Inv, TypeOK, Revs, Subscribed, LockHolder, Served,
         Unmade
<1>2. ClosedOnce' /\ Served' /\ LockHolder'
  BY NoneIsNew
     DEF SubscribeList, ClientGoto, Inv, TypeOK, Subscribed, ClosedOnce, Served,
         LockHolder, Unmade
<1>3. Unmade' /\ RevsAreOld' /\ Progress'
  BY NoneIsNew, MaxRevNat
     DEF SubscribeList, ClientGoto, Inv, TypeOK, Subscribed, ClosedOnce, Served,
         LockHolder, Unmade, RevsAreOld, Progress, Revs
<1> QED
  BY <1>1, <1>2, <1>3 DEF Inv, Subscribed

\* The goroutine starts, up to date unless a change fell between list and watch.
LEMMA SubscribeWatchStep ==
    ASSUME Inv, NEW k \in Clients, SubscribeWatch(k)
    PROVE  Inv'
<1>1. TypeOK'
  BY NoneIsNew, CapacityPositive, MaxRevNat
     DEF SubscribeWatch, ClientGoto, WatchGoto, Inv, TypeOK, Revs, Subscribed,
         LockHolder, Served, Unmade
<1>2. ClosedOnce' /\ Served' /\ LockHolder'
  BY NoneIsNew
     DEF SubscribeWatch, ClientGoto, WatchGoto, Inv, TypeOK, Subscribed, ClosedOnce,
         Served, LockHolder, Unmade
<1>3. Unmade' /\ RevsAreOld' /\ Progress'
  BY NoneIsNew, MaxRevNat
     DEF SubscribeWatch, ClientGoto, WatchGoto, Inv, TypeOK, Subscribed, ClosedOnce,
         Served, LockHolder, Unmade, RevsAreOld, Progress, Revs
<1> QED
  BY <1>1, <1>2, <1>3 DEF Inv, Subscribed

\* Cancelling touches the context only.
LEMMA UnsubscribeCancelStep ==
    ASSUME Inv, NEW k \in Clients, UnsubscribeCancel(k)
    PROVE  Inv'
<1>1. TypeOK'
  <2>1. CASE handle = None
    BY <2>1 DEF UnsubscribeCancel, channels, goroutines, ClientGoto, Inv, TypeOK, Revs
  <2>2. CASE handle # None
    <3>1. cancelled' = [cancelled EXCEPT ![handle] = TRUE]
      BY <2>2 DEF UnsubscribeCancel
    <3>2. cancelled' \in [Chans -> BOOLEAN]
      BY <3>1 DEF Inv, TypeOK
    <3> QED
      BY <2>2, <3>2 DEF UnsubscribeCancel, channels, goroutines, ClientGoto, Inv, TypeOK, Revs
  <2> QED
    BY <2>1, <2>2
<1>2. ClosedOnce' /\ Served' /\ LockHolder'
  BY NoneIsNew
     DEF UnsubscribeCancel, channels, goroutines, ClientGoto, Inv, TypeOK, Subscribed,
         ClosedOnce, Served, LockHolder, Unmade
<1>3. Unmade' /\ RevsAreOld' /\ Progress'
  BY NoneIsNew, MaxRevNat
     DEF UnsubscribeCancel, channels, goroutines, ClientGoto, Inv, TypeOK, Subscribed,
         ClosedOnce, Served, LockHolder, Unmade, RevsAreOld, Progress, Revs
<1> QED
  BY <1>1, <1>2, <1>3 DEF Inv, Subscribed

\* So does forgetting the cancel function.
LEMMA UnsubscribeForgetStep ==
    ASSUME Inv, NEW k \in Clients, UnsubscribeForget(k)
    PROVE  Inv'
<1>1. TypeOK'
  BY NoneIsNew, CapacityPositive, MaxRevNat
     DEF UnsubscribeForget, channels, goroutines, ClientGoto, Inv, TypeOK, Revs
<1>2. ClosedOnce' /\ Served' /\ LockHolder'
  BY NoneIsNew
     DEF UnsubscribeForget, channels, goroutines, ClientGoto, Inv, TypeOK, Subscribed,
         ClosedOnce, Served, LockHolder, Unmade
<1>3. Unmade' /\ RevsAreOld' /\ Progress'
  BY NoneIsNew, MaxRevNat
     DEF UnsubscribeForget, channels, goroutines, ClientGoto, Inv, TypeOK, Subscribed,
         ClosedOnce, Served, LockHolder, Unmade, RevsAreOld, Progress, Revs
<1> QED
  BY <1>1, <1>2, <1>3 DEF Inv, Subscribed

\* Looking at the map changes no channel.
LEMMA UnsubscribeLookStep ==
    ASSUME Inv, NEW k \in Clients, UnsubscribeLook(k)
    PROVE  Inv'
<1>1. TypeOK'
  BY NoneIsNew, CapacityPositive, MaxRevNat
     DEF UnsubscribeLook, channels, goroutines, ClientGoto, Inv, TypeOK, Revs
<1>2. ClosedOnce' /\ Served' /\ LockHolder'
  BY NoneIsNew
     DEF UnsubscribeLook, channels, goroutines, ClientGoto, Inv, TypeOK, Subscribed,
         ClosedOnce, Served, LockHolder, Unmade
<1>3. Unmade' /\ RevsAreOld' /\ Progress'
  BY NoneIsNew, MaxRevNat
     DEF UnsubscribeLook, channels, goroutines, ClientGoto, Inv, TypeOK, Subscribed,
         ClosedOnce, Served, LockHolder, Unmade, RevsAreOld, Progress, Revs
<1> QED
  BY <1>1, <1>2, <1>3 DEF Inv, Subscribed

\* Unsubscribe closes what it finds in the map, and nothing else.
LEMMA UnsubscribeRemoveStep ==
    ASSUME Inv, NEW k \in Clients, UnsubscribeRemove(k)
    PROVE  Inv'
<1>1. CASE current # None
  <2>1. /\ current' = None
        /\ state' \in [Chans -> {"new", "open", "closed", "panic"}]
        /\ \A d \in Chans : state'[d] # "panic" /\ state'[d] # "open"
        /\ \A d \in Chans : state'[d] = "new" => state[d] = "new"
    BY <1>1, RemoveAndCloseIsSafe, NoneIsNew DEF UnsubscribeRemove, Inv, TypeOK
  <2>2. TypeOK'
    BY <2>1, MaxRevNat DEF UnsubscribeRemove, goroutines, ClientGoto, Inv, TypeOK, Revs
  <2>3. ClosedOnce' /\ Served' /\ LockHolder'
    BY <2>1, NoneIsNew
       DEF UnsubscribeRemove, goroutines, ClientGoto, Inv, TypeOK, Subscribed, ClosedOnce, Served, LockHolder
  <2>4. Unmade' /\ RevsAreOld' /\ Progress'
    BY <2>1, NoneIsNew, MaxRevNat
       DEF UnsubscribeRemove, goroutines, ClientGoto, Inv, TypeOK, Subscribed, Unmade, RevsAreOld, Progress, Revs
  <2> QED
    BY <2>2, <2>3, <2>4 DEF Inv, Subscribed
<1>2. CASE ~(current # None)
  <2>1. UNCHANGED <<current, state>>
    BY <1>2 DEF UnsubscribeRemove
  <2>2. TypeOK'
    BY <2>1, MaxRevNat DEF UnsubscribeRemove, goroutines, ClientGoto, Inv, TypeOK, Revs
  <2>3. ClosedOnce' /\ Served' /\ LockHolder'
    BY <1>2, <2>1, NoneIsNew
       DEF UnsubscribeRemove, goroutines, ClientGoto, Inv, TypeOK, Subscribed, ClosedOnce, Served, LockHolder
  <2>4. Unmade' /\ RevsAreOld' /\ Progress'
    BY <2>1, NoneIsNew, MaxRevNat
       DEF UnsubscribeRemove, goroutines, ClientGoto, Inv, TypeOK, Subscribed, ClosedOnce, Unmade, RevsAreOld,
           Progress, Revs
  <2> QED
    BY <2>2, <2>3, <2>4 DEF Inv, Subscribed
<1> QED
  BY <1>1, <1>2

\* Reading takes a list out of the buffer.
LEMMA ReceiveStep ==
    ASSUME Inv, NEW k \in Clients, Receive(k)
    PROVE  Inv'
<1>1. TypeOK'
  <2>1. held[k] \in Chans /\ buf[held[k]] \in Seq(Revs) /\ buf[held[k]] # <<>>
    BY DEF Receive, Inv, TypeOK
  <2>2. /\ Head(buf[held[k]]) \in Revs
        /\ Tail(buf[held[k]]) \in Seq(Revs)
        /\ Len(Tail(buf[held[k]])) <= Len(buf[held[k]])
    BY <2>1
  <2>3. got' \in [Clients -> Revs]
    BY <2>2 DEF Receive, Inv, TypeOK
  <2>4. buf' = [buf EXCEPT ![held[k]] = Tail(buf[held[k]])]
    BY DEF Receive
  <2>5. buf' \in [Chans -> Seq(Revs)]
    BY <2>1, <2>2, <2>4 DEF Inv, TypeOK
  <2>6. \A c \in Chans : Len(buf'[c]) <= Capacity
    BY <2>1, <2>2, <2>4, CapacityPositive DEF Inv, TypeOK
  <2> QED
    BY <2>3, <2>5, <2>6 DEF Receive, goroutines, Inv, TypeOK
<1>2. ClosedOnce' /\ Served' /\ LockHolder'
  BY NoneIsNew
     DEF Receive, goroutines, Inv, TypeOK, Subscribed, ClosedOnce, Served, LockHolder,
         Unmade
<1>3. Unmade' /\ RevsAreOld' /\ Progress'
  BY NoneIsNew, MaxRevNat
     DEF Receive, goroutines, Inv, TypeOK, Subscribed, ClosedOnce, Served, LockHolder,
         Unmade, RevsAreOld, Progress, Revs
<1> QED
  BY <1>1, <1>2, <1>3 DEF Inv, Subscribed

\* An event starts a round.
LEMMA WatchEventStep ==
    ASSUME Inv, NEW c \in Chans, WatchEvent(c)
    PROVE  Inv'
<1>1. TypeOK'
  <2>1. PICK r \in seen[c] + 1..rev : seen' = [seen EXCEPT ![c] = r]
    BY DEF WatchEvent
  <2>2. r \in Revs
    BY <2>1, MaxRevNat DEF Inv, TypeOK, Revs
  <2>3. seen' \in [Chans -> Revs]
    BY <2>1, <2>2 DEF Inv, TypeOK
  <2> QED
    BY <2>3 DEF WatchEvent, channels, clients, WatchGoto, Inv, TypeOK
<1>2. ClosedOnce' /\ Served' /\ LockHolder'
  BY NoneIsNew
     DEF WatchEvent, channels, clients, WatchGoto, Inv, TypeOK, Subscribed, ClosedOnce,
         Served, LockHolder, Unmade
<1>3. Unmade' /\ RevsAreOld' /\ Progress'
  BY NoneIsNew, MaxRevNat
     DEF WatchEvent, channels, clients, WatchGoto, Inv, TypeOK, Subscribed, ClosedOnce,
         Served, LockHolder, Unmade, RevsAreOld, Progress, Revs
<1> QED
  BY <1>1, <1>2, <1>3 DEF Inv, Subscribed

\* The list read in a round is as new as etcd.
LEMMA WatchListStep ==
    ASSUME Inv, NEW c \in Chans, WatchList(c)
    PROVE  Inv'
<1>1. TypeOK'
  BY NoneIsNew, CapacityPositive, MaxRevNat
     DEF WatchList, channels, clients, WatchGoto, Inv, TypeOK, Revs
<1>2. ClosedOnce' /\ Served' /\ LockHolder'
  BY NoneIsNew
     DEF WatchList, channels, clients, WatchGoto, Inv, TypeOK, Subscribed, ClosedOnce,
         Served, LockHolder, Unmade
<1>3. Unmade' /\ RevsAreOld' /\ Progress'
  BY NoneIsNew, MaxRevNat
     DEF WatchList, channels, clients, WatchGoto, Inv, TypeOK, Subscribed, ClosedOnce,
         Served, LockHolder, Unmade, RevsAreOld, Progress, Revs
<1> QED
  BY <1>1, <1>2, <1>3 DEF Inv, Subscribed

\* A failed round is a missed change.
LEMMA WatchListFailsStep ==
    ASSUME Inv, NEW c \in Chans, WatchListFails(c)
    PROVE  Inv'
<1>1. TypeOK'
  BY NoneIsNew, CapacityPositive, MaxRevNat
     DEF WatchListFails, channels, clients, WatchGoto, Inv, TypeOK, Revs
<1>2. ClosedOnce' /\ Served' /\ LockHolder'
  BY NoneIsNew
     DEF WatchListFails, channels, clients, WatchGoto, Inv, TypeOK, Subscribed,
         ClosedOnce, Served, LockHolder, Unmade
<1>3. Unmade' /\ RevsAreOld' /\ Progress'
  BY NoneIsNew, MaxRevNat
     DEF WatchListFails, channels, clients, WatchGoto, Inv, TypeOK, Subscribed,
         ClosedOnce, Served, LockHolder, Unmade, RevsAreOld, Progress, Revs
<1> QED
  BY <1>1, <1>2, <1>3 DEF Inv, Subscribed

\* The check decides between sending and ending.
LEMMA WatchCheckStep ==
    ASSUME Inv, NEW c \in Chans, WatchCheck(c)
    PROVE  Inv'
<1>1. TypeOK'
  BY NoneIsNew, CapacityPositive, MaxRevNat
     DEF WatchCheck, channels, clients, WatchGoto, Inv, TypeOK, Revs
<1>2. ClosedOnce' /\ Served' /\ LockHolder'
  BY NoneIsNew
     DEF WatchCheck, channels, clients, WatchGoto, Inv, TypeOK, Subscribed, ClosedOnce,
         Served, LockHolder, Unmade
<1>3. Unmade' /\ RevsAreOld' /\ Progress'
  BY NoneIsNew, MaxRevNat
     DEF WatchCheck, channels, clients, WatchGoto, Inv, TypeOK, Subscribed, ClosedOnce,
         Served, LockHolder, Unmade, RevsAreOld, Progress, Revs
<1> QED
  BY <1>1, <1>2, <1>3 DEF Inv, Subscribed

\* What is sent is what was listed after the events seen; what is not sent is missed.
LEMMA WatchSendStep ==
    ASSUME Inv, NEW c \in Chans, WatchSend(c)
    PROVE  Inv'
<1>2. /\ watch' = [watch EXCEPT ![c] = "wait"]
      /\ missed' = [missed EXCEPT ![c] = ~(Len(buf[c]) < Capacity)]
      /\ missed' \in [Chans -> BOOLEAN]
      /\ watch[c] = "send"
      /\ listed' \in [Chans -> Revs]
  BY MaxRevNat DEF WatchSend, WatchGoto, Inv, TypeOK, Revs
<1>1. TypeOK'
  <2>1. listed[c] \in Revs /\ buf[c] \in Seq(Revs) /\ Len(buf[c]) \in Nat
    BY DEF Inv, TypeOK
  <2>2. CASE Len(buf[c]) < Capacity
    <3>1. /\ Append(buf[c], listed[c]) \in Seq(Revs)
          /\ Len(Append(buf[c], listed[c])) = Len(buf[c]) + 1
      BY <2>1
    <3>2. /\ buf' = [buf EXCEPT ![c] = Append(buf[c], listed[c])]
          /\ sent' = [sent EXCEPT ![c] = listed[c]]
      BY <2>2 DEF WatchSend
    <3>3. buf' \in [Chans -> Seq(Revs)] /\ sent' \in [Chans -> Revs]
      BY <2>1, <3>1, <3>2 DEF Inv, TypeOK
    <3>4. \A d \in Chans : Len(buf'[d]) <= Capacity
      BY <2>1, <2>2, <3>1, <3>2, CapacityPositive DEF Inv, TypeOK
    <3> QED
      BY <3>3, <3>4, <1>2, MaxRevNat DEF WatchSend, clients, WatchGoto, Inv, TypeOK, Revs
  <2>3. CASE ~(Len(buf[c]) < Capacity)
    <3>1. buf' = buf /\ sent' = sent
      BY <2>3 DEF WatchSend, Inv, TypeOK
    <3> QED
      BY <3>1, <1>2, MaxRevNat DEF WatchSend, clients, WatchGoto, Inv, TypeOK, Revs
  <2> QED
    BY <2>2, <2>3
<1>3. ClosedOnce' /\ Served' /\ LockHolder'
  BY NoneIsNew
     DEF WatchSend, clients, WatchGoto, Inv, TypeOK, Subscribed, ClosedOnce, Served,
         LockHolder, Unmade
<1>4. Unmade' /\ RevsAreOld' /\ Progress'
  <2>1. Unmade'
    BY <1>2 DEF WatchSend, WatchGoto, Inv, TypeOK, Subscribed, Unmade
  <2>2. RevsAreOld'
    BY DEF WatchSend, Inv, TypeOK, Subscribed, RevsAreOld, Revs
  <2>3. CASE Len(buf[c]) < Capacity
    <3>1. sent' = [sent EXCEPT ![c] = listed[c]]
      BY <2>3 DEF WatchSend
    <3> QED
      BY <2>1, <2>2, <2>3, <3>1, <1>2
         DEF WatchSend, WatchGoto, Inv, TypeOK, Subscribed, Served, Progress
  <2>4. CASE ~(Len(buf[c]) < Capacity)
    <3>1. missed'[c] /\ sent' = sent
      BY <2>4 DEF WatchSend, Inv, TypeOK
    <3> QED
      BY <2>1, <2>2, <2>4, <3>1, <1>2
         DEF WatchSend, WatchGoto, Inv, TypeOK, Subscribed, Served, Progress
  <2> QED
    BY <2>3, <2>4
<1> QED
  BY <1>1, <1>3, <1>4 DEF Inv, Subscribed

\* A send on a closed channel ends the goroutine.
LEMMA WatchSendPanicsStep ==
    ASSUME Inv, NEW c \in Chans, WatchSendPanics(c)
    PROVE  Inv'
<1>1. TypeOK'
  BY NoneIsNew, CapacityPositive, MaxRevNat
     DEF WatchSendPanics, channels, clients, WatchGoto, Inv, TypeOK, Revs
<1>2. ClosedOnce' /\ Served' /\ LockHolder'
  BY NoneIsNew
     DEF WatchSendPanics, channels, clients, WatchGoto, Inv, TypeOK, Subscribed,
         ClosedOnce, Served, LockHolder, Unmade
<1>3. Unmade' /\ RevsAreOld' /\ Progress'
  BY NoneIsNew, MaxRevNat
     DEF WatchSendPanics, channels, clients, WatchGoto, Inv, TypeOK, Subscribed,
         ClosedOnce, Served, LockHolder, Unmade, RevsAreOld, Progress, Revs
<1> QED
  BY <1>1, <1>2, <1>3 DEF Inv, Subscribed

\* So does the end of the watch.
LEMMA WatchStopsStep ==
    ASSUME Inv, NEW c \in Chans, WatchStops(c)
    PROVE  Inv'
<1>1. TypeOK'
  BY NoneIsNew, CapacityPositive, MaxRevNat
     DEF WatchStops, channels, clients, WatchGoto, Inv, TypeOK, Revs
<1>2. ClosedOnce' /\ Served' /\ LockHolder'
  BY NoneIsNew
     DEF WatchStops, channels, clients, WatchGoto, Inv, TypeOK, Subscribed, ClosedOnce,
         Served, LockHolder, Unmade
<1>3. Unmade' /\ RevsAreOld' /\ Progress'
  BY NoneIsNew, MaxRevNat
     DEF WatchStops, channels, clients, WatchGoto, Inv, TypeOK, Subscribed, ClosedOnce,
         Served, LockHolder, Unmade, RevsAreOld, Progress, Revs
<1> QED
  BY <1>1, <1>2, <1>3 DEF Inv, Subscribed

\* The deferred function closes its own channel, if it is still in the map.
LEMMA WatchCleanupStep ==
    ASSUME Inv, NEW c \in Chans, WatchCleanup(c)
    PROVE  Inv'
<1>1. /\ UNCHANGED <<rev, registry, mu, handle, buf, client, held, got>>
      /\ watch' = [watch EXCEPT ![c] = "done"]
      /\ seen' = [seen EXCEPT ![c] = 0]
      /\ listed' = [listed EXCEPT ![c] = 0]
      /\ sent' = [sent EXCEPT ![c] = 0]
      /\ missed' = [missed EXCEPT ![c] = FALSE]
      /\ cancelled' = [cancelled EXCEPT ![c] = TRUE]
      /\ watch[c] = "exit" /\ mu = None
  BY DEF WatchCleanup, clients, WatchGoto
<1>2. /\ current' = IF current = c THEN None ELSE current
      /\ state' \in [Chans -> {"new", "open", "closed", "panic"}]
      /\ \A d \in Chans : state'[d] # "panic" /\ (state'[d] = "open" <=> d = current')
      /\ \A d \in Chans : state'[d] = "new" => state[d] = "new"
  <2>1. CASE current = c
    <3>1. /\ current' = None
          /\ state' \in [Chans -> {"new", "open", "closed", "panic"}]
          /\ \A d \in Chans : state'[d] # "panic" /\ state'[d] # "open"
          /\ \A d \in Chans : state'[d] = "new" => state[d] = "new"
      BY <2>1, RemoveAndCloseIsSafe DEF WatchCleanup, Inv, TypeOK
    <3> QED
      BY <2>1, <3>1, NoneIsNew
  <2>2. CASE ~(current = c)
    BY <2>2 DEF WatchCleanup, Inv, TypeOK, Subscribed, ClosedOnce
  <2> QED
    BY <2>1, <2>2
<1>3. TypeOK'
  <2>1. /\ seen' \in [Chans -> Revs]
        /\ listed' \in [Chans -> Revs]
        /\ sent' \in [Chans -> Revs]
    BY <1>1, MaxRevNat DEF Inv, TypeOK, Revs
  <2>2. missed' \in [Chans -> BOOLEAN] /\ cancelled' \in [Chans -> BOOLEAN]
    BY <1>1 DEF Inv, TypeOK
  <2>3. watch' \in [Chans -> {"none", "wait", "list", "check", "send", "exit", "done"}]
    BY <1>1 DEF Inv, TypeOK
  <2>4. current' \in Chans \cup {None}
    BY <1>2 DEF Inv, TypeOK
  <2> QED
    BY <1>1, <1>2, <2>1, <2>2, <2>3, <2>4 DEF Inv, TypeOK, Revs
<1>4. ClosedOnce' /\ Served' /\ LockHolder'
  BY <1>1, <1>2, NoneIsNew DEF Inv, TypeOK, Subscribed, ClosedOnce, Served, LockHolder
<1>5. Unmade'
  BY <1>1, <1>2 DEF Inv, TypeOK, Subscribed, Unmade
<1>6. RevsAreOld'
  BY <1>1 DEF Inv, TypeOK, Subscribed, RevsAreOld, Revs
<1>7. Progress'
  BY <1>1 DEF Inv, TypeOK, Subscribed, Progress, Revs
<1> QED
  BY <1>3, <1>4, <1>5, <1>6, <1>7 DEF Inv, Subscribed

\* Close closes what is in the map.
LEMMA CloseWatchersStep ==
    ASSUME Inv, CloseWatchers
    PROVE  Inv'
<1>1. CASE current # None
  <2>1. /\ current' = None
        /\ state' \in [Chans -> {"new", "open", "closed", "panic"}]
        /\ \A d \in Chans : state'[d] # "panic" /\ state'[d] # "open"
        /\ \A d \in Chans : state'[d] = "new" => state[d] = "new"
    BY <1>1, RemoveAndCloseIsSafe, NoneIsNew DEF CloseWatchers, Inv, TypeOK
  <2>2. TypeOK'
    BY <2>1, MaxRevNat DEF CloseWatchers, goroutines, clients, Inv, TypeOK, Revs
  <2>3. ClosedOnce' /\ Served' /\ LockHolder'
    BY <2>1, NoneIsNew
       DEF CloseWatchers, goroutines, clients, Inv, TypeOK, Subscribed, ClosedOnce, Served, LockHolder
  <2>4. Unmade' /\ RevsAreOld' /\ Progress'
    BY <2>1, NoneIsNew, MaxRevNat
       DEF CloseWatchers, goroutines, clients, Inv, TypeOK, Subscribed, Unmade, RevsAreOld, Progress, Revs
  <2> QED
    BY <2>2, <2>3, <2>4 DEF Inv, Subscribed
<1>2. CASE ~(current # None)
  <2>1. UNCHANGED <<current, state>>
    BY <1>2 DEF CloseWatchers
  <2>2. TypeOK'
    BY <2>1, MaxRevNat DEF CloseWatchers, goroutines, clients, Inv, TypeOK, Revs
  <2>3. ClosedOnce' /\ Served' /\ LockHolder'
    BY <1>2, <2>1, NoneIsNew
       DEF CloseWatchers, goroutines, clients, Inv, TypeOK, Subscribed, ClosedOnce, Served, LockHolder
  <2>4. Unmade' /\ RevsAreOld' /\ Progress'
    BY <2>1, NoneIsNew, MaxRevNat
       DEF CloseWatchers, goroutines, clients, Inv, TypeOK, Subscribed, ClosedOnce, Unmade, RevsAreOld,
           Progress, Revs
  <2> QED
    BY <2>2, <2>3, <2>4 DEF Inv, Subscribed
<1> QED
  BY <1>1, <1>2

\* Closing the client of etcd leaves the channels alone.
LEMMA CloseClientStep ==
    ASSUME Inv, CloseClient
    PROVE  Inv'
<1>1. TypeOK'
  BY NoneIsNew, CapacityPositive, MaxRevNat
     DEF CloseClient, channels, goroutines, clients, Inv, TypeOK, Revs
<1>2. ClosedOnce' /\ Served' /\ LockHolder'
  BY NoneIsNew
     DEF CloseClient, channels, goroutines, clients, Inv, TypeOK, Subscribed,
         ClosedOnce, Served, LockHolder, Unmade
<1>3. Unmade' /\ RevsAreOld' /\ Progress'
  BY NoneIsNew, MaxRevNat
     DEF CloseClient, channels, goroutines, clients, Inv, TypeOK, Subscribed,
         ClosedOnce, Served, LockHolder, Unmade, RevsAreOld, Progress, Revs
<1> QED
  BY <1>1, <1>2, <1>3 DEF Inv, Subscribed

\* A change makes every goroutine late, or is missed between list and watch.
LEMMA ChangeStep ==
    ASSUME Inv, Change
    PROVE  Inv'
<1>1. TypeOK'
  BY MaxRevNat DEF Change, channels, clients, Inv, TypeOK, Revs
<1>2. ClosedOnce' /\ Served' /\ LockHolder'
  BY DEF Change, channels, clients, Inv, Subscribed, ClosedOnce, Served, LockHolder
<1>3. Unmade'
  BY NoneIsNew DEF Change, channels, Inv, TypeOK, Subscribed, ClosedOnce, Unmade
<1>4. RevsAreOld'
  BY MaxRevNat DEF Change, channels, Inv, TypeOK, Subscribed, RevsAreOld, Revs
<1>5. ASSUME NEW c \in Chans, ~missed'[c]
      PROVE  ~missed[c] /\ ~(mu # None /\ c = current)
  BY <1>5 DEF Change
<1>6. Progress'
  BY <1>5 DEF Change, channels, Inv, Subscribed, Progress
<1> QED
  BY <1>1, <1>2, <1>3, <1>4, <1>6 DEF Inv, Subscribed

-----------------------------------------------------------------------------
\* Every step of the registry, its goroutines, its clients and etcd preserves
\* the invariant.
LEMMA SubscribedStep == Inv /\ [Next]_vars => Inv'
<1> SUFFICES ASSUME Inv, [Next]_vars PROVE Inv'
  OBVIOUS
<1>1. CASE UNCHANGED vars
  BY <1>1 DEF vars, Inv, TypeOK, Subscribed, ClosedOnce, Served, LockHolder, Unmade,
              RevsAreOld, Progress
<1>2. ASSUME NEW k \in Clients,
             \/ SubscribeExisting(k) \/ SubscribeList(k) \/ UnsubscribeCancel(k)
             \/ ClientStep(k) \/ Receive(k)
      PROVE  Inv'
  BY <1>2, SubscribeExistingStep, SubscribeListStep, SubscribeWatchStep,
     UnsubscribeCancelStep, UnsubscribeForgetStep, UnsubscribeLookStep,
     UnsubscribeRemoveStep, ReceiveStep
     DEF ClientStep
<1>3. ASSUME NEW c \in Chans, WatchStep(c) \/ WatchStops(c)
      PROVE  Inv'
  BY <1>3, WatchEventStep, WatchListStep, WatchListFailsStep, WatchCheckStep,
     WatchSendStep, WatchSendPanicsStep, WatchStopsStep, WatchCleanupStep
     DEF WatchStep
<1>4. CASE CloseWatchers \/ CloseClient \/ Change
  BY <1>4, CloseWatchersStep, CloseClientStep, ChangeStep
<1> QED
  BY <1>1, <1>2, <1>3, <1>4 DEF Next

\* The inductive invariant of the subscriptions, with the types, for any number
\* of clients and channels.
THEOREM SubscribedHolds == Spec => [](TypeOK /\ Subscribed)
<1>1. Init => Inv
  BY SubscribedInit
<1>2. Inv /\ [Next]_vars => Inv'
  BY SubscribedStep
<1> QED
  BY <1>1, <1>2, PTL DEF Spec, Inv

\* Unsubscribe, Close and the watch goroutines never close a channel twice, and
\* the channel in the map is the only open one.
THEOREM ClosedOnceHolds == Spec => []ClosedOnce
<1>1. TypeOK /\ Subscribed => ClosedOnce
  BY DEF Subscribed
<1> QED
  BY <1>1, SubscribedHolds, PTL

\* The channel a Subscribe is handed from the map has a live goroutine.
THEOREM ServedHolds == Spec => []Served
<1>1. TypeOK /\ Subscribed => Served
  BY DEF Subscribed
<1> QED
  BY <1>1, SubscribedHolds, PTL

\* A goroutine at rest has sent the latest list, unless it missed a change in
\* one of the three ways the code has.
THEOREM SettledIsCurrentHolds == Spec => []SettledIsCurrent
<1>1. TypeOK /\ Subscribed => SettledIsCurrent
  BY MaxRevNat DEF TypeOK, Subscribed, RevsAreOld, Progress, SettledIsCurrent, Revs
<1> QED
  BY <1>1, SubscribedHolds, PTL

-----------------------------------------------------------------------------
(***************************************************************************)
(* InOrder.  One channel is open at a time, and what a new one starts with *)
(* is listed when the old one is closed, so the lists of all channels come *)
(* in one order: a closed channel's before the open one's, and those in a  *)
(* buffer before the one that is still to be sent.                         *)
(***************************************************************************)
Buffered(c) == {buf[c][n] : n \in 1..Len(buf[c])}

\* The goroutine of the open channel, or its Subscribe, carries a list.
Listing(c) == watch[c] \in {"check", "send"} \/ mu # None

\* The lists that are still to be received from the open channel.
Coming(c) == Buffered(c) \cup (IF Listing(c) THEN {listed[c]} ELSE {})

BuffersAreOrdered ==
    \A c \in Chans : \A m, n \in 1..Len(buf[c]) : m <= n => buf[c][m] <= buf[c][n]

ListsAreOld ==
    /\ \A c \in Chans : \A r \in Buffered(c) : r <= rev
    /\ \A k \in Clients : got[k] <= rev

\* What comes on the open channel is newer than what is buffered anywhere else, and
\* than what anybody has received.
OpenIsNewest ==
    \A c \in Chans : c = current =>
        /\ Listing(c) => \A r \in Buffered(c) : r <= listed[c]
        /\ \A d \in Chans \ {c} : \A r \in Buffered(d), s \in Coming(c) : r <= s
        /\ \A k \in Clients : \A s \in Coming(c) : got[k] <= s

\* What waits for a client is not older than what it has.
HeldIsNewer ==
    \A k \in Clients : \A c \in Chans : c = held[k] => \A r \in Buffered(c) : got[k] <= r

Ordered == BuffersAreOrdered /\ ListsAreOld /\ OpenIsNewest /\ HeldIsNewer

\* What Append and Tail leave of a buffer.
LEMMA AppendedList ==
    ASSUME NEW b \in Seq(Revs), NEW r \in Revs
    PROVE  /\ Append(b, r) \in Seq(Revs)
           /\ Len(b) \in Nat
           /\ Len(Append(b, r)) = Len(b) + 1
           /\ Append(b, r)[Len(b) + 1] = r
           /\ \A n \in 1..Len(b) : Append(b, r)[n] = b[n]
OBVIOUS

LEMMA TakenList ==
    ASSUME NEW b \in Seq(Revs), b # <<>>
    PROVE  /\ Tail(b) \in Seq(Revs)
           /\ Len(b) \in Nat
           /\ Len(Tail(b)) = Len(b) - 1
           /\ Head(b) = b[1]
           /\ 1 \in 1..Len(b)
           /\ \A n \in 1..Len(Tail(b)) : n + 1 \in 1..Len(b) /\ Tail(b)[n] = b[n + 1]
OBVIOUS

\* The values compared are revisions.
LEMMA RevsAreNumbers ==
    ASSUME TypeOK
    PROVE  /\ rev \in Nat
           /\ \A c \in Chans : Buffered(c) \subseteq Nat /\ listed[c] \in Nat /\ Len(buf[c]) \in Nat
           /\ \A c \in Chans : Coming(c) \subseteq Nat
           /\ \A k \in Clients : got[k] \in Nat
<1>1. Revs \subseteq Nat
  BY MaxRevNat DEF Revs
<1>2. \A c \in Chans : Buffered(c) \subseteq Revs /\ listed[c] \in Revs /\ Len(buf[c]) \in Nat
  BY DEF TypeOK, Buffered
<1> QED
  BY <1>1, <1>2 DEF TypeOK, Coming

-----------------------------------------------------------------------------
\* A step that moves no list: what is open was open, and carries nothing new.
LEMMA NoListMoves ==
    ASSUME Inv, Inv', Ordered, buf' = buf, got' = got, rev' >= rev,
           \A k \in Clients : held'[k] \in {held[k], None},
           \A c \in Chans : c = current' =>
               c = current /\ (Listing(c)' => Listing(c) /\ listed'[c] = listed[c])
    PROVE  Ordered'
<1>1. \A c \in Chans : Buffered(c)' = Buffered(c)
  BY DEF Buffered
<1>2. \A c \in Chans : c = current' => Coming(c)' \subseteq Coming(c)
  BY <1>1 DEF Coming
<1>3. BuffersAreOrdered'
  BY DEF Ordered, BuffersAreOrdered
<1>4. ListsAreOld'
  <2>1. /\ rev \in Nat /\ rev' \in Nat
        /\ \A c \in Chans : Buffered(c) \subseteq Nat
        /\ \A k \in Clients : got[k] \in Nat
    <3>1. rev' \in Nat
      BY MaxRevNat DEF Inv, TypeOK, Revs
    <3> QED
      BY <3>1, RevsAreNumbers DEF Inv
  <2> QED
    BY <1>1, <2>1 DEF Ordered, ListsAreOld
<1>5. OpenIsNewest'
  BY <1>1, <1>2 DEF Ordered, OpenIsNewest
<1>6. HeldIsNewer'
  BY <1>1, NoneIsNew DEF Ordered, HeldIsNewer
<1> QED
  BY <1>3, <1>4, <1>5, <1>6 DEF Ordered

\* The open channel gets the list that was carried for it.
LEMMA ListIsSent ==
    ASSUME Inv, Inv', Ordered, NEW c \in Chans, c = current, Listing(c),
           buf' = [buf EXCEPT ![c] = Append(buf[c], listed[c])],
           ~Listing(c)', UNCHANGED <<rev, got, held, current>>
    PROVE  Ordered'
<1> DEFINE b == buf[c]
           r == listed[c]
<1>1. b \in Seq(Revs) /\ r \in Revs
  BY DEF Inv, TypeOK
<1>2. buf'[c] = Append(b, r) /\ \A d \in Chans \ {c} : buf'[d] = buf[d]
  BY DEF Inv, TypeOK
<1> HIDE DEF b, r
<1>3. /\ Len(b) \in Nat
      /\ Len(buf'[c]) = Len(b) + 1
      /\ buf'[c][Len(b) + 1] = r
      /\ \A n \in 1..Len(b) : buf'[c][n] = b[n]
  BY <1>1, <1>2, AppendedList
<1>4. Buffered(c)' = Buffered(c) \cup {r}
  <2>1. \A n \in 1..(Len(b) + 1) : n \in 1..Len(b) \/ n = Len(b) + 1
    BY <1>3
  <2>2. \A n \in 1..Len(b) : n \in 1..(Len(b) + 1)
    BY <1>3
  <2>3. Len(b) + 1 \in 1..(Len(b) + 1)
    BY <1>3
  <2> QED
    BY <1>3, <2>1, <2>2, <2>3 DEF Buffered, b
<1>5. \A d \in Chans \ {c} : Buffered(d)' = Buffered(d)
  BY <1>2 DEF Buffered
<1>6. Coming(c)' = Coming(c)
  BY <1>4 DEF Coming, r
<1>7. \A x \in Buffered(c) : x <= r
  BY DEF Ordered, OpenIsNewest, r
<1>8. BuffersAreOrdered'
  <2>1. ASSUME NEW m \in 1..Len(buf'[c]), NEW n \in 1..Len(buf'[c]), m <= n
        PROVE  buf'[c][m] <= buf'[c][n]
    <3>1. CASE n \in 1..Len(b)
      <4>1. m \in 1..Len(b)
        BY <1>3, <2>1, <3>1
      <4> QED
        BY <1>3, <2>1, <3>1, <4>1 DEF Ordered, BuffersAreOrdered, b
    <3>2. CASE n = Len(b) + 1 /\ m \in 1..Len(b)
      <4>1. b[m] \in Buffered(c)
        BY <3>2 DEF Buffered, b
      <4> QED
        BY <1>3, <1>7, <3>2, <4>1
    <3>3. CASE n = Len(b) + 1 /\ m = n
      <4>1. r \in Nat
        BY <1>1, MaxRevNat DEF Revs
      <4> QED
        BY <1>3, <3>3, <4>1
    <3> QED
      BY <1>3, <2>1, <3>1, <3>2, <3>3
  <2> QED
    BY <1>2, <2>1 DEF Ordered, BuffersAreOrdered
<1>9. ListsAreOld'
  <2>1. r <= rev
    BY DEF Inv, Subscribed, RevsAreOld, r
  <2> QED
    BY <1>4, <1>5, <2>1 DEF Ordered, ListsAreOld
<1>10. OpenIsNewest'
  BY <1>5, <1>6 DEF Ordered, OpenIsNewest
<1>11. HeldIsNewer'
  <2>1. \A k \in Clients : got[k] <= r
    BY DEF Ordered, OpenIsNewest, Coming, r
  <2> QED
    BY <1>4, <1>5, <2>1 DEF Ordered, HeldIsNewer
<1> QED
  BY <1>8, <1>9, <1>10, <1>11 DEF Ordered

\* A list that is read from etcd is the newest of all.
LEMMA ListIsRead ==
    ASSUME Inv, Inv', Ordered, NEW c \in Chans, c = current', listed'[c] = rev,
           current \in {c, None}, UNCHANGED <<rev, got, buf>>,
           \A k \in Clients : held'[k] = held[k] \/ (held'[k] = c /\ buf[c] = <<>>),
           c = current \/ buf[c] = <<>>
    PROVE  Ordered'
<1>1. \A d \in Chans : Buffered(d)' = Buffered(d)
  BY DEF Buffered
<1>2. buf[c] = <<>> => Buffered(c) = {}
  BY DEF Buffered
<1>3. Coming(c)' \subseteq Buffered(c) \cup {rev}
  BY <1>1 DEF Coming
<1>4. BuffersAreOrdered' /\ ListsAreOld'
  BY <1>1 DEF Ordered, BuffersAreOrdered, ListsAreOld
<1>5. OpenIsNewest'
  <2>1. \A d \in Chans : \A r \in Buffered(d) : r <= rev
    BY DEF Ordered, ListsAreOld
  <2>2. \A r \in Buffered(c) : r \in Coming(c)
    BY DEF Coming
  <2>3. ASSUME NEW d \in Chans \ {c}, NEW r \in Buffered(d), NEW s \in Coming(c)' PROVE r <= s
    BY <1>2, <1>3, <2>1, <2>2, <2>3 DEF Ordered, OpenIsNewest
  <2>4. ASSUME NEW k \in Clients, NEW s \in Coming(c)' PROVE got[k] <= s
    BY <1>2, <1>3, <2>2, <2>4 DEF Ordered, OpenIsNewest, ListsAreOld
  <2> QED
    BY <1>1, <2>1, <2>3, <2>4 DEF OpenIsNewest
<1>6. HeldIsNewer'
  BY <1>1, <1>2 DEF Ordered, HeldIsNewer
<1> QED
  BY <1>4, <1>5, <1>6 DEF Ordered

\* A client takes the oldest list of the channel it holds: others that hold an older
\* list, and those that hold the same channel, still have newer ones to come.
LEMMA ReceiveKeepsOrder ==
    ASSUME Inv, Inv', Ordered, NEW k \in Clients, NEW c \in Chans, c = held[k], Receive(k)
    PROVE  Ordered' /\ got'[k] >= got[k]
<1> DEFINE b == buf[c]
<1>1. /\ b \in Seq(Revs) /\ b # <<>>
      /\ got' = [got EXCEPT ![k] = Head(b)]
      /\ buf' = [buf EXCEPT ![c] = Tail(b)]
      /\ UNCHANGED <<rev, mu, current, watch, listed, held>>
  BY DEF Receive, Inv, TypeOK, goroutines
<1>2. buf'[c] = Tail(b) /\ \A d \in Chans \ {c} : buf'[d] = buf[d]
  BY <1>1 DEF Inv, TypeOK
<1>3. got'[k] = Head(b) /\ \A j \in Clients \ {k} : got'[j] = got[j]
  BY <1>1 DEF Inv, TypeOK
<1> HIDE DEF b
<1>4. /\ Len(b) \in Nat /\ Len(Tail(b)) = Len(b) - 1 /\ Head(b) = b[1] /\ 1 \in 1..Len(b)
      /\ \A n \in 1..Len(Tail(b)) : n + 1 \in 1..Len(b) /\ Tail(b)[n] = b[n + 1]
  BY <1>1, TakenList
<1>5. Head(b) \in Buffered(c)
  BY <1>4 DEF Buffered, b
<1>6. Buffered(c)' \subseteq Buffered(c) /\ \A d \in Chans \ {c} : Buffered(d)' = Buffered(d)
  BY <1>2, <1>4 DEF Buffered, b
<1>7. \A r \in Buffered(c)' : Head(b) <= r
  <2> SUFFICES ASSUME NEW n \in 1..Len(Tail(b)) PROVE Head(b) <= Tail(b)[n]
    BY <1>2 DEF Buffered
  <2>1. n + 1 \in 1..Len(b) /\ Tail(b)[n] = b[n + 1] /\ 1 <= n + 1
    BY <1>4
  <2> QED
    BY <1>1, <1>4, <2>1 DEF Ordered, BuffersAreOrdered, b
<1>8. \A d \in Chans : d = current => Coming(d)' \subseteq Coming(d)
  BY <1>1, <1>6 DEF Coming, Listing
<1>9. BuffersAreOrdered'
  <2>1. ASSUME NEW m \in 1..Len(Tail(b)), NEW n \in 1..Len(Tail(b)), m <= n
        PROVE  Tail(b)[m] <= Tail(b)[n]
    <3>1. /\ m + 1 \in 1..Len(b) /\ Tail(b)[m] = b[m + 1]
          /\ n + 1 \in 1..Len(b) /\ Tail(b)[n] = b[n + 1]
          /\ m + 1 <= n + 1
      BY <1>4, <2>1
    <3> QED
      BY <1>1, <3>1 DEF Ordered, BuffersAreOrdered, b
  <2> QED
    BY <1>2, <2>1 DEF Ordered, BuffersAreOrdered
<1>10. ListsAreOld'
  BY <1>1, <1>3, <1>5, <1>6 DEF Ordered, ListsAreOld
<1>11. OpenIsNewest'
  <2>1. \A d \in Chans : d = current => \A s \in Coming(d)' : Head(b) <= s
    <3> SUFFICES ASSUME NEW d \in Chans, d = current, NEW s \in Coming(d)' PROVE Head(b) <= s
      OBVIOUS
    <3>1. CASE d # c
      BY <1>1, <1>5, <1>8, <3>1 DEF Ordered, OpenIsNewest
    <3>2. CASE d = c /\ s \in Buffered(c)'
      BY <1>7, <3>2
    <3>3. CASE d = c /\ Listing(c) /\ s = listed[c]
      BY <1>5, <3>3 DEF Ordered, OpenIsNewest
    <3> QED
      BY <1>1, <3>1, <3>2, <3>3 DEF Coming, Listing
  <2>2. ASSUME NEW d \in Chans, d = current PROVE Listing(d)' => \A r \in Buffered(d)' : r <= listed'[d]
    BY <1>1, <1>6, <2>2 DEF Ordered, OpenIsNewest, Listing
  <2>3. ASSUME NEW d \in Chans, d = current, NEW e \in Chans \ {d},
               NEW r \in Buffered(e)', NEW s \in Coming(d)'
        PROVE  r <= s
    BY <1>6, <1>8, <2>3 DEF Ordered, OpenIsNewest
  <2>4. ASSUME NEW d \in Chans, d = current, NEW j \in Clients, NEW s \in Coming(d)'
        PROVE  got'[j] <= s
    BY <1>3, <1>8, <2>1, <2>4 DEF Ordered, OpenIsNewest
  <2> QED
    BY <1>1, <2>2, <2>3, <2>4 DEF OpenIsNewest
<1>12. HeldIsNewer'
  BY <1>1, <1>3, <1>6, <1>7 DEF Ordered, HeldIsNewer
<1>13. got[k] <= Head(b)
  BY <1>1, <1>5 DEF Ordered, HeldIsNewer
<1>14. got'[k] >= got[k]
  BY <1>3, <1>13
<1> QED
  BY <1>9, <1>10, <1>11, <1>12, <1>14 DEF Ordered

-----------------------------------------------------------------------------
\* Initially nothing is buffered.
LEMMA OrderedInit == Init => Ordered
<1> SUFFICES ASSUME Init PROVE Ordered
  OBVIOUS
<1>1. \A c \in Chans : Buffered(c) = {}
  BY DEF Init, Buffered
<1>2. BuffersAreOrdered
  BY DEF Init, BuffersAreOrdered
<1>3. ListsAreOld /\ OpenIsNewest /\ HeldIsNewer
  BY <1>1, NoneIsNew DEF Init, ListsAreOld, OpenIsNewest, HeldIsNewer
<1> QED
  BY <1>2, <1>3 DEF Ordered

\* The steps of a client.
LEMMA ClientKeepsOrder ==
    ASSUME Inv, Inv', Ordered, NEW k \in Clients,
           \/ SubscribeExisting(k) \/ SubscribeList(k) \/ UnsubscribeCancel(k)
           \/ ClientStep(k) \/ Receive(k)
    PROVE  Ordered' /\ \A j \in Clients : got'[j] >= got[j]
<1>0. \A j \in Clients : got[j] >= got[j]
  BY RevsAreNumbers DEF Inv
<1>1. CASE SubscribeExisting(k)
  <2>1. /\ current \in Chans /\ UNCHANGED <<rev, mu, current, buf, watch, listed, got>>
        /\ held' = [held EXCEPT ![k] = current]
    BY <1>1 DEF SubscribeExisting, channels, goroutines, Inv, TypeOK
  <2>2. \A c \in Chans : Buffered(c)' = Buffered(c) /\ Coming(c)' = Coming(c)
    BY <2>1 DEF Buffered, Coming, Listing
  <2>3. HeldIsNewer'
    BY <2>1, <2>2 DEF Ordered, OpenIsNewest, Coming, HeldIsNewer, Inv, TypeOK
  <2>4. BuffersAreOrdered' /\ ListsAreOld' /\ OpenIsNewest'
    BY <2>1, <2>2 DEF Ordered, BuffersAreOrdered, ListsAreOld, OpenIsNewest, Listing
  <2> QED
    BY <1>0, <2>1, <2>3, <2>4 DEF Ordered
<1>2. CASE SubscribeList(k)
  <2>1. PICK c \in Chans : /\ state[c] = "new"
                           /\ current' = c
                           /\ held' = [held EXCEPT ![k] = c]
                           /\ listed' = [listed EXCEPT ![c] = rev]
    BY <1>2 DEF SubscribeList
  <2>2. buf[c] = <<>>
    BY <2>1 DEF Inv, Subscribed, Unmade
  <2>3. current = None /\ UNCHANGED <<rev, got, buf>>
    BY <1>2 DEF SubscribeList
  <2>4. listed'[c] = rev /\ \A j \in Clients : held'[j] = held[j] \/ held'[j] = c
    BY <2>1 DEF Inv, TypeOK
  <2> QED
    BY <1>0, <2>1, <2>2, <2>3, <2>4, ListIsRead
<1>3. CASE SubscribeWatch(k)
  <2> DEFINE c == held[k]
  <2>1. mu = k /\ c = current /\ c \in Chans
    BY <1>3, NoneIsNew DEF SubscribeWatch, Inv, TypeOK, Subscribed, LockHolder
  <2>2. /\ buf' = [buf EXCEPT ![c] = Append(buf[c], listed[c])]
        /\ UNCHANGED <<rev, got, held, current>>
    BY <1>3 DEF SubscribeWatch
  <2>3. mu' = None /\ watch' = [watch EXCEPT ![c] = "wait"]
    BY <1>3 DEF SubscribeWatch, WatchGoto
  <2> HIDE DEF c
  <2>4. PICK d \in Chans : d = c
    BY <2>1
  <2>5. Listing(d) /\ ~Listing(d)'
    BY <2>1, <2>3, <2>4, NoneIsNew DEF Listing, Inv, TypeOK
  <2>6. Ordered'
    BY <2>1, <2>2, <2>4, <2>5, ListIsSent
  <2> QED
    BY <1>0, <2>2, <2>6
<1>4. CASE UnsubscribeCancel(k) \/ UnsubscribeForget(k) \/ UnsubscribeLook(k)
  <2>1. /\ UNCHANGED <<rev, mu, current, buf, watch, listed, got>>
        /\ \A j \in Clients : held'[j] \in {held[j], None}
    BY <1>4 DEF UnsubscribeCancel, UnsubscribeForget, UnsubscribeLook, channels, goroutines,
                Inv, TypeOK
  <2>2. rev' >= rev
    BY <2>1, RevsAreNumbers DEF Inv
  <2> QED
    BY <1>0, <2>1, <2>2, NoListMoves DEF Listing
<1>5. CASE UnsubscribeRemove(k)
  <2>1. UNCHANGED <<rev, mu, buf, watch, listed, got, held>> /\ current' \in {current, None}
    BY <1>5 DEF UnsubscribeRemove, RemoveAndClose, goroutines
  <2>2. rev' >= rev
    BY <2>1, RevsAreNumbers DEF Inv
  <2>3. \A c \in Chans : c = current' => c = current
    BY <2>1, NoneIsNew
  <2> QED
    BY <1>0, <2>1, <2>2, <2>3, NoListMoves DEF Listing
<1>6. CASE Receive(k)
  <2>1. PICK c \in Chans : c = held[k]
    BY <1>6 DEF Receive, Inv, TypeOK
  <2>2. Ordered' /\ got'[k] >= got[k]
    BY <1>6, <2>1, ReceiveKeepsOrder
  <2>3. \A j \in Clients \ {k} : got'[j] = got[j]
    BY <1>6 DEF Receive, Inv, TypeOK
  <2> QED
    BY <1>0, <2>2, <2>3
<1> QED
  BY <1>1, <1>2, <1>3, <1>4, <1>5, <1>6 DEF ClientStep

\* The steps of a goroutine.
LEMMA WatchKeepsOrder ==
    ASSUME Inv, Inv', Ordered, NEW c \in Chans, WatchStep(c) \/ WatchStops(c)
    PROVE  Ordered' /\ got' = got
<1>1. UNCHANGED <<rev, got, held, mu>> /\ rev' >= rev
  <2>1. UNCHANGED <<rev, got, held, mu>>
    BY DEF WatchStep, WatchEvent, WatchList, WatchListFails, WatchCheck, WatchSend,
           WatchSendPanics, WatchCleanup, WatchStops, clients
  <2> QED
    BY <2>1, RevsAreNumbers DEF Inv
<1>2. CASE WatchEvent(c) \/ WatchListFails(c) \/ WatchCheck(c) \/ WatchSendPanics(c) \/ WatchStops(c)
  <2>1. UNCHANGED <<current, buf, listed>>
    BY <1>2 DEF WatchEvent, WatchListFails, WatchCheck, WatchSendPanics, WatchStops, channels
  <2>2. \A d \in Chans : watch'[d] \in {"check", "send"} => watch[d] \in {"check", "send"}
    BY <1>2 DEF WatchEvent, WatchListFails, WatchCheck, WatchSendPanics, WatchStops, WatchGoto,
                Inv, TypeOK
  <2> QED
    BY <1>1, <2>1, <2>2, NoListMoves DEF Listing
<1>3. CASE WatchList(c)
  <2>1. /\ UNCHANGED <<current, buf>>
        /\ listed' = [listed EXCEPT ![c] = rev]
        /\ watch[c] = "list"
    BY <1>3 DEF WatchList, channels
  <2>2. listed'[c] = rev /\ \A d \in Chans \ {c} : listed'[d] = listed[d] /\ watch'[d] = watch[d]
    BY <1>3, <2>1 DEF WatchList, WatchGoto, Inv, TypeOK
  <2>3. CASE c = current
    BY <1>1, <2>1, <2>2, <2>3, ListIsRead
  <2>4. CASE c # current
    BY <1>1, <2>1, <2>2, <2>4, NoListMoves DEF Listing
  <2> QED
    BY <1>1, <2>3, <2>4
<1>4. CASE WatchSend(c)
  <2>1. /\ c = current
        /\ watch[c] = "send"
        /\ watch' = [watch EXCEPT ![c] = "wait"]
        /\ listed' = [listed EXCEPT ![c] = 0]
        /\ buf' = [buf EXCEPT ![c] = IF Len(buf[c]) < Capacity THEN Append(buf[c], listed[c]) ELSE buf[c]]
        /\ current' = current
    BY <1>4 DEF WatchSend, WatchGoto, Inv, Subscribed, ClosedOnce
  <2>2. mu = None
    BY <2>1 DEF Inv, Subscribed, Served
  <2>3. Listing(c) /\ ~Listing(c)'
    BY <1>1, <2>1, <2>2 DEF Listing, Inv, TypeOK
  <2>4. CASE Len(buf[c]) < Capacity
    <3>1. buf' = [buf EXCEPT ![c] = Append(buf[c], listed[c])]
      BY <2>1, <2>4
    <3> QED
      BY <1>1, <2>1, <2>3, <3>1, ListIsSent
  <2>5. CASE ~(Len(buf[c]) < Capacity)
    <3>1. buf' = buf
      BY <2>1, <2>5 DEF Inv, TypeOK
    <3> QED
      BY <1>1, <2>1, <2>3, <3>1, NoListMoves
  <2> QED
    BY <2>4, <2>5
<1>5. CASE WatchCleanup(c)
  <2>1. /\ current' \in {current, None}
        /\ buf' = buf
        /\ watch' = [watch EXCEPT ![c] = "done"]
        /\ listed' = [listed EXCEPT ![c] = 0]
        /\ mu = None
    BY <1>5 DEF WatchCleanup, RemoveAndClose, WatchGoto
  <2>2. /\ watch'[c] = "done"
        /\ \A d \in Chans \ {c} : watch'[d] = watch[d] /\ listed'[d] = listed[d]
    BY <2>1 DEF Inv, TypeOK
  <2>3. \A d \in Chans : d = current' => d = current /\ (Listing(d)' => Listing(d) /\ listed'[d] = listed[d])
    BY <1>1, <2>1, <2>2, NoneIsNew DEF Listing
  <2> QED
    BY <1>1, <2>1, <2>3, NoListMoves
<1> QED
  BY <1>1, <1>2, <1>3, <1>4, <1>5 DEF WatchStep

\* Every step keeps the order, and gives nobody an older list.
LEMMA OrderedStep ==
    ASSUME Inv, Inv', Ordered, [Next]_vars
    PROVE  Ordered' /\ \A k \in Clients : got'[k] >= got[k]
<1>0. \A j \in Clients : got[j] >= got[j]
  BY RevsAreNumbers DEF Inv
<1>1. CASE UNCHANGED vars
  <2>1. rev' >= rev
    BY <1>1, RevsAreNumbers DEF vars, Inv
  <2> QED
    BY <1>0, <1>1, <2>1, NoListMoves DEF vars, Listing
<1>2. ASSUME NEW k \in Clients,
             \/ SubscribeExisting(k) \/ SubscribeList(k) \/ UnsubscribeCancel(k)
             \/ ClientStep(k) \/ Receive(k)
      PROVE  Ordered' /\ \A j \in Clients : got'[j] >= got[j]
  BY <1>2, ClientKeepsOrder
<1>3. ASSUME NEW c \in Chans, WatchStep(c) \/ WatchStops(c)
      PROVE  Ordered' /\ \A j \in Clients : got'[j] >= got[j]
  BY <1>0, <1>3, WatchKeepsOrder
<1>4. CASE CloseWatchers \/ CloseClient
  <2>1. UNCHANGED <<rev, mu, buf, watch, listed, got, held>> /\ current' \in {current, None}
    BY <1>4 DEF CloseWatchers, CloseClient, RemoveAndClose, channels, goroutines, clients
  <2>2. rev' >= rev
    BY <2>1, RevsAreNumbers DEF Inv
  <2>3. \A c \in Chans : c = current' => c = current
    BY <2>1, NoneIsNew
  <2> QED
    BY <1>0, <2>1, <2>2, <2>3, NoListMoves DEF Listing
<1>5. CASE Change
  <2>1. UNCHANGED <<mu, buf, watch, listed, got, held, current>> /\ rev' = rev + 1
    BY <1>5 DEF Change, channels, clients
  <2>2. rev' >= rev
    BY <2>1, RevsAreNumbers DEF Inv
  <2> QED
    BY <1>0, <2>1, <2>2, NoListMoves DEF Listing
<1> QED
  BY <1>1, <1>2, <1>3, <1>4, <1>5 DEF Next

\* The lists of all channels come in one order, in every state.
THEOREM OrderedHolds == Spec => []Ordered
<1>1. Inv /\ Inv' /\ Ordered /\ [Next]_vars => Ordered'
  BY OrderedStep
<1>2. TypeOK /\ Subscribed <=> Inv
  BY DEF Inv
<1> QED
  BY <1>1, <1>2, OrderedInit, SubscribedHolds, PTL DEF Spec

\* registry.go:132-303: no subscriber goes back to an older list, also
\* when it subscribes anew, when others read the channel it reads, and while a closed
\* channel is still being emptied.
THEOREM InOrderHolds == Spec => InOrder
<1>1. Inv /\ Inv' /\ Ordered /\ [Next]_vars => [\A k \in Clients : got'[k] >= got[k]]_vars
  BY OrderedStep
<1>2. TypeOK /\ Subscribed <=> Inv
  BY DEF Inv
<1> QED
  BY <1>1, <1>2, OrderedHolds, SubscribedHolds, PTL DEF Spec, InOrder
=============================================================================
