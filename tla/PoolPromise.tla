----------------------------- MODULE PoolPromise -----------------------------
(***************************************************************************)
(* What the pool of connections promises to the calls that share it,       *)
(* without channels, sockets, deadlines or worker goroutines.  Every call  *)
(* borrows one connection at most, once, and gives it up itself; a         *)
(* connection is dialled only if none is idle, given up for good only if   *)
(* the pool is full, and never used again after that; a call that asks     *)
(* goes without only if none is idle, the client being closed or not; and  *)
(* closing retires what is idle, one by one, and nothing that is lent.     *)
(***************************************************************************)
EXTENDS Integers, FiniteSets

CONSTANTS Calls, Conns, None, MaxIdle

VARIABLES place,    \* each connection: "undialled", "idle", "lent", "finished"
          phase,    \* each call: "before", "during", "after" its use of one
          held,     \* the connection a call holds, None outside "during"
          stage     \* of the client: "open", "closing", "closed"

vars == <<place, phase, held, stage>>

Idle == {k \in Conns : place[k] = "idle"}

Init ==
    /\ place = [k \in Conns |-> "undialled"]
    /\ phase = [n \in Calls |-> "before"]
    /\ held = [n \in Calls |-> None]
    /\ stage = "open"

Lend(n, k) ==
    /\ phase[n] = "before"
    /\ place' = [place EXCEPT ![k] = "lent"]
    /\ phase' = [phase EXCEPT ![n] = "during"]
    /\ held' = [held EXCEPT ![n] = k]
    /\ UNCHANGED stage

GiveUp(n, where) ==
    /\ phase[n] = "during"
    /\ stage # "closed"
    /\ place' = [place EXCEPT ![held[n]] = where]
    /\ phase' = [phase EXCEPT ![n] = "after"]
    /\ held' = [held EXCEPT ![n] = None]
    /\ UNCHANGED stage

\* An idle connection is lent again ...
Borrow(n) == \E k \in Idle : Lend(n, k)

\* ... and a new one is dialled if there is none.
Dial(n) == Idle = {} /\ \E k \in Conns : place[k] = "undialled" /\ Lend(n, k)

\* A call ends without a connection.
GoWithout(n) ==
    /\ phase[n] = "before"
    /\ Idle = {}
    /\ phase' = [phase EXCEPT ![n] = "after"]
    /\ UNCHANGED <<place, held, stage>>

Return(n) == Cardinality(Idle) < MaxIdle /\ GiveUp(n, "idle")

Discard(n) == Cardinality(Idle) = MaxIdle /\ GiveUp(n, "finished")

BeginClose == stage = "open" /\ stage' = "closing" /\ UNCHANGED <<place, phase, held>>

Close == stage = "closing" /\ stage' = "closed" /\ UNCHANGED <<place, phase, held>>

\* Once the pool is closed its idle connections are finished.
Retire ==
    /\ stage = "closed"
    /\ \E k \in Idle : place' = [place EXCEPT ![k] = "finished"]
    /\ UNCHANGED <<phase, held, stage>>

Next ==
    \/ \E n \in Calls : Borrow(n) \/ Dial(n) \/ GoWithout(n) \/ Return(n) \/ Discard(n)
    \/ BeginClose \/ Close \/ Retire

Spec == Init /\ [][Next]_vars
=============================================================================
