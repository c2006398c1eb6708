------------------------------- MODULE Leases -------------------------------
(***************************************************************************)
(* src/registry/etcd/registry.go: Register, Deregister, UpdateService and  *)
(* Close of one server process for its one key, with the keepalive         *)
(* goroutine that every Register leaves behind, and etcd's leases.         *)
(*                                                                         *)
(* A lease is its number.  The map r.leases holds at most one lease for    *)
(* the key.  Deregister is Load, Revoke, Delete; it is called by the user  *)
(* (process 0) and by the keepalive goroutine of lease n (process n).      *)
(* The user makes one call at a time.  The server may crash and start      *)
(* again; an etcd request may fail.                                        *)
(***************************************************************************)
EXTENDS Integers

CONSTANT MaxLeases   \* bound on the Register calls

ASSUME LeasesAssumption == MaxLeases \in Nat

LeaseIds == 1..MaxLeases
User == 0
Processes == {User} \cup LeaseIds

\* The key is absent, or there without a lease, or attached to a lease.
Absent == -1
Bare == 0

VARIABLES
    lease,      \* etcd: lease -> its state
    key,        \* etcd: the key of the instance
    up,         \* the server process runs
    closed,     \* the etcd client is closed
    register,   \* where Register is: [pc, id]
    leases,     \* r.leases of the key: a lease, or 0 for none
    keeper,     \* keepalive goroutines: lease -> state
    cancelled,  \* leases whose Register context is cancelled
    deregister, \* process -> where its Deregister is: [pc, id]
    wanted,     \* history: the user's last completed call was Register
    again,      \* history: Register was called more than once since the start
    refreshed   \* history: UpdateService was called

etcdVars == <<lease, key>>
localVars == <<register, leases, keeper, cancelled, deregister>>
historyVars == <<wanted, again, refreshed>>
vars == <<etcdVars, up, closed, localVars, historyVars>>

NotRunning == [pc |-> "idle", id |-> 0]

LocalInit ==
    /\ register = NotRunning
    /\ leases = 0
    /\ keeper = [n \in LeaseIds |-> "none"]
    /\ cancelled = {}
    /\ deregister = [p \in Processes |-> NotRunning]
    /\ closed = FALSE

Init ==
    /\ lease = [n \in LeaseIds |-> "none"]
    /\ key = Absent
    /\ up = TRUE
    /\ LocalInit
    /\ wanted = FALSE
    /\ again = FALSE
    /\ refreshed = FALSE

Usable == up /\ ~closed

\* etcd takes a lease away, and the key with it if it is attached.
EndLease(n, how) ==
    /\ lease' = [lease EXCEPT ![n] = how]
    /\ key' = IF key = n THEN Absent ELSE key

-----------------------------------------------------------------------------
(***************************************************************************)
(* Register                                                                *)
(***************************************************************************)
Grant(n) ==
    /\ Usable
    /\ register.pc = "idle"
    /\ deregister[User].pc = "idle"
    /\ lease[n] = "none"
    /\ \A m \in 1..(n - 1) : lease[m] # "none"
    /\ lease' = [lease EXCEPT ![n] = "live"]
    /\ again' = (leases # 0 \/ \E m \in LeaseIds : keeper[m] # "none")
    /\ register' = [pc |-> "put", id |-> n]
    /\ UNCHANGED <<key, up, closed, leases, keeper, cancelled, deregister, wanted, refreshed>>

\* Mutant: Put without WithLease.
PutKeyBare ==
    /\ register.pc = "put"
    /\ Usable
    /\ lease[register.id] = "live"
    /\ key' = Bare
    /\ register' = [register EXCEPT !.pc = "keep"]
    /\ UNCHANGED <<lease, up, closed, leases, keeper, cancelled, deregister, historyVars>>

PutKey ==
    /\ register.pc = "put"
    /\ Usable
    /\ lease[register.id] = "live"
    /\ key' = register.id
    /\ register' = [register EXCEPT !.pc = "keep"]
    /\ UNCHANGED <<lease, up, closed, leases, keeper, cancelled, deregister, historyVars>>

\* Put or KeepAlive fails: Register returns the error and leaves what it has done.
RegisterFails ==
    /\ register.pc # "idle"
    /\ register' = NotRunning
    /\ UNCHANGED <<etcdVars, up, closed, leases, keeper, cancelled, deregister, historyVars>>

\* KeepAlive, the map and the goroutine.
Keep ==
    /\ register.pc = "keep"
    /\ leases' = register.id
    /\ keeper' = [keeper EXCEPT ![register.id] = "waits"]
    /\ register' = NotRunning
    /\ wanted' = TRUE
    /\ UNCHANGED <<etcdVars, up, closed, cancelled, deregister, again, refreshed>>

\* The keepalive goroutine of lease n starts to deregister, and ends with it.
Deregisters(n, keeperState) ==
    /\ keeper[n] = "waits"
    /\ keeper' = [keeper EXCEPT ![n] = keeperState]
    /\ deregister' = [deregister EXCEPT ![n] = [pc |-> "load", id |-> 0]]
    /\ UNCHANGED <<etcdVars, up, closed, register, leases, cancelled, historyVars>>

\* Mutant: any keepalive response is taken for the end of the lease.
NoticeAny(n) == Deregisters(n, "ended")

\* The keepalive channel closes: the lease is gone, the client is closed, or the
\* context is done (then select may take either case).
Notice(n) ==
    /\ lease[n] # "live" \/ closed \/ n \in cancelled
    /\ Deregisters(n, "ended")

\* It closes also when the etcd client has had no answer to its renewals for the
\* time to live, although the lease is alive in etcd.
GiveUp(n) == lease[n] = "live" /\ Usable /\ Deregisters(n, "late")

Cancel(n) ==
    /\ keeper[n] = "waits" \/ deregister[n].pc # "idle"
    /\ n \notin cancelled
    /\ cancelled' = cancelled \cup {n}
    /\ UNCHANGED <<etcdVars, up, closed, register, leases, keeper, deregister, historyVars>>

KeeperCancelled(n) ==
    /\ keeper[n] = "waits"
    /\ n \in cancelled
    /\ keeper' = [keeper EXCEPT ![n] = "ended"]
    /\ UNCHANGED <<etcdVars, up, closed, register, leases, cancelled, deregister, historyVars>>

-----------------------------------------------------------------------------
(***************************************************************************)
(* Deregister                                                              *)
(***************************************************************************)
CallDeregister ==
    /\ up
    /\ deregister[User].pc = "idle"
    /\ register.pc = "idle"
    /\ deregister' = [deregister EXCEPT ![User] = [pc |-> "load", id |-> 0]]
    /\ wanted' = FALSE
    /\ UNCHANGED <<etcdVars, up, closed, register, leases, keeper, cancelled, again, refreshed>>

\* The lease a Deregister finds in the map; 0 when there is none.
Found == leases

Load(p) ==
    /\ deregister[p].pc = "load"
    /\ deregister' = [deregister EXCEPT ![p] =
                        IF Found = 0 THEN NotRunning ELSE [pc |-> "revoke", id |-> Found]]
    /\ UNCHANGED <<etcdVars, up, closed, register, leases, keeper, cancelled, historyVars>>

Revoke(p) ==
    LET n == deregister[p].id
    IN  /\ deregister[p].pc = "revoke"
        /\ Usable
        /\ p \notin cancelled
        /\ lease[n] = "live"
        /\ EndLease(n, "revoked")
        /\ deregister' = [deregister EXCEPT ![p].pc = "delete"]
        /\ UNCHANGED <<up, closed, register, leases, keeper, cancelled, historyVars>>

\* etcd does not know the lease any more or does not answer, or the context is done: the entry stays.
RevokeFails(p) ==
    /\ deregister[p].pc = "revoke"
    /\ deregister' = [deregister EXCEPT ![p] = NotRunning]
    /\ UNCHANGED <<etcdVars, up, closed, register, leases, keeper, cancelled, historyVars>>

Delete(p) ==
    /\ deregister[p].pc = "delete"
    /\ leases' = 0
    /\ deregister' = [deregister EXCEPT ![p] = NotRunning]
    /\ UNCHANGED <<etcdVars, up, closed, register, keeper, cancelled, historyVars>>

-----------------------------------------------------------------------------
(***************************************************************************)
(* UpdateService, Close, and what happens around the process.              *)
(***************************************************************************)
\* Put without a lease detaches the key from the one it had.
PutWithoutLease == Bare

UpdateService ==
    /\ Usable
    /\ key' = PutWithoutLease
    /\ refreshed' = TRUE
    /\ UNCHANGED <<lease, up, closed, localVars, wanted, again>>

Close ==
    /\ Usable
    /\ closed' = TRUE
    /\ UNCHANGED <<etcdVars, up, localVars, historyVars>>

Crash ==
    /\ up
    /\ up' = FALSE
    /\ register' = NotRunning
    /\ leases' = 0
    /\ keeper' = [n \in LeaseIds |-> "none"]
    /\ deregister' = [p \in Processes |-> NotRunning]
    /\ wanted' = FALSE
    /\ again' = FALSE
    /\ UNCHANGED <<etcdVars, closed, cancelled, refreshed>>

Restart ==
    /\ ~up
    /\ up' = TRUE
    /\ closed' = FALSE
    /\ UNCHANGED <<etcdVars, localVars, historyVars>>

\* A lease runs out when nobody renews it, or when renewals do not arrive.
Expire(n) ==
    /\ lease[n] = "live"
    /\ EndLease(n, "expired")
    /\ UNCHANGED <<up, closed, localVars, historyVars>>

Renewed(n) == Usable /\ keeper[n] = "waits" /\ n \notin cancelled

-----------------------------------------------------------------------------
Next ==
    \/ \E n \in LeaseIds :
          \/ Grant(n) \/ Notice(n) \/ GiveUp(n) \/ Cancel(n) \/ KeeperCancelled(n)
          \/ Expire(n)
    \/ PutKey \/ RegisterFails \/ Keep
    \/ CallDeregister
    \/ \E p \in Processes : Load(p) \/ Revoke(p) \/ RevokeFails(p) \/ Delete(p)
    \/ UpdateService \/ Close \/ Crash \/ Restart

Spec == Init /\ [][Next]_vars

\* etcd takes away every lease that is not renewed.
FairSpec == Spec /\ \A n \in LeaseIds : WF_vars(~Renewed(n) /\ Expire(n))

-----------------------------------------------------------------------------
(***************************************************************************)
(* Properties                                                              *)
(***************************************************************************)
\* registry.go:68-127: a registration that succeeded and was not taken back stays, in
\* etcd and in the map Deregister needs, until its lease runs out, as long as
\* Register is called once and the etcd client does not give the lease up: the
\* keepalive goroutine that deregisters on its own hits no other lease that is alive.
RegistrationStands ==
    wanted /\ ~again =>
        \/ \E n \in LeaseIds : keeper[n] = "late"
        \/ leases # 0 /\ (key \in {leases, Bare} \/ lease[leases] = "expired")

\* registry.go:77-84: the entry of a server that crashes disappears unless the server
\* comes back, also when it crashes in the middle of Register or Deregister, or
\* between a registration and the next; UpdateService alone, which puts the key
\* without a lease, can leave it behind.
CrashedDisappears == ~up ~> up \/ key = Absent \/ refreshed

=============================================================================
