---------------------------- MODULE LeasesProofs ----------------------------
(***************************************************************************)
(* Proofs about Leases: a registration stands until its lease runs out,    *)
(* for any number of Register calls.  The danger is the keepalive          *)
(* goroutine that deregisters on its own.  It starts when the keepalive    *)
(* channel closes, and nothing that closes it ever turns back while the    *)
(* process runs (TheReasonStays); so as long as there is one goroutine it  *)
(* can only reach for a lease that it may not revoke any more, or that the *)
(* etcd client has given up.                                               *)
(***************************************************************************)
EXTENDS Leases, TLAPS

LeaseStates == {"none", "live", "revoked", "expired"}
RegisterCalls == [pc : {"idle", "put", "keep"}, id : 0..MaxLeases]
DeregisterCalls == [pc : {"idle", "load", "revoke", "delete"}, id : 0..MaxLeases]

TypeOK ==
    /\ lease \in [LeaseIds -> LeaseStates]
    /\ key \in {Absent, Bare} \cup LeaseIds
    /\ up \in BOOLEAN
    /\ closed \in BOOLEAN
    /\ register \in RegisterCalls
    /\ leases \in 0..MaxLeases
    /\ keeper \in [LeaseIds -> {"none", "waits", "ended", "late"}]
    /\ cancelled \in SUBSET LeaseIds
    /\ deregister \in [Processes -> DeregisterCalls]
    /\ wanted \in BOOLEAN
    /\ again \in BOOLEAN
    /\ refreshed \in BOOLEAN

\* registry.go:77-84: the key is attached to a lease that is alive, so that it goes
\* with it, unless UpdateService has put it without one.
KeyIsAttached ==
    key # Absent => (key \in LeaseIds /\ lease[key] = "live") \/ (key = Bare /\ refreshed)

\* The calls name leases.
CallsNameLeases ==
    /\ register.pc # "idle" => register.id \in LeaseIds
    /\ \A p \in Processes : deregister[p].pc \in {"revoke", "delete"} => deregister[p].id \in LeaseIds

\* The user makes one call at a time; a goroutine deregisters as its last deed.
OneCallAtATime ==
    /\ register.pc # "idle" \/ wanted => deregister[User].pc = "idle"
    /\ \A n \in LeaseIds : deregister[n].pc # "idle" => keeper[n] \in {"ended", "late"}

\* Nothing of a process is left when it is down.
DownIsEmpty ==
    ~up => /\ register.pc = "idle"
           /\ leases = 0
           /\ \A n \in LeaseIds : keeper[n] = "none"
           /\ \A p \in Processes : deregister[p].pc = "idle"
           /\ ~wanted

\* Every registration has left a goroutine behind, one for each lease granted so far.
RegistrationsHaveKeepers ==
    /\ leases # 0 => keeper[leases] # "none"
    /\ again \/ wanted => \E n \in LeaseIds : keeper[n] # "none"
    /\ \A n \in LeaseIds : keeper[n] # "none" => lease[n] # "none"
    /\ register.pc # "idle" => /\ lease[register.id] # "none"
                               /\ keeper[register.id] = "none"

\* The reasons for which a keepalive channel closes.
Over(n) == lease[n] # "live" \/ closed \/ n \in cancelled \/ keeper[n] = "late"

\* The goroutine that deregisters still has its reason, and if it is the only one it
\* looks at its own lease and, unless the etcd client gave that up, never gets past
\* Revoke.
TheReasonStays ==
    \A n \in LeaseIds :
        deregister[n].pc # "idle" =>
            /\ Over(n)
            /\ ~again /\ keeper[n] # "late" =>
                  /\ deregister[n].pc # "delete"
                  /\ deregister[n].pc = "revoke" => deregister[n].id = n

\* One Register since the start: one goroutine, none before Register is done.
OnlyOne ==
    ~again =>
        /\ \A m, n \in LeaseIds : keeper[m] # "none" /\ keeper[n] # "none" => m = n
        /\ register.pc # "idle" => leases = 0 /\ \A n \in LeaseIds : keeper[n] = "none"

\* The key is as Register wants it, or the lease has run out.
Registered(n) == key \in {n, Bare} \/ lease[n] = "expired"

KeptWhileRegistering == ~again /\ register.pc = "keep" => Registered(register.id)

Inv ==
    /\ TypeOK
    /\ KeyIsAttached
    /\ CallsNameLeases
    /\ OneCallAtATime
    /\ DownIsEmpty
    /\ RegistrationsHaveKeepers
    /\ TheReasonStays
    /\ OnlyOne
    /\ KeptWhileRegistering
    /\ RegistrationStands

-----------------------------------------------------------------------------
(***************************************************************************)
(* The invariant, action by action.                                        *)
(***************************************************************************)
\* A lease of its own: only the first Register is not again.
LEMMA GrantStep == ASSUME Inv, NEW n \in LeaseIds, Grant(n) PROVE Inv'
<1>1. TypeOK'
  BY LeasesAssumption DEF Grant, Usable, User, Inv, TypeOK, RegisterCalls,
         DeregisterCalls, LeaseStates, LeaseIds
<1>2. KeyIsAttached' /\ CallsNameLeases'
  BY LeasesAssumption DEF Grant, Usable, User, Inv, TypeOK, KeyIsAttached,
         CallsNameLeases, RegisterCalls, DeregisterCalls, LeaseStates, LeaseIds, Absent,
         Bare
<1>3. OneCallAtATime' /\ DownIsEmpty'
  BY LeasesAssumption DEF Grant, Usable, User, Inv, TypeOK, OneCallAtATime, DownIsEmpty,
         RegisterCalls, DeregisterCalls, LeaseStates, LeaseIds, Processes
<1>4. RegistrationsHaveKeepers' /\ OnlyOne'
  <2>1. /\ lease' = [lease EXCEPT ![n] = "live"]
        /\ lease[n] = "none"
        /\ again' = (leases # 0 \/ \E m \in LeaseIds : keeper[m] # "none")
        /\ register' = [pc |-> "put", id |-> n]
        /\ UNCHANGED <<leases, keeper, wanted>>
    BY DEF Grant
  <2>2. keeper[n] = "none" /\ \A m \in LeaseIds : keeper[m] # "none" => lease'[m] # "none"
    BY <2>1 DEF Inv, TypeOK, RegistrationsHaveKeepers
  <2>3. leases # 0 => leases \in LeaseIds /\ keeper[leases] # "none"
    BY LeasesAssumption DEF Inv, TypeOK, RegistrationsHaveKeepers, LeaseIds
  <2>4. lease'[n] = "live"
    BY <2>1 DEF Inv, TypeOK
  <2>5. RegistrationsHaveKeepers'
    BY <2>1, <2>2, <2>3, <2>4 DEF Inv, RegistrationsHaveKeepers
  <2>6. OnlyOne'
    BY <2>1, <2>3 DEF Inv, OnlyOne
  <2> QED
    BY <2>5, <2>6
<1>5. TheReasonStays'
  BY LeasesAssumption DEF Grant, Usable, User, Inv, TypeOK, TheReasonStays,
         RegistrationsHaveKeepers, OnlyOne, OneCallAtATime, DownIsEmpty,
         CallsNameLeases, Over, RegisterCalls, DeregisterCalls, LeaseStates, LeaseIds,
         Processes
<1>6. KeptWhileRegistering' /\ RegistrationStands'
  BY LeasesAssumption DEF Grant, Usable, User, Inv, TypeOK, KeptWhileRegistering,
         RegistrationStands, Registered, TheReasonStays, RegistrationsHaveKeepers,
         OnlyOne, OneCallAtATime, DownIsEmpty, CallsNameLeases, Over, RegisterCalls,
         DeregisterCalls, LeaseStates, LeaseIds, Processes, Bare
<1> QED
  BY <1>1, <1>2, <1>3, <1>4, <1>5, <1>6 DEF Inv

\* The key moves to the new lease, which only a Register under way does.
LEMMA PutKeyStep == ASSUME Inv, PutKey PROVE Inv'
<1>1. TypeOK'
  BY LeasesAssumption DEF PutKey, Usable, historyVars, Inv, TypeOK, RegisterCalls,
         DeregisterCalls, LeaseStates, CallsNameLeases, LeaseIds
<1>2. KeyIsAttached' /\ CallsNameLeases'
  BY LeasesAssumption DEF PutKey, Usable, historyVars, Inv, TypeOK, KeyIsAttached,
         CallsNameLeases, RegisterCalls, DeregisterCalls, LeaseStates, LeaseIds, Absent,
         Bare
<1>3. OneCallAtATime' /\ DownIsEmpty'
  BY LeasesAssumption DEF PutKey, Usable, historyVars, Inv, TypeOK, OneCallAtATime,
         DownIsEmpty, RegisterCalls, DeregisterCalls, LeaseStates, LeaseIds, Processes,
         User
<1>4. RegistrationsHaveKeepers' /\ OnlyOne'
  BY LeasesAssumption DEF PutKey, Usable, historyVars, Inv, TypeOK,
         RegistrationsHaveKeepers, OnlyOne, OneCallAtATime, DownIsEmpty,
         CallsNameLeases, RegisterCalls, DeregisterCalls, LeaseStates, LeaseIds
<1>5. TheReasonStays'
  BY LeasesAssumption DEF PutKey, Usable, historyVars, Inv, TypeOK, TheReasonStays,
         RegistrationsHaveKeepers, OnlyOne, OneCallAtATime, DownIsEmpty,
         CallsNameLeases, Over, RegisterCalls, DeregisterCalls, LeaseStates, LeaseIds,
         Processes, User
<1>6. KeptWhileRegistering' /\ RegistrationStands'
  BY LeasesAssumption DEF PutKey, Usable, historyVars, Inv, TypeOK,
         KeptWhileRegistering, RegistrationStands, Registered, TheReasonStays,
         RegistrationsHaveKeepers, OnlyOne, OneCallAtATime, DownIsEmpty,
         CallsNameLeases, Over, RegisterCalls, DeregisterCalls, LeaseStates, LeaseIds,
         Processes, User, Bare
<1> QED
  BY <1>1, <1>2, <1>3, <1>4, <1>5, <1>6 DEF Inv

\* A Register that fails leaves its lease and its key to themselves.
LEMMA RegisterFailsStep == ASSUME Inv, RegisterFails PROVE Inv'
<1>1. TypeOK'
  BY LeasesAssumption DEF RegisterFails, NotRunning, etcdVars, historyVars, Inv, TypeOK,
         RegisterCalls, DeregisterCalls, LeaseStates
<1>2. KeyIsAttached' /\ CallsNameLeases'
  BY LeasesAssumption DEF RegisterFails, NotRunning, etcdVars, historyVars, Inv, TypeOK,
         KeyIsAttached, CallsNameLeases, RegisterCalls, DeregisterCalls, LeaseStates,
         LeaseIds, Absent, Bare
<1>3. OneCallAtATime' /\ DownIsEmpty'
  BY LeasesAssumption DEF RegisterFails, NotRunning, etcdVars, historyVars, Inv, TypeOK,
         OneCallAtATime, DownIsEmpty, RegisterCalls, DeregisterCalls, LeaseStates,
         LeaseIds, Processes, User
<1>4. RegistrationsHaveKeepers' /\ OnlyOne'
  BY LeasesAssumption DEF RegisterFails, NotRunning, etcdVars, historyVars, Inv, TypeOK,
         RegistrationsHaveKeepers, OnlyOne, OneCallAtATime, DownIsEmpty,
         CallsNameLeases, RegisterCalls, DeregisterCalls, LeaseStates, LeaseIds
<1>5. TheReasonStays'
  BY LeasesAssumption DEF RegisterFails, NotRunning, etcdVars, historyVars, Inv, TypeOK,
         TheReasonStays, RegistrationsHaveKeepers, OnlyOne, OneCallAtATime, DownIsEmpty,
         CallsNameLeases, Over, RegisterCalls, DeregisterCalls, LeaseStates, LeaseIds,
         Processes, User
<1>6. KeptWhileRegistering' /\ RegistrationStands'
  BY LeasesAssumption DEF RegisterFails, NotRunning, etcdVars, historyVars, Inv, TypeOK,
         KeptWhileRegistering, RegistrationStands, Registered, TheReasonStays,
         RegistrationsHaveKeepers, OnlyOne, OneCallAtATime, DownIsEmpty,
         CallsNameLeases, Over, RegisterCalls, DeregisterCalls, LeaseStates, LeaseIds,
         Processes, User, Bare
<1> QED
  BY <1>1, <1>2, <1>3, <1>4, <1>5, <1>6 DEF Inv

\* The goroutine of the registration is the first.
LEMMA KeepStep == ASSUME Inv, Keep PROVE Inv'
<1>1. TypeOK'
  BY LeasesAssumption DEF Keep, NotRunning, etcdVars, Inv, TypeOK, RegisterCalls,
         DeregisterCalls, LeaseStates, CallsNameLeases, LeaseIds
<1>2. KeyIsAttached' /\ CallsNameLeases'
  BY LeasesAssumption DEF Keep, NotRunning, etcdVars, Inv, TypeOK, KeyIsAttached,
         CallsNameLeases, RegisterCalls, DeregisterCalls, LeaseStates, LeaseIds, Absent,
         Bare
<1>3. OneCallAtATime' /\ DownIsEmpty'
  BY DEF Keep, NotRunning, etcdVars, Inv, TypeOK, OneCallAtATime, DownIsEmpty,
         RegistrationsHaveKeepers, CallsNameLeases, LeaseIds, Processes, User
<1>4. RegistrationsHaveKeepers' /\ OnlyOne'
  BY LeasesAssumption DEF Keep, NotRunning, etcdVars, Inv, TypeOK,
         RegistrationsHaveKeepers, OnlyOne, OneCallAtATime, DownIsEmpty,
         CallsNameLeases, RegisterCalls, DeregisterCalls, LeaseStates, LeaseIds
<1>5. TheReasonStays'
  BY LeasesAssumption DEF Keep, NotRunning, etcdVars, Inv, TypeOK, TheReasonStays,
         RegistrationsHaveKeepers, OnlyOne, OneCallAtATime, DownIsEmpty,
         CallsNameLeases, Over, RegisterCalls, DeregisterCalls, LeaseStates, LeaseIds,
         Processes, User
<1>6. KeptWhileRegistering' /\ RegistrationStands'
  BY LeasesAssumption DEF Keep, NotRunning, etcdVars, Inv, TypeOK, KeptWhileRegistering,
         RegistrationStands, Registered, TheReasonStays, RegistrationsHaveKeepers,
         OnlyOne, OneCallAtATime, DownIsEmpty, CallsNameLeases, Over, RegisterCalls,
         DeregisterCalls, LeaseStates, LeaseIds, Processes, User, Bare
<1> QED
  BY <1>1, <1>2, <1>3, <1>4, <1>5, <1>6 DEF Inv

\* The goroutine ends with a reason and goes to deregister.
LEMMA NoticeStep == ASSUME Inv, NEW n \in LeaseIds, Notice(n) PROVE Inv'
<1>1. TypeOK'
  BY LeasesAssumption DEF Notice, Deregisters, etcdVars, historyVars, Inv, TypeOK, RegisterCalls,
         DeregisterCalls, LeaseStates, LeaseIds, Processes
<1>2. KeyIsAttached' /\ CallsNameLeases'
  BY LeasesAssumption DEF Notice, Deregisters, etcdVars, historyVars, Inv, TypeOK, KeyIsAttached,
         CallsNameLeases, RegisterCalls, DeregisterCalls, LeaseStates, LeaseIds, Absent,
         Bare
<1>3. OneCallAtATime' /\ DownIsEmpty'
  BY LeasesAssumption DEF Notice, Deregisters, etcdVars, historyVars, Inv, TypeOK, OneCallAtATime,
         DownIsEmpty, RegisterCalls, DeregisterCalls, LeaseStates, LeaseIds, Processes,
         User
<1>4. RegistrationsHaveKeepers' /\ OnlyOne'
  BY LeasesAssumption DEF Notice, Deregisters, etcdVars, historyVars, Inv, TypeOK,
         RegistrationsHaveKeepers, OnlyOne, OneCallAtATime, DownIsEmpty,
         CallsNameLeases, RegisterCalls, DeregisterCalls, LeaseStates, LeaseIds
<1>5. TheReasonStays'
  BY LeasesAssumption DEF Notice, Deregisters, etcdVars, historyVars, Inv, TypeOK, TheReasonStays,
         RegistrationsHaveKeepers, OnlyOne, OneCallAtATime, DownIsEmpty,
         CallsNameLeases, Over, RegisterCalls, DeregisterCalls, LeaseStates, LeaseIds,
         Processes, User
<1>6. KeptWhileRegistering' /\ RegistrationStands'
  BY LeasesAssumption DEF Notice, Deregisters, etcdVars, historyVars, Inv, TypeOK,
         KeptWhileRegistering, RegistrationStands, Registered, TheReasonStays,
         RegistrationsHaveKeepers, OnlyOne, OneCallAtATime, DownIsEmpty,
         CallsNameLeases, Over, RegisterCalls, DeregisterCalls, LeaseStates, LeaseIds,
         Processes, User, Bare
<1> QED
  BY <1>1, <1>2, <1>3, <1>4, <1>5, <1>6 DEF Inv

\* So does the goroutine of a lease the etcd client gives up.
LEMMA GiveUpStep == ASSUME Inv, NEW n \in LeaseIds, GiveUp(n) PROVE Inv'
<1>1. TypeOK'
  BY LeasesAssumption DEF GiveUp, Usable, Deregisters, etcdVars, historyVars, Inv, TypeOK, RegisterCalls,
         DeregisterCalls, LeaseStates, LeaseIds, Processes
<1>2. KeyIsAttached' /\ CallsNameLeases'
  BY LeasesAssumption DEF GiveUp, Usable, Deregisters, etcdVars, historyVars, Inv, TypeOK, KeyIsAttached,
         CallsNameLeases, RegisterCalls, DeregisterCalls, LeaseStates, LeaseIds, Absent,
         Bare
<1>3. OneCallAtATime' /\ DownIsEmpty'
  BY LeasesAssumption DEF GiveUp, Usable, Deregisters, etcdVars, historyVars, Inv, TypeOK, OneCallAtATime,
         DownIsEmpty, RegisterCalls, DeregisterCalls, LeaseStates, LeaseIds, Processes,
         User
<1>4. RegistrationsHaveKeepers' /\ OnlyOne'
  BY LeasesAssumption DEF GiveUp, Usable, Deregisters, etcdVars, historyVars, Inv, TypeOK,
         RegistrationsHaveKeepers, OnlyOne, OneCallAtATime, DownIsEmpty,
         CallsNameLeases, RegisterCalls, DeregisterCalls, LeaseStates, LeaseIds
<1>5. TheReasonStays'
  BY LeasesAssumption DEF GiveUp, Usable, Deregisters, etcdVars, historyVars, Inv, TypeOK, TheReasonStays,
         RegistrationsHaveKeepers, OnlyOne, OneCallAtATime, DownIsEmpty,
         CallsNameLeases, Over, RegisterCalls, DeregisterCalls, LeaseStates, LeaseIds,
         Processes, User
<1>6. KeptWhileRegistering' /\ RegistrationStands'
  BY LeasesAssumption DEF GiveUp, Usable, Deregisters, etcdVars, historyVars, Inv, TypeOK,
         KeptWhileRegistering, RegistrationStands, Registered, TheReasonStays,
         RegistrationsHaveKeepers, OnlyOne, OneCallAtATime, DownIsEmpty,
         CallsNameLeases, Over, RegisterCalls, DeregisterCalls, LeaseStates, LeaseIds,
         Processes, User, Bare
<1> QED
  BY <1>1, <1>2, <1>3, <1>4, <1>5, <1>6 DEF Inv

\* A context that is done stays done.
LEMMA CancelStep == ASSUME Inv, NEW n \in LeaseIds, Cancel(n) PROVE Inv'
<1>1. TypeOK'
  BY LeasesAssumption DEF Cancel, etcdVars, historyVars, Inv, TypeOK, RegisterCalls,
         DeregisterCalls, LeaseStates, LeaseIds
<1>2. KeyIsAttached' /\ CallsNameLeases'
  BY LeasesAssumption DEF Cancel, etcdVars, historyVars, Inv, TypeOK, KeyIsAttached,
         CallsNameLeases, RegisterCalls, DeregisterCalls, LeaseStates, LeaseIds, Absent,
         Bare
<1>3. OneCallAtATime' /\ DownIsEmpty'
  BY LeasesAssumption DEF Cancel, etcdVars, historyVars, Inv, TypeOK, OneCallAtATime,
         DownIsEmpty, RegisterCalls, DeregisterCalls, LeaseStates, LeaseIds, Processes,
         User
<1>4. RegistrationsHaveKeepers' /\ OnlyOne'
  BY LeasesAssumption DEF Cancel, etcdVars, historyVars, Inv, TypeOK,
         RegistrationsHaveKeepers, OnlyOne, OneCallAtATime, DownIsEmpty,
         CallsNameLeases, RegisterCalls, DeregisterCalls, LeaseStates, LeaseIds
<1>5. TheReasonStays'
  BY LeasesAssumption DEF Cancel, etcdVars, historyVars, Inv, TypeOK, TheReasonStays,
         RegistrationsHaveKeepers, OnlyOne, OneCallAtATime, DownIsEmpty,
         CallsNameLeases, Over, RegisterCalls, DeregisterCalls, LeaseStates, LeaseIds,
         Processes, User
<1>6. KeptWhileRegistering' /\ RegistrationStands'
  BY LeasesAssumption DEF Cancel, etcdVars, historyVars, Inv, TypeOK,
         KeptWhileRegistering, RegistrationStands, Registered, TheReasonStays,
         RegistrationsHaveKeepers, OnlyOne, OneCallAtATime, DownIsEmpty,
         CallsNameLeases, Over, RegisterCalls, DeregisterCalls, LeaseStates, LeaseIds,
         Processes, User, Bare
<1> QED
  BY <1>1, <1>2, <1>3, <1>4, <1>5, <1>6 DEF Inv

\* A goroutine that returns without deregistering.
LEMMA KeeperCancelledStep == ASSUME Inv, NEW n \in LeaseIds, KeeperCancelled(n) PROVE Inv'
<1>1. TypeOK'
  BY LeasesAssumption DEF KeeperCancelled, etcdVars, historyVars, Inv, TypeOK,
         RegisterCalls, DeregisterCalls, LeaseStates, LeaseIds
<1>2. KeyIsAttached' /\ CallsNameLeases'
  BY LeasesAssumption DEF KeeperCancelled, etcdVars, historyVars, Inv, TypeOK,
         KeyIsAttached, CallsNameLeases, RegisterCalls, DeregisterCalls, LeaseStates,
         LeaseIds, Absent, Bare
<1>3. OneCallAtATime' /\ DownIsEmpty'
  BY LeasesAssumption DEF KeeperCancelled, etcdVars, historyVars, Inv, TypeOK,
         OneCallAtATime, DownIsEmpty, RegisterCalls, DeregisterCalls, LeaseStates,
         LeaseIds, Processes, User
<1>4. RegistrationsHaveKeepers' /\ OnlyOne'
  BY LeasesAssumption DEF KeeperCancelled, etcdVars, historyVars, Inv, TypeOK,
         RegistrationsHaveKeepers, OnlyOne, OneCallAtATime, DownIsEmpty,
         CallsNameLeases, RegisterCalls, DeregisterCalls, LeaseStates, LeaseIds
<1>5. TheReasonStays'
  BY LeasesAssumption DEF KeeperCancelled, etcdVars, historyVars, Inv, TypeOK,
         TheReasonStays, RegistrationsHaveKeepers, OnlyOne, OneCallAtATime, DownIsEmpty,
         CallsNameLeases, Over, RegisterCalls, DeregisterCalls, LeaseStates, LeaseIds,
         Processes, User
<1>6. KeptWhileRegistering' /\ RegistrationStands'
  BY LeasesAssumption DEF KeeperCancelled, etcdVars, historyVars, Inv, TypeOK,
         KeptWhileRegistering, RegistrationStands, Registered, TheReasonStays,
         RegistrationsHaveKeepers, OnlyOne, OneCallAtATime, DownIsEmpty,
         CallsNameLeases, Over, RegisterCalls, DeregisterCalls, LeaseStates, LeaseIds,
         Processes, User, Bare
<1> QED
  BY <1>1, <1>2, <1>3, <1>4, <1>5, <1>6 DEF Inv

\* The user takes the registration back.
LEMMA CallDeregisterStep == ASSUME Inv, CallDeregister PROVE Inv'
<1>1. TypeOK'
  <2>1. [pc |-> "load", id |-> 0] \in DeregisterCalls
    BY LeasesAssumption DEF DeregisterCalls
  <2>2. deregister' = [deregister EXCEPT ![User] = [pc |-> "load", id |-> 0]]
    BY DEF CallDeregister
  <2>3. deregister' \in [Processes -> DeregisterCalls]
    BY <2>1, <2>2 DEF Inv, TypeOK
  <2> QED
    BY <2>3 DEF CallDeregister, etcdVars, Inv, TypeOK
<1>2. KeyIsAttached' /\ CallsNameLeases'
  BY LeasesAssumption DEF CallDeregister, etcdVars, User, Inv, TypeOK, KeyIsAttached,
         CallsNameLeases, RegisterCalls, DeregisterCalls, LeaseStates, LeaseIds, Absent,
         Bare
<1>3. OneCallAtATime' /\ DownIsEmpty'
  BY LeasesAssumption DEF CallDeregister, etcdVars, User, Inv, TypeOK, OneCallAtATime,
         DownIsEmpty, RegisterCalls, DeregisterCalls, LeaseStates, LeaseIds, Processes
<1>4. RegistrationsHaveKeepers' /\ OnlyOne'
  BY LeasesAssumption DEF CallDeregister, etcdVars, User, Inv, TypeOK,
         RegistrationsHaveKeepers, OnlyOne, OneCallAtATime, DownIsEmpty,
         CallsNameLeases, RegisterCalls, DeregisterCalls, LeaseStates, LeaseIds
<1>5. TheReasonStays'
  BY LeasesAssumption DEF CallDeregister, etcdVars, User, Inv, TypeOK, TheReasonStays,
         RegistrationsHaveKeepers, OnlyOne, OneCallAtATime, DownIsEmpty,
         CallsNameLeases, Over, RegisterCalls, DeregisterCalls, LeaseStates, LeaseIds,
         Processes
<1>6. KeptWhileRegistering' /\ RegistrationStands'
  BY LeasesAssumption DEF CallDeregister, etcdVars, User, Inv, TypeOK,
         KeptWhileRegistering, RegistrationStands, Registered, TheReasonStays,
         RegistrationsHaveKeepers, OnlyOne, OneCallAtATime, DownIsEmpty,
         CallsNameLeases, Over, RegisterCalls, DeregisterCalls, LeaseStates, LeaseIds,
         Processes, Bare
<1> QED
  BY <1>1, <1>2, <1>3, <1>4, <1>5, <1>6 DEF Inv

\* The only goroutine finds its own lease.
LEMMA LoadStep == ASSUME Inv, NEW p \in Processes, Load(p) PROVE Inv'
<1>1. TypeOK'
  BY LeasesAssumption DEF Load, NotRunning, Found, etcdVars, historyVars, Inv, TypeOK,
         RegisterCalls, DeregisterCalls, LeaseStates, CallsNameLeases, LeaseIds
<1>2. KeyIsAttached' /\ CallsNameLeases'
  BY LeasesAssumption DEF Load, NotRunning, Found, etcdVars, historyVars, Inv, TypeOK,
         KeyIsAttached, CallsNameLeases, RegisterCalls, DeregisterCalls, LeaseStates,
         LeaseIds, Absent, Bare
<1>3. OneCallAtATime' /\ DownIsEmpty'
  BY LeasesAssumption DEF Load, NotRunning, Found, etcdVars, historyVars, Inv, TypeOK,
         OneCallAtATime, DownIsEmpty, RegisterCalls, DeregisterCalls, LeaseStates,
         LeaseIds, Processes, User
<1>4. RegistrationsHaveKeepers' /\ OnlyOne'
  BY LeasesAssumption DEF Load, NotRunning, Found, etcdVars, historyVars, Inv, TypeOK,
         RegistrationsHaveKeepers, OnlyOne, OneCallAtATime, DownIsEmpty,
         CallsNameLeases, RegisterCalls, DeregisterCalls, LeaseStates, LeaseIds
<1>5. TheReasonStays'
  BY LeasesAssumption DEF Load, NotRunning, Found, etcdVars, historyVars, Inv, TypeOK,
         TheReasonStays, RegistrationsHaveKeepers, OnlyOne, OneCallAtATime, DownIsEmpty,
         CallsNameLeases, Over, RegisterCalls, DeregisterCalls, LeaseStates, LeaseIds,
         Processes, User
<1>6. KeptWhileRegistering' /\ RegistrationStands'
  BY LeasesAssumption DEF Load, NotRunning, Found, etcdVars, historyVars, Inv, TypeOK,
         KeptWhileRegistering, RegistrationStands, Registered, TheReasonStays,
         RegistrationsHaveKeepers, OnlyOne, OneCallAtATime, DownIsEmpty,
         CallsNameLeases, Over, RegisterCalls, DeregisterCalls, LeaseStates, LeaseIds,
         Processes, User, Bare
<1> QED
  BY <1>1, <1>2, <1>3, <1>4, <1>5, <1>6 DEF Inv

\* Whoever gets past Revoke is the user, or not alone.
LEMMA RevokeStep == ASSUME Inv, NEW p \in Processes, Revoke(p) PROVE Inv'
<1>1. TypeOK'
  BY LeasesAssumption DEF Revoke, Usable, EndLease, historyVars, Inv, TypeOK,
         RegisterCalls, DeregisterCalls, LeaseStates, LeaseIds
<1>2. KeyIsAttached' /\ CallsNameLeases'
  BY LeasesAssumption DEF Revoke, Usable, EndLease, historyVars, Inv, TypeOK,
         KeyIsAttached, CallsNameLeases, RegisterCalls, DeregisterCalls, LeaseStates,
         LeaseIds, Absent, Bare
<1>3. OneCallAtATime' /\ DownIsEmpty'
  BY LeasesAssumption DEF Revoke, Usable, EndLease, historyVars, Inv, TypeOK,
         OneCallAtATime, DownIsEmpty, RegisterCalls, DeregisterCalls, LeaseStates,
         LeaseIds, Processes, User
<1>4. RegistrationsHaveKeepers' /\ OnlyOne'
  BY LeasesAssumption DEF Revoke, Usable, EndLease, historyVars, Inv, TypeOK,
         RegistrationsHaveKeepers, OnlyOne, OneCallAtATime, DownIsEmpty,
         CallsNameLeases, RegisterCalls, DeregisterCalls, LeaseStates, LeaseIds
<1>5. TheReasonStays'
  BY LeasesAssumption DEF Revoke, Usable, EndLease, historyVars, Inv, TypeOK,
         TheReasonStays, RegistrationsHaveKeepers, OnlyOne, OneCallAtATime, DownIsEmpty,
         CallsNameLeases, Over, RegisterCalls, DeregisterCalls, LeaseStates, LeaseIds,
         Processes, User
<1>6. KeptWhileRegistering' /\ RegistrationStands'
  BY LeasesAssumption DEF Revoke, Usable, EndLease, historyVars, Inv, TypeOK,
         KeptWhileRegistering, RegistrationStands, Registered, TheReasonStays,
         RegistrationsHaveKeepers, OnlyOne, OneCallAtATime, DownIsEmpty,
         CallsNameLeases, Over, RegisterCalls, DeregisterCalls, LeaseStates, LeaseIds,
         Processes, User, Bare
<1> QED
  BY <1>1, <1>2, <1>3, <1>4, <1>5, <1>6 DEF Inv

\* A Deregister that fails leaves the entry.
LEMMA RevokeFailsStep == ASSUME Inv, NEW p \in Processes, RevokeFails(p) PROVE Inv'
<1>1. TypeOK'
  BY LeasesAssumption DEF RevokeFails, NotRunning, etcdVars, historyVars, Inv, TypeOK,
         RegisterCalls, DeregisterCalls, LeaseStates, LeaseIds
<1>2. KeyIsAttached' /\ CallsNameLeases'
  BY LeasesAssumption DEF RevokeFails, NotRunning, etcdVars, historyVars, Inv, TypeOK,
         KeyIsAttached, CallsNameLeases, RegisterCalls, DeregisterCalls, LeaseStates,
         LeaseIds, Absent, Bare
<1>3. OneCallAtATime' /\ DownIsEmpty'
  BY LeasesAssumption DEF RevokeFails, NotRunning, etcdVars, historyVars, Inv, TypeOK,
         OneCallAtATime, DownIsEmpty, RegisterCalls, DeregisterCalls, LeaseStates,
         LeaseIds, Processes, User
<1>4. RegistrationsHaveKeepers' /\ OnlyOne'
  BY LeasesAssumption DEF RevokeFails, NotRunning, etcdVars, historyVars, Inv, TypeOK,
         RegistrationsHaveKeepers, OnlyOne, OneCallAtATime, DownIsEmpty,
         CallsNameLeases, RegisterCalls, DeregisterCalls, LeaseStates, LeaseIds
<1>5. TheReasonStays'
  BY LeasesAssumption DEF RevokeFails, NotRunning, etcdVars, historyVars, Inv, TypeOK,
         TheReasonStays, RegistrationsHaveKeepers, OnlyOne, OneCallAtATime, DownIsEmpty,
         CallsNameLeases, Over, RegisterCalls, DeregisterCalls, LeaseStates, LeaseIds,
         Processes, User
<1>6. KeptWhileRegistering' /\ RegistrationStands'
  BY LeasesAssumption DEF RevokeFails, NotRunning, etcdVars, historyVars, Inv, TypeOK,
         KeptWhileRegistering, RegistrationStands, Registered, TheReasonStays,
         RegistrationsHaveKeepers, OnlyOne, OneCallAtATime, DownIsEmpty,
         CallsNameLeases, Over, RegisterCalls, DeregisterCalls, LeaseStates, LeaseIds,
         Processes, User, Bare
<1> QED
  BY <1>1, <1>2, <1>3, <1>4, <1>5, <1>6 DEF Inv

\* The entry goes: by the user, or by a goroutine that is not alone.
LEMMA DeleteStep == ASSUME Inv, NEW p \in Processes, Delete(p) PROVE Inv'
<1>1. TypeOK'
  BY LeasesAssumption DEF Delete, NotRunning, etcdVars, historyVars, Inv, TypeOK,
         RegisterCalls, DeregisterCalls, LeaseStates, LeaseIds
<1>2. KeyIsAttached' /\ CallsNameLeases'
  BY LeasesAssumption DEF Delete, NotRunning, etcdVars, historyVars, Inv, TypeOK,
         KeyIsAttached, CallsNameLeases, RegisterCalls, DeregisterCalls, LeaseStates,
         LeaseIds, Absent, Bare
<1>3. OneCallAtATime' /\ DownIsEmpty'
  BY LeasesAssumption DEF Delete, NotRunning, etcdVars, historyVars, Inv, TypeOK,
         OneCallAtATime, DownIsEmpty, RegisterCalls, DeregisterCalls, LeaseStates,
         LeaseIds, Processes, User
<1>4. RegistrationsHaveKeepers' /\ OnlyOne'
  BY LeasesAssumption DEF Delete, NotRunning, etcdVars, historyVars, Inv, TypeOK,
         RegistrationsHaveKeepers, OnlyOne, OneCallAtATime, DownIsEmpty,
         CallsNameLeases, RegisterCalls, DeregisterCalls, LeaseStates, LeaseIds
<1>5. TheReasonStays'
  BY LeasesAssumption DEF Delete, NotRunning, etcdVars, historyVars, Inv, TypeOK,
         TheReasonStays, RegistrationsHaveKeepers, OnlyOne, OneCallAtATime, DownIsEmpty,
         CallsNameLeases, Over, RegisterCalls, DeregisterCalls, LeaseStates, LeaseIds,
         Processes, User
<1>6. KeptWhileRegistering' /\ RegistrationStands'
  BY LeasesAssumption DEF Delete, NotRunning, etcdVars, historyVars, Inv, TypeOK,
         KeptWhileRegistering, RegistrationStands, Registered, TheReasonStays,
         RegistrationsHaveKeepers, OnlyOne, OneCallAtATime, DownIsEmpty,
         CallsNameLeases, Over, RegisterCalls, DeregisterCalls, LeaseStates, LeaseIds,
         Processes, User, Bare
<1> QED
  BY <1>1, <1>2, <1>3, <1>4, <1>5, <1>6 DEF Inv

\* The key is put without a lease.
LEMMA UpdateServiceStep == ASSUME Inv, UpdateService PROVE Inv'
<1>1. TypeOK'
  BY LeasesAssumption DEF UpdateService, Usable, PutWithoutLease, localVars, Inv,
         TypeOK, RegisterCalls, DeregisterCalls, LeaseStates
<1>2. KeyIsAttached' /\ CallsNameLeases'
  BY LeasesAssumption DEF UpdateService, Usable, PutWithoutLease, localVars, Inv,
         TypeOK, KeyIsAttached, CallsNameLeases, RegisterCalls, DeregisterCalls,
         LeaseStates, LeaseIds, Absent, Bare
<1>3. OneCallAtATime' /\ DownIsEmpty'
  BY LeasesAssumption DEF UpdateService, Usable, PutWithoutLease, localVars, Inv,
         TypeOK, OneCallAtATime, DownIsEmpty, RegisterCalls, DeregisterCalls,
         LeaseStates, LeaseIds, Processes, User
<1>4. RegistrationsHaveKeepers' /\ OnlyOne'
  BY LeasesAssumption DEF UpdateService, Usable, PutWithoutLease, localVars, Inv,
         TypeOK, RegistrationsHaveKeepers, OnlyOne, OneCallAtATime, DownIsEmpty,
         CallsNameLeases, RegisterCalls, DeregisterCalls, LeaseStates, LeaseIds
<1>5. TheReasonStays'
  BY LeasesAssumption DEF UpdateService, Usable, PutWithoutLease, localVars, Inv,
         TypeOK, TheReasonStays, RegistrationsHaveKeepers, OnlyOne, OneCallAtATime,
         DownIsEmpty, CallsNameLeases, Over, RegisterCalls, DeregisterCalls,
         LeaseStates, LeaseIds, Processes, User
<1>6. KeptWhileRegistering' /\ RegistrationStands'
  BY LeasesAssumption DEF UpdateService, Usable, PutWithoutLease, localVars, Inv,
         TypeOK, KeptWhileRegistering, RegistrationStands, Registered, TheReasonStays,
         RegistrationsHaveKeepers, OnlyOne, OneCallAtATime, DownIsEmpty,
         CallsNameLeases, Over, RegisterCalls, DeregisterCalls, LeaseStates, LeaseIds,
         Processes, User, Bare
<1> QED
  BY <1>1, <1>2, <1>3, <1>4, <1>5, <1>6 DEF Inv

\* A client that is closed stays closed while the process runs.
LEMMA CloseStep == ASSUME Inv, Close PROVE Inv'
<1>1. TypeOK'
  BY LeasesAssumption DEF Close, Usable, etcdVars, localVars, historyVars, Inv, TypeOK,
         RegisterCalls, DeregisterCalls, LeaseStates
<1>2. KeyIsAttached' /\ CallsNameLeases'
  BY LeasesAssumption DEF Close, Usable, etcdVars, localVars, historyVars, Inv, TypeOK,
         KeyIsAttached, CallsNameLeases, RegisterCalls, DeregisterCalls, LeaseStates,
         LeaseIds, Absent, Bare
<1>3. OneCallAtATime' /\ DownIsEmpty'
  BY LeasesAssumption DEF Close, Usable, etcdVars, localVars, historyVars, Inv, TypeOK,
         OneCallAtATime, DownIsEmpty, RegisterCalls, DeregisterCalls, LeaseStates,
         LeaseIds, Processes, User
<1>4. RegistrationsHaveKeepers' /\ OnlyOne'
  BY LeasesAssumption DEF Close, Usable, etcdVars, localVars, historyVars, Inv, TypeOK,
         RegistrationsHaveKeepers, OnlyOne, OneCallAtATime, DownIsEmpty,
         CallsNameLeases, RegisterCalls, DeregisterCalls, LeaseStates, LeaseIds
<1>5. TheReasonStays'
  BY LeasesAssumption DEF Close, Usable, etcdVars, localVars, historyVars, Inv, TypeOK,
         TheReasonStays, RegistrationsHaveKeepers, OnlyOne, OneCallAtATime, DownIsEmpty,
         CallsNameLeases, Over, RegisterCalls, DeregisterCalls, LeaseStates, LeaseIds,
         Processes, User
<1>6. KeptWhileRegistering' /\ RegistrationStands'
  BY LeasesAssumption DEF Close, Usable, etcdVars, localVars, historyVars, Inv, TypeOK,
         KeptWhileRegistering, RegistrationStands, Registered, TheReasonStays,
         RegistrationsHaveKeepers, OnlyOne, OneCallAtATime, DownIsEmpty,
         CallsNameLeases, Over, RegisterCalls, DeregisterCalls, LeaseStates, LeaseIds,
         Processes, User, Bare
<1> QED
  BY <1>1, <1>2, <1>3, <1>4, <1>5, <1>6 DEF Inv

\* Only etcd remembers.
LEMMA CrashStep == ASSUME Inv, Crash PROVE Inv'
<1>1. TypeOK'
  <2>1. NotRunning \in RegisterCalls /\ NotRunning \in DeregisterCalls
    BY LeasesAssumption DEF NotRunning, RegisterCalls, DeregisterCalls
  <2>2. 0 \in 0..MaxLeases
    BY LeasesAssumption
  <2> QED
    BY <2>1, <2>2 DEF Crash, etcdVars, Inv, TypeOK
<1>2. KeyIsAttached' /\ CallsNameLeases'
  BY LeasesAssumption DEF Crash, NotRunning, etcdVars, Inv, TypeOK, KeyIsAttached,
         CallsNameLeases, RegisterCalls, DeregisterCalls, LeaseStates, LeaseIds, Absent,
         Bare
<1>3. OneCallAtATime' /\ DownIsEmpty'
  BY LeasesAssumption DEF Crash, NotRunning, etcdVars, Inv, TypeOK, OneCallAtATime,
         DownIsEmpty, RegisterCalls, DeregisterCalls, LeaseStates, LeaseIds, Processes,
         User
<1>4. RegistrationsHaveKeepers' /\ OnlyOne'
  BY LeasesAssumption DEF Crash, NotRunning, etcdVars, Inv, TypeOK,
         RegistrationsHaveKeepers, OnlyOne, OneCallAtATime, DownIsEmpty,
         CallsNameLeases, RegisterCalls, DeregisterCalls, LeaseStates, LeaseIds
<1>5. TheReasonStays'
  BY LeasesAssumption DEF Crash, NotRunning, etcdVars, Inv, TypeOK, TheReasonStays,
         RegistrationsHaveKeepers, OnlyOne, OneCallAtATime, DownIsEmpty,
         CallsNameLeases, Over, RegisterCalls, DeregisterCalls, LeaseStates, LeaseIds,
         Processes, User
<1>6. KeptWhileRegistering' /\ RegistrationStands'
  BY LeasesAssumption DEF Crash, NotRunning, etcdVars, Inv, TypeOK,
         KeptWhileRegistering, RegistrationStands, Registered, TheReasonStays,
         RegistrationsHaveKeepers, OnlyOne, OneCallAtATime, DownIsEmpty,
         CallsNameLeases, Over, RegisterCalls, DeregisterCalls, LeaseStates, LeaseIds,
         Processes, User, Bare
<1> QED
  BY <1>1, <1>2, <1>3, <1>4, <1>5, <1>6 DEF Inv

\* The new process has nothing that relies on the closed client.
LEMMA RestartStep == ASSUME Inv, Restart PROVE Inv'
<1>1. TypeOK'
  BY LeasesAssumption DEF Restart, etcdVars, localVars, historyVars, Inv, TypeOK,
         RegisterCalls, DeregisterCalls, LeaseStates
<1>2. KeyIsAttached' /\ CallsNameLeases'
  BY LeasesAssumption DEF Restart, etcdVars, localVars, historyVars, Inv, TypeOK,
         KeyIsAttached, CallsNameLeases, RegisterCalls, DeregisterCalls, LeaseStates,
         LeaseIds, Absent, Bare
<1>3. OneCallAtATime' /\ DownIsEmpty'
  BY LeasesAssumption DEF Restart, etcdVars, localVars, historyVars, Inv, TypeOK,
         OneCallAtATime, DownIsEmpty, RegisterCalls, DeregisterCalls, LeaseStates,
         LeaseIds, Processes, User
<1>4. RegistrationsHaveKeepers' /\ OnlyOne'
  BY LeasesAssumption DEF Restart, etcdVars, localVars, historyVars, Inv, TypeOK,
         RegistrationsHaveKeepers, OnlyOne, OneCallAtATime, DownIsEmpty,
         CallsNameLeases, RegisterCalls, DeregisterCalls, LeaseStates, LeaseIds
<1>5. TheReasonStays'
  BY LeasesAssumption DEF Restart, etcdVars, localVars, historyVars, Inv, TypeOK,
         TheReasonStays, RegistrationsHaveKeepers, OnlyOne, OneCallAtATime, DownIsEmpty,
         CallsNameLeases, Over, RegisterCalls, DeregisterCalls, LeaseStates, LeaseIds,
         Processes, User
<1>6. KeptWhileRegistering' /\ RegistrationStands'
  BY LeasesAssumption DEF Restart, etcdVars, localVars, historyVars, Inv, TypeOK,
         KeptWhileRegistering, RegistrationStands, Registered, TheReasonStays,
         RegistrationsHaveKeepers, OnlyOne, OneCallAtATime, DownIsEmpty,
         CallsNameLeases, Over, RegisterCalls, DeregisterCalls, LeaseStates, LeaseIds,
         Processes, User, Bare
<1> QED
  BY <1>1, <1>2, <1>3, <1>4, <1>5, <1>6 DEF Inv

\* A lease that runs out takes the key with it.
LEMMA ExpireStep == ASSUME Inv, NEW n \in LeaseIds, Expire(n) PROVE Inv'
<1>1. TypeOK'
  BY LeasesAssumption DEF Expire, EndLease, localVars, historyVars, Inv, TypeOK,
         RegisterCalls, DeregisterCalls, LeaseStates, LeaseIds
<1>2. KeyIsAttached' /\ CallsNameLeases'
  BY LeasesAssumption DEF Expire, EndLease, localVars, historyVars, Inv, TypeOK,
         KeyIsAttached, CallsNameLeases, RegisterCalls, DeregisterCalls, LeaseStates,
         LeaseIds, Absent, Bare
<1>3. OneCallAtATime' /\ DownIsEmpty'
  BY LeasesAssumption DEF Expire, EndLease, localVars, historyVars, Inv, TypeOK,
         OneCallAtATime, DownIsEmpty, RegisterCalls, DeregisterCalls, LeaseStates,
         LeaseIds, Processes, User
<1>4. RegistrationsHaveKeepers' /\ OnlyOne'
  BY LeasesAssumption DEF Expire, EndLease, localVars, historyVars, Inv, TypeOK,
         RegistrationsHaveKeepers, OnlyOne, OneCallAtATime, DownIsEmpty,
         CallsNameLeases, RegisterCalls, DeregisterCalls, LeaseStates, LeaseIds
<1>5. TheReasonStays'
  BY LeasesAssumption DEF Expire, EndLease, localVars, historyVars, Inv, TypeOK,
         TheReasonStays, RegistrationsHaveKeepers, OnlyOne, OneCallAtATime, DownIsEmpty,
         CallsNameLeases, Over, RegisterCalls, DeregisterCalls, LeaseStates, LeaseIds,
         Processes, User
<1>6. KeptWhileRegistering' /\ RegistrationStands'
  BY LeasesAssumption DEF Expire, EndLease, localVars, historyVars, Inv, TypeOK,
         KeptWhileRegistering, RegistrationStands, Registered, TheReasonStays,
         RegistrationsHaveKeepers, OnlyOne, OneCallAtATime, DownIsEmpty,
         CallsNameLeases, Over, RegisterCalls, DeregisterCalls, LeaseStates, LeaseIds,
         Processes, User, Bare
<1> QED
  BY <1>1, <1>2, <1>3, <1>4, <1>5, <1>6 DEF Inv

-----------------------------------------------------------------------------
\* Initially there is nothing, in etcd and in the process.
LEMMA InvInit == Init => Inv
<1> SUFFICES ASSUME Init PROVE Inv
  OBVIOUS
<1>1. TypeOK
  <2>1. NotRunning \in RegisterCalls /\ NotRunning \in DeregisterCalls
    BY LeasesAssumption DEF NotRunning, RegisterCalls, DeregisterCalls
  <2>2. 0 \in 0..MaxLeases /\ {} \in SUBSET LeaseIds
    BY LeasesAssumption
  <2>3. [n \in LeaseIds |-> "none"] \in [LeaseIds -> LeaseStates]
    BY DEF LeaseStates
  <2> QED
    BY <2>1, <2>2, <2>3 DEF Init, LocalInit, TypeOK
<1>2. KeyIsAttached /\ CallsNameLeases /\ OneCallAtATime /\ DownIsEmpty
  BY DEF Init, LocalInit, NotRunning, KeyIsAttached, CallsNameLeases, OneCallAtATime,
         DownIsEmpty, LeaseIds, Processes, User
<1>3. RegistrationsHaveKeepers /\ TheReasonStays /\ OnlyOne
  BY DEF Init, LocalInit, NotRunning, RegistrationsHaveKeepers, TheReasonStays, OnlyOne,
         LeaseIds, Processes
<1>4. KeptWhileRegistering /\ RegistrationStands
  BY DEF Init, LocalInit, NotRunning, KeptWhileRegistering, RegistrationStands
<1> QED
  BY <1>1, <1>2, <1>3, <1>4 DEF Inv

\* Every step, the stuttering one included.
LEMMA NextKeeps == Inv /\ [Next]_vars => Inv'
<1> SUFFICES ASSUME Inv, [Next]_vars PROVE Inv'
  OBVIOUS
<1>1. CASE UNCHANGED vars
  BY <1>1 DEF vars, etcdVars, localVars, historyVars, Inv, TypeOK, KeyIsAttached,
         CallsNameLeases, OneCallAtATime, DownIsEmpty, RegistrationsHaveKeepers,
         TheReasonStays, Over, OnlyOne, KeptWhileRegistering, Registered,
         RegistrationStands
<1>2. ASSUME NEW n \in LeaseIds,
             Grant(n) \/ Notice(n) \/ GiveUp(n) \/ Cancel(n) \/ KeeperCancelled(n) \/ Expire(n)
      PROVE  Inv'
  BY <1>2, GrantStep, NoticeStep, GiveUpStep, CancelStep, KeeperCancelledStep, ExpireStep
<1>3. CASE PutKey \/ RegisterFails \/ Keep \/ CallDeregister
  BY <1>3, PutKeyStep, RegisterFailsStep, KeepStep, CallDeregisterStep
<1>4. ASSUME NEW p \in Processes, Load(p) \/ Revoke(p) \/ RevokeFails(p) \/ Delete(p)
      PROVE  Inv'
  BY <1>4, LoadStep, RevokeStep, RevokeFailsStep, DeleteStep
<1>5. CASE UpdateService \/ Close \/ Crash \/ Restart
  BY <1>5, UpdateServiceStep, CloseStep, CrashStep, RestartStep
<1> QED
  BY <1>1, <1>2, <1>3, <1>4, <1>5 DEF Next

\* Any number of Register, Deregister and UpdateService calls, failures and crashes.
LEMMA Invariance == Spec => []Inv
<1> QED
  BY InvInit, NextKeeps, PTL DEF Spec

\* registry.go:68-127: a registration made once and not taken back stays in the map and
\* in etcd until its lease runs out: the goroutine that deregisters never revokes a
\* lease that is alive, unless the etcd client has given it up.
THEOREM RegistrationStandsHolds == Spec => []RegistrationStands
<1>1. Inv => RegistrationStands
  BY DEF Inv
<1> QED
  BY <1>1, Invariance, PTL

\* registry.go:77-84, 325-334: whatever fails or crashes, in the middle of Register or of
\* Deregister, a key in etcd hangs on a lease that is alive, unless UpdateService has
\* put it: the reason why the entry of a dead server goes when its lease does.
THEOREM KeyIsAttachedHolds == Spec => []KeyIsAttached
<1>1. Inv => KeyIsAttached
  BY DEF Inv
<1> QED
  BY <1>1, Invariance, PTL

\* registry.go:110-127: the goroutine that has started to deregister keeps its reason, also
\* when Register was called again; alone it never gets past Revoke.
THEOREM TheReasonStaysHolds == Spec => []TheReasonStays
<1>1. Inv => TheReasonStays
  BY DEF Inv
<1> QED
  BY <1>1, Invariance, PTL
=============================================================================
