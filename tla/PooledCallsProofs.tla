-------------------------- MODULE PooledCallsProofs --------------------------
(***************************************************************************)
(* Theorems about PooledCalls, for any number of calls and connections and *)
(* any capacity of the pool: who owns a connection, what is on it while no *)
(* call is late, and that the pool implements PoolPromise.                 *)
(***************************************************************************)
EXTENDS PooledCalls, FiniteSetTheorems, TLAPS

-----------------------------------------------------------------------------
\* Receiving from p.conns: the head leaves, the others stay, in order.
LEMMA TailOfPool ==
    ASSUME NEW S, NEW s \in Seq(S), s # <<>>, IsInjective(s)
    PROVE  /\ Head(s) \in S /\ Head(s) \in ToSet(s)
           /\ Tail(s) \in Seq(S) /\ IsInjective(Tail(s))
           /\ ToSet(Tail(s)) = ToSet(s) \ {Head(s)}
<1>1. /\ Len(s) \in Nat \ {0} /\ DOMAIN s = 1..Len(s)
      /\ Head(s) = s[1] /\ Head(s) \in S
      /\ Tail(s) \in Seq(S) /\ Len(Tail(s)) = Len(s) - 1
      /\ DOMAIN Tail(s) = 1..(Len(s) - 1)
  OBVIOUS
<1>2. \A i \in 1..(Len(s) - 1) : Tail(s)[i] = s[i + 1] /\ i + 1 \in 1..Len(s)
  BY <1>1
<1>3. IsInjective(Tail(s))
  BY <1>1, <1>2 DEF IsInjective
<1>4. ASSUME NEW x \in ToSet(s), x # Head(s)
      PROVE  x \in ToSet(Tail(s))
  <2>1. PICK i \in 1..Len(s) : x = s[i]
    BY <1>1 DEF ToSet
  <2>2. i - 1 \in 1..(Len(s) - 1) /\ Tail(s)[i - 1] = s[i]
    BY <1>1, <1>2, <1>4, <2>1
  <2> QED
    BY <1>1, <2>1, <2>2 DEF ToSet
<1>5. ASSUME NEW x \in ToSet(Tail(s))
      PROVE  x \in ToSet(s) /\ x # Head(s)
  <2>1. PICK i \in 1..(Len(s) - 1) : x = Tail(s)[i]
    BY <1>1 DEF ToSet
  <2>2. x = s[i + 1] /\ i + 1 \in 1..Len(s) /\ i + 1 # 1 /\ 1 \in 1..Len(s)
    BY <1>1, <1>2, <2>1
  <2> QED
    BY <1>1, <2>2 DEF ToSet, IsInjective
<1>6. Head(s) \in ToSet(s)
  BY <1>1 DEF ToSet
<1> QED
  BY <1>1, <1>3, <1>4, <1>5, <1>6

\* Sending to p.conns: the connection joins the others.
LEMMA AppendToPool ==
    ASSUME NEW S, NEW s \in Seq(S), NEW x \in S
    PROVE  /\ Append(s, x) \in Seq(S)
           /\ ToSet(Append(s, x)) = ToSet(s) \cup {x}
           /\ IsInjective(s) /\ x \notin ToSet(s) => IsInjective(Append(s, x))
<1>1. /\ Len(s) \in Nat /\ DOMAIN s = 1..Len(s)
      /\ Append(s, x) \in Seq(S)
      /\ DOMAIN Append(s, x) = 1..(Len(s) + 1)
      /\ Append(s, x)[Len(s) + 1] = x
      /\ \A i \in 1..Len(s) : Append(s, x)[i] = s[i]
  OBVIOUS
<1>2. \A i \in 1..(Len(s) + 1) : i \in 1..Len(s) \/ i = Len(s) + 1
  BY <1>1
<1>3. ToSet(Append(s, x)) \subseteq ToSet(s) \cup {x}
  BY <1>1, <1>2 DEF ToSet
<1>4. ToSet(s) \cup {x} \subseteq ToSet(Append(s, x))
  <2>1. Len(s) + 1 \in 1..(Len(s) + 1) /\ 1..Len(s) \subseteq 1..(Len(s) + 1)
    BY <1>1
  <2> QED
    BY <1>1, <2>1 DEF ToSet
<1>5. ASSUME IsInjective(s), x \notin ToSet(s)
      PROVE  IsInjective(Append(s, x))
  <2>1. \A i \in 1..Len(s) : s[i] # x
    BY <1>1, <1>5 DEF ToSet
  <2> QED
    BY <1>1, <1>2, <1>5, <2>1 DEF IsInjective
<1> QED
  BY <1>1, <1>3, <1>4, <1>5

\* The empty pool.
LEMMA EmptyPool == ToSet(<<>>) = {} /\ IsInjective(<<>>)
BY DEF ToSet, IsInjective

\* A pool of connections holds connections.
LEMMA PoolOfConns == ASSUME pool \in Seq(Conns) PROVE ToSet(pool) \subseteq Conns
BY DEF ToSet

-----------------------------------------------------------------------------
\* Every step keeps the types.
LEMMA TypeStep ==
    ASSUME TypeOK, Ownership, [Next]_vars
    PROVE  TypeOK'
<1> USE DEF net, Results
<1>1. ASSUME NEW n \in Calls, Enter(n)
      PROVE  TypeOK'
  BY <1>1 DEF TypeOK, Enter
<1>2. ASSUME NEW n \in Calls, Rejected(n)
      PROVE  TypeOK'
  BY <1>2 DEF TypeOK, Rejected, Returns
<1>3. ASSUME NEW n \in Calls, GetIdle(n)
      PROVE  TypeOK'
  BY <1>3, TailOfPool DEF TypeOK, Ownership, ExclusiveUse, GetIdle, Launch
<1>4. ASSUME NEW n \in Calls, GetNew(n)
      PROVE  TypeOK'
  BY <1>4 DEF TypeOK, GetNew, Launch
<1>5. ASSUME NEW n \in Calls, GetFails(n)
      PROVE  TypeOK'
  BY <1>5 DEF TypeOK, GetFails, Returns
<1>6. ASSUME NEW n \in Calls, Finish(n)
      PROVE  TypeOK'
  BY <1>6 DEF TypeOK, Finish, Returns
<1>7. ASSUME NEW n \in Calls, Timeout(n)
      PROVE  TypeOK'
  BY <1>7 DEF TypeOK, Timeout, Returns
<1>8. ASSUME NEW n \in Calls, PutIdle(n)
      PROVE  TypeOK'
  <2>1. conn[n] \in Conns
    BY <1>8 DEF PutIdle, Ownership, OwnedAreAlive, Holding
  <2> QED
    BY <1>8, <2>1, AppendToPool DEF TypeOK, PutIdle
<1>9. ASSUME NEW n \in Calls, PutSurplus(n)
      PROVE  TypeOK'
  BY <1>9 DEF TypeOK, PutSurplus
<1>10. ASSUME NEW n \in Calls, PutPanics(n)
      PROVE  TypeOK'
  BY <1>10 DEF TypeOK, PutPanics
<1>11. ASSUME NEW n \in Calls, Write(n)
      PROVE  TypeOK'
  <2>1. conn[n] \in Conns
    BY <1>11 DEF Write, Ownership, WorkersConnected
  <2>2. up[conn[n]] \in Seq(Calls \cup {Garbage}) /\ down[conn[n]] \in Seq(Calls \cup {Garbage})
    BY <2>1 DEF TypeOK
  <2> QED
    BY <1>11, <2>1, <2>2 DEF TypeOK, Write
<1>12. ASSUME NEW n \in Calls, WriteFails(n)
      PROVE  TypeOK'
  BY <1>12 DEF TypeOK, WriteFails, Replies
<1>13. ASSUME NEW n \in Calls, Read(n)
      PROVE  TypeOK'
  <2>1. conn[n] \in Conns
    BY <1>13 DEF Read, Ownership, WorkersConnected
  <2>2. up[conn[n]] \in Seq(Calls \cup {Garbage}) /\ down[conn[n]] \in Seq(Calls \cup {Garbage})
    BY <2>1 DEF TypeOK
  <2> QED
    BY <1>13, <2>1, <2>2 DEF TypeOK, Read, Replies
<1>14. ASSUME NEW n \in Calls, ReadFails(n)
      PROVE  TypeOK'
  BY <1>14 DEF TypeOK, ReadFails, Replies
<1>15. ASSUME NEW n \in Calls, ReadGarbage(n)
      PROVE  TypeOK'
  BY <1>15 DEF TypeOK, ReadGarbage, Replies
<1>16. ASSUME NEW m \in Calls, NEW n \in Calls, WritesCollide(m, n)
      PROVE  TypeOK'
  <2>1. conn[n] \in Conns
    BY <1>16 DEF WritesCollide, Ownership, WorkersConnected
  <2>2. up[conn[n]] \in Seq(Calls \cup {Garbage})
    BY <2>1 DEF TypeOK
  <2>3. Append(up[conn[n]], Garbage) \in Seq(Calls \cup {Garbage})
    BY <2>2
  <2> QED
    BY <1>16, <2>1, <2>3 DEF TypeOK, WritesCollide
<1>17. ASSUME NEW m \in Calls, NEW n \in Calls, ReadsCollide(m, n)
      PROVE  TypeOK'
  <2>1. conn[n] \in Conns
    BY <1>17 DEF ReadsCollide, Ownership, WorkersConnected
  <2>2. up[conn[n]] \in Seq(Calls \cup {Garbage}) /\ down[conn[n]] \in Seq(Calls \cup {Garbage})
    BY <2>1 DEF TypeOK
  <2> QED
    BY <1>17, <2>1, <2>2 DEF TypeOK, ReadsCollide
<1>18. ASSUME NEW k \in Conns, Serve(k)
      PROVE  TypeOK'
  <2>1. up[k] \in Seq(Calls \cup {Garbage}) /\ down[k] \in Seq(Calls \cup {Garbage})
    BY DEF TypeOK
  <2>2. /\ Tail(up[k]) \in Seq(Calls \cup {Garbage})
        /\ Append(down[k], Head(up[k])) \in Seq(Calls \cup {Garbage})
    BY <1>18, <2>1 DEF Serve
  <2> QED
    BY <1>18, <2>1, <2>2 DEF TypeOK, Serve
<1>19. ASSUME NEW k \in Conns, Drop(k)
      PROVE  TypeOK'
  <2>1. down[k] \in Seq(Calls \cup {Garbage})
    BY DEF TypeOK
  <2>2. \A a \in 0..Len(down[k]) : SubSeq(down[k], 1, a) \in Seq(Calls \cup {Garbage})
    BY <2>1
  <2>3. <<>> \in Seq(Calls \cup {Garbage})
    OBVIOUS
  <2> QED
    BY <1>19, <2>2, <2>3 DEF TypeOK, Drop
<1>20. ASSUME CloseClient
      PROVE  TypeOK'
  BY <1>20 DEF TypeOK, CloseClient
<1>21. ASSUME ClosePool
      PROVE  TypeOK'
  BY <1>21 DEF TypeOK, ClosePool
<1>22. ASSUME DrainOne
      PROVE  TypeOK'
  <2>1. Tail(pool) \in Seq(Conns)
    BY <1>22, TailOfPool DEF TypeOK, Ownership, ExclusiveUse, DrainOne
  <2> QED
    BY <1>22, <2>1 DEF TypeOK, DrainOne
<1>23. ASSUME NEW n \in Calls, EncodeFails(n)
      PROVE  TypeOK'
  BY <1>23 DEF TypeOK, EncodeFails, Replies
<1>24. CASE UNCHANGED vars
  BY <1>24 DEF TypeOK, vars
<1> QED
  BY <1>1, <1>2, <1>3, <1>4, <1>5, <1>6, <1>7, <1>8, <1>9, <1>10, <1>11, <1>12, <1>13, <1>14, <1>15, <1>16, <1>17, <1>18, <1>19, <1>20, <1>21, <1>22, <1>23, <1>24
     DEF Next, CallerStep, WorkerStep, Collision, ServerStep

-----------------------------------------------------------------------------
\* A step that moves no connection keeps the ownership.
LEMMA OwnershipFrame ==
    ASSUME Ownership, UNCHANGED <<conn, link, pool>>,
           \A n \in Calls : Holding(n)' <=> Holding(n),
           \A n \in Calls : worker'[n] # "none" => worker[n] # "none"
    PROVE  Ownership'
<1>1. ExclusiveUse'
  BY DEF Ownership, ExclusiveUse
<1>2. NoConnectionLeak'
  BY DEF Ownership, NoConnectionLeak
<1>3. OwnedAreAlive'
  BY DEF Ownership, OwnedAreAlive
<1>4. WorkersConnected'
  BY DEF Ownership, WorkersConnected
<1> QED
  BY <1>1, <1>2, <1>3, <1>4 DEF Ownership

\* Get takes a connection out of the pool: the pool's last claim on it.
LEMMA OwnershipGetIdle ==
    ASSUME TypeOK, Ownership, NEW n \in Calls, GetIdle(n)
    PROVE  Ownership'
<1> DEFINE h == Head(pool)
<1>1. /\ h \in Conns /\ h \in ToSet(pool)
      /\ IsInjective(pool') /\ ToSet(pool') = ToSet(pool) \ {h}
  BY TailOfPool DEF TypeOK, Ownership, ExclusiveUse, GetIdle
<1>2. /\ ~Holding(n) /\ Holding(n)'
      /\ conn'[n] = h
      /\ \A m \in Calls \ {n} : (Holding(m)' <=> Holding(m)) /\ conn'[m] = conn[m]
      /\ \A m \in Calls \ {n} : worker'[m] = worker[m]
      /\ link' = link
  BY DEF TypeOK, GetIdle, Launch, Holding, net
<1>3. \A m \in Calls : Holding(m) => conn[m] # h
  BY <1>1 DEF Ownership, ExclusiveUse
<1> HIDE DEF h
<1>4. ExclusiveUse'
  BY <1>1, <1>2, <1>3 DEF Ownership, ExclusiveUse
<1>5. NoConnectionLeak'
  BY <1>1, <1>2 DEF Ownership, NoConnectionLeak
<1>6. OwnedAreAlive'
  BY <1>1, <1>2 DEF Ownership, OwnedAreAlive
<1>7. WorkersConnected'
  BY <1>1, <1>2 DEF Ownership, OwnedAreAlive, WorkersConnected
<1> QED
  BY <1>4, <1>5, <1>6, <1>7 DEF Ownership

\* Get dials a connection nobody has a claim on.
LEMMA OwnershipGetNew ==
    ASSUME TypeOK, Ownership, NEW n \in Calls, GetNew(n)
    PROVE  Ownership'
<1>1. PICK k \in Conns : /\ link[k] = "unused"
                         /\ link' = [link EXCEPT ![k] = "open"]
                         /\ Launch(n, k)
  BY DEF GetNew
<1>2. /\ ~Holding(n) /\ Holding(n)'
      /\ conn'[n] = k
      /\ \A m \in Calls \ {n} : (Holding(m)' <=> Holding(m)) /\ conn'[m] = conn[m]
      /\ \A m \in Calls \ {n} : worker'[m] = worker[m]
      /\ link'[k] = "open" /\ \A j \in Conns \ {k} : link'[j] = link[j]
      /\ pool' = pool
  BY <1>1 DEF TypeOK, GetNew, Launch, Holding
<1>3. /\ k \notin ToSet(pool)
      /\ \A m \in Calls : Holding(m) => conn[m] # k
      /\ ToSet(pool) \subseteq Conns
  BY <1>1, PoolOfConns DEF TypeOK, Ownership, OwnedAreAlive
<1>4. ExclusiveUse'
  BY <1>2, <1>3 DEF Ownership, ExclusiveUse
<1>5. NoConnectionLeak'
  BY <1>2, <1>3 DEF Ownership, NoConnectionLeak
<1>6. OwnedAreAlive'
  BY <1>2, <1>3 DEF Ownership, OwnedAreAlive
<1>7. WorkersConnected'
  BY <1>1, <1>2 DEF Ownership, WorkersConnected
<1> QED
  BY <1>4, <1>5, <1>6, <1>7 DEF Ownership

\* Put hands the caller's claim to the pool.
LEMMA OwnershipPutIdle ==
    ASSUME TypeOK, Ownership, NEW n \in Calls, PutIdle(n)
    PROVE  Ownership'
<1>1. Holding(n) /\ conn[n] \in Conns /\ conn[n] \notin ToSet(pool)
      /\ link[conn[n]] \in {"open", "gone"}
  BY DEF PutIdle, Holding, Ownership, ExclusiveUse, OwnedAreAlive
<1>2. IsInjective(pool') /\ ToSet(pool') = ToSet(pool) \cup {conn[n]}
  BY <1>1, AppendToPool DEF TypeOK, PutIdle, Ownership, ExclusiveUse
<1>3. /\ ~Holding(n)'
      /\ \A m \in Calls \ {n} : Holding(m)' <=> Holding(m)
      /\ UNCHANGED <<conn, worker, link>>
  BY DEF TypeOK, PutIdle, Holding, net
<1>4. ExclusiveUse'
  BY <1>1, <1>2, <1>3 DEF Ownership, ExclusiveUse
<1>5. NoConnectionLeak'
  BY <1>2, <1>3 DEF Ownership, NoConnectionLeak
<1>6. OwnedAreAlive'
  BY <1>1, <1>2, <1>3 DEF Ownership, OwnedAreAlive
<1>7. WorkersConnected'
  BY <1>3 DEF Ownership, WorkersConnected
<1> QED
  BY <1>4, <1>5, <1>6, <1>7 DEF Ownership

\* Put on a full pool closes a connection nobody else has a claim on.
LEMMA OwnershipPutSurplus ==
    ASSUME TypeOK, Ownership, NEW n \in Calls, PutSurplus(n)
    PROVE  Ownership'
<1>1. Holding(n) /\ conn[n] \in Conns /\ conn[n] \notin ToSet(pool)
  BY DEF PutSurplus, Holding, Ownership, ExclusiveUse, OwnedAreAlive
<1>2. /\ ~Holding(n)'
      /\ \A m \in Calls \ {n} : Holding(m)' <=> Holding(m)
      /\ link'[conn[n]] = "closed"
      /\ \A j \in Conns \ {conn[n]} : link'[j] = link[j]
      /\ UNCHANGED <<conn, worker, pool>>
  BY <1>1 DEF TypeOK, PutSurplus, Holding
<1>3. /\ \A m \in Calls \ {n} : Holding(m) => conn[m] # conn[n]
      /\ ToSet(pool) \subseteq Conns
  BY <1>1, PoolOfConns DEF TypeOK, Ownership, ExclusiveUse
<1>4. ExclusiveUse'
  BY <1>2 DEF Ownership, ExclusiveUse
<1>5. NoConnectionLeak'
  BY <1>1, <1>2 DEF Ownership, NoConnectionLeak
<1>6. OwnedAreAlive'
  BY <1>1, <1>2, <1>3 DEF Ownership, OwnedAreAlive
<1>7. WorkersConnected'
  BY <1>1, <1>2 DEF Ownership, WorkersConnected
<1> QED
  BY <1>4, <1>5, <1>6, <1>7 DEF Ownership

\* Draining the pool closes what is in it, and nothing a call holds.
LEMMA OwnershipDrainOne ==
    ASSUME TypeOK, Ownership, DrainOne
    PROVE  Ownership'
<1> DEFINE h == Head(pool)
<1>1. /\ h \in Conns /\ h \in ToSet(pool) /\ ToSet(pool) \subseteq Conns
      /\ IsInjective(pool') /\ ToSet(pool') = ToSet(pool) \ {h}
  BY TailOfPool, PoolOfConns DEF TypeOK, Ownership, ExclusiveUse, DrainOne
<1>2. /\ link'[h] = "closed" /\ \A j \in Conns \ {h} : link'[j] = link[j]
      /\ UNCHANGED <<caller, conn, worker>>
  BY <1>1 DEF TypeOK, DrainOne
<1>3. \A m \in Calls : Holding(m) => conn[m] # h
  BY <1>1 DEF Ownership, ExclusiveUse
<1> HIDE DEF h
<1>4. ExclusiveUse'
  BY <1>1, <1>2 DEF Ownership, ExclusiveUse, Holding
<1>5. NoConnectionLeak'
  BY <1>1, <1>2 DEF Ownership, NoConnectionLeak, Holding
<1>6. OwnedAreAlive'
  BY <1>1, <1>2, <1>3 DEF Ownership, OwnedAreAlive, Holding
<1>7. WorkersConnected'
  BY <1>1, <1>2 DEF Ownership, WorkersConnected
<1> QED
  BY <1>4, <1>5, <1>6, <1>7 DEF Ownership

\* A connection the server leaves keeps its owner.
LEMMA OwnershipDrop ==
    ASSUME TypeOK, Ownership, NEW k \in Conns, Drop(k)
    PROVE  Ownership'
<1>1. /\ link[k] = "open" /\ link'[k] = "gone"
      /\ \A j \in Conns \ {k} : link'[j] = link[j]
      /\ UNCHANGED <<caller, conn, worker, pool>>
      /\ ToSet(pool) \subseteq Conns
  BY PoolOfConns DEF TypeOK, Drop
<1>2. ExclusiveUse'
  BY <1>1 DEF Ownership, ExclusiveUse, Holding
<1>3. NoConnectionLeak'
  BY <1>1 DEF Ownership, NoConnectionLeak, Holding
<1>4. OwnedAreAlive'
  BY <1>1 DEF Ownership, OwnedAreAlive, Holding
<1>5. WorkersConnected'
  BY <1>1 DEF Ownership, WorkersConnected
<1> QED
  BY <1>2, <1>3, <1>4, <1>5 DEF Ownership

\* Every step keeps the ownership.
LEMMA OwnershipStep ==
    ASSUME TypeOK, Ownership, [Next]_vars
    PROVE  Ownership'
<1> USE DEF net, Holding
<1>1. ASSUME NEW n \in Calls, Enter(n)
      PROVE  Ownership'
  BY <1>1, OwnershipFrame DEF TypeOK, Enter
<1>2. ASSUME NEW n \in Calls, Rejected(n)
      PROVE  Ownership'
  BY <1>2, OwnershipFrame DEF TypeOK, Rejected, Returns
<1>3. ASSUME NEW n \in Calls, GetFails(n)
      PROVE  Ownership'
  BY <1>3, OwnershipFrame DEF TypeOK, GetFails, Returns
<1>4. ASSUME NEW n \in Calls, Finish(n)
      PROVE  Ownership'
  BY <1>4, OwnershipFrame DEF TypeOK, Finish, Returns
<1>5. ASSUME NEW n \in Calls, Timeout(n)
      PROVE  Ownership'
  BY <1>5, OwnershipFrame DEF TypeOK, Timeout, Returns
<1>6. ASSUME NEW n \in Calls, PutPanics(n)
      PROVE  Ownership'
  BY <1>6, OwnershipFrame DEF TypeOK, PutPanics
<1>7. ASSUME NEW n \in Calls, Write(n)
      PROVE  Ownership'
  BY <1>7, OwnershipFrame DEF TypeOK, Write
<1>8. ASSUME NEW n \in Calls, WriteFails(n)
      PROVE  Ownership'
  BY <1>8, OwnershipFrame DEF TypeOK, WriteFails, Replies
<1>9. ASSUME NEW n \in Calls, Read(n)
      PROVE  Ownership'
  BY <1>9, OwnershipFrame DEF TypeOK, Read, Replies
<1>10. ASSUME NEW n \in Calls, ReadFails(n)
      PROVE  Ownership'
  BY <1>10, OwnershipFrame DEF TypeOK, ReadFails, Replies
<1>11. ASSUME NEW n \in Calls, ReadGarbage(n)
      PROVE  Ownership'
  BY <1>11, OwnershipFrame DEF TypeOK, ReadGarbage, Replies
<1>12. ASSUME NEW m \in Calls, NEW n \in Calls, WritesCollide(m, n)
      PROVE  Ownership'
  BY <1>12, OwnershipFrame DEF TypeOK, WritesCollide
<1>13. ASSUME NEW m \in Calls, NEW n \in Calls, ReadsCollide(m, n)
      PROVE  Ownership'
  BY <1>13, OwnershipFrame DEF TypeOK, ReadsCollide
<1>14. ASSUME NEW k \in Conns, Serve(k)
      PROVE  Ownership'
  BY <1>14, OwnershipFrame DEF TypeOK, Serve
<1>15. ASSUME CloseClient
      PROVE  Ownership'
  BY <1>15, OwnershipFrame DEF TypeOK, CloseClient
<1>16. ASSUME NEW n \in Calls, GetIdle(n)
      PROVE  Ownership'
  BY <1>16, OwnershipGetIdle
<1>17. ASSUME NEW n \in Calls, GetNew(n)
      PROVE  Ownership'
  BY <1>17, OwnershipGetNew
<1>18. ASSUME NEW n \in Calls, PutIdle(n)
      PROVE  Ownership'
  BY <1>18, OwnershipPutIdle
<1>19. ASSUME NEW n \in Calls, PutSurplus(n)
      PROVE  Ownership'
  BY <1>19, OwnershipPutSurplus
<1>20. ASSUME DrainOne
      PROVE  Ownership'
  BY <1>20, OwnershipDrainOne
<1>21. ASSUME NEW k \in Conns, Drop(k)
      PROVE  Ownership'
  BY <1>21, OwnershipDrop
<1>22. ASSUME ClosePool
      PROVE  Ownership'
  BY <1>22, OwnershipFrame DEF ClosePool
<1>23. ASSUME NEW n \in Calls, EncodeFails(n)
      PROVE  Ownership'
  BY <1>23, OwnershipFrame DEF TypeOK, EncodeFails, Replies
<1>24. CASE UNCHANGED vars
  BY <1>24, OwnershipFrame DEF vars
<1> QED
  BY <1>1, <1>2, <1>3, <1>4, <1>5, <1>6, <1>7, <1>8, <1>9, <1>10, <1>11, <1>12, <1>13, <1>14, <1>15, <1>16, <1>17, <1>18, <1>19, <1>20, <1>21, <1>22, <1>23, <1>24
     DEF Next, CallerStep, WorkerStep, Collision, ServerStep

\* The initial state: no connection is dialled and no call has begun.
LEMMA InitOwned == Init => TypeOK /\ Ownership
<1>1. <<>> \in Seq(Conns) /\ <<>> \in Seq(Calls \cup {Garbage})
  OBVIOUS
<1>2. Init => TypeOK
  <2> SUFFICES ASSUME Init PROVE TypeOK
    OBVIOUS
  <2>1. late \in BOOLEAN
    BY Zenon DEF Init
  <2>2. /\ conn \in [Calls -> Conns \cup {None}]
        /\ reply \in [Calls -> Results] /\ result \in [Calls -> Results]
    BY DEF Init, Results
  <2>3. /\ caller \in [Calls -> {"new", "rejected", "get", "wait", "put", "done"}]
        /\ worker \in [Calls -> {"none", "write", "read", "done"}]
        /\ link \in [Conns -> {"unused", "open", "closed", "gone"}]
        /\ owner \in {"open", "closing", "closed", "panic"}
    BY DEF Init
  <2>4. /\ up \in [Conns -> Seq(Calls \cup {Garbage})]
        /\ down \in [Conns -> Seq(Calls \cup {Garbage})]
        /\ pool \in Seq(Conns)
    BY <1>1 DEF Init
  <2> QED
    BY <2>1, <2>2, <2>3, <2>4 DEF TypeOK
<1>3. Init => Ownership
  BY EmptyPool DEF Init, Ownership, ExclusiveUse, NoConnectionLeak, OwnedAreAlive,
                   WorkersConnected, Holding
<1> QED
  BY <1>2, <1>3

\* Every connection has one owner, with or without deadlines, and whether or
\* not the client is closed: the pool, one call, or nobody once it is closed.
THEOREM OwnershipHolds == Spec => [](TypeOK /\ Ownership)
<1>1. TypeOK /\ Ownership /\ [Next]_vars => (TypeOK /\ Ownership)'
  BY TypeStep, OwnershipStep
<1> QED
  BY <1>1, InitOwned, PTL DEF Spec

\* No two calls hold one connection, and none holds a pooled one.
THEOREM ExclusiveUseHolds == Spec => []ExclusiveUse
<1>1. Ownership => ExclusiveUse
  BY DEF Ownership
<1> QED
  BY <1>1, OwnershipHolds, PTL

\* No path of a call loses its connection.
THEOREM NoConnectionLeakHolds == Spec => []NoConnectionLeak
<1>1. Ownership => NoConnectionLeak
  BY DEF Ownership
<1> QED
  BY <1>1, OwnershipHolds, PTL

-----------------------------------------------------------------------------
(* Calls without a deadline: one exchange at a time on each connection.    *)

\* A working call is the only user of its connection.
LEMMA SoleUser ==
    ASSUME Ownership, CallersWait, NEW n \in Calls, Working(n)
    PROVE  /\ caller[n] = "wait" /\ Holding(n)
           /\ conn[n] \in Conns /\ link[conn[n]] \in {"open", "gone"}
           /\ conn[n] \notin ToSet(pool)
           /\ \A m \in Calls \ {n} : Holding(m) \/ Working(m) => conn[m] # conn[n]
<1>1. \A m \in Calls : Working(m) => Holding(m) /\ caller[m] = "wait"
  BY DEF CallersWait, Holding
<1> QED
  BY <1>1 DEF Ownership, ExclusiveUse, OwnedAreAlive

\* A step that moves no connection, no message and no worker.
LEMMA ExchangeFrame ==
    ASSUME Exchange, UNCHANGED <<worker, conn, reply, link, up, down, pool>>,
           \A n \in Calls : Holding(n)' => Holding(n),
           \A n \in Calls : Working(n) => caller'[n] = caller[n],
           \A n \in Calls : result'[n] \in {n, Error, None}
    PROVE  Exchange'
<1>1. CallersWait'
  BY DEF Exchange, CallersWait, Working
<1>2. OwnExchange'
  BY DEF Exchange, OwnExchange, Quiet
<1>3. NothingStray' /\ IdleIsQuiet' /\ RepliesPaired' /\ Paired'
  BY DEF Exchange, NothingStray, IdleIsQuiet, RepliesPaired, Paired, Quiet, Working
<1> QED
  BY <1>1, <1>2, <1>3 DEF Exchange

\* Get: a pooled connection is at rest, so is the one the new call holds.
LEMMA ExchangeGetIdle ==
    ASSUME TypeOK, Ownership, Exchange, NEW n \in Calls, GetIdle(n)
    PROVE  Exchange'
<1> DEFINE h == Head(pool)
<1>1. /\ h \in Conns /\ h \in ToSet(pool)
      /\ ToSet(pool') = ToSet(pool) \ {h}
  BY TailOfPool DEF TypeOK, Ownership, ExclusiveUse, GetIdle
<1>2. /\ conn'[n] = h /\ caller'[n] = "wait" /\ worker'[n] = "write"
      /\ \A m \in Calls \ {n} : /\ caller'[m] = caller[m] /\ conn'[m] = conn[m]
                                /\ worker'[m] = worker[m]
      /\ UNCHANGED <<reply, result, link, up, down>>
  BY DEF TypeOK, GetIdle, Launch, net
<1> HIDE DEF h
<1>3. Quiet(h)
  BY <1>1 DEF Exchange, IdleIsQuiet, Quiet
<1>4. CallersWait'
  BY <1>2 DEF Exchange, CallersWait, Working
<1>5. OwnExchange'
  BY <1>2, <1>3 DEF Exchange, OwnExchange, Quiet, Holding
<1>6. IdleIsQuiet'
  BY <1>1, <1>2 DEF Exchange, IdleIsQuiet, Working
<1>7. NothingStray' /\ RepliesPaired' /\ Paired'
  BY <1>2 DEF Exchange, NothingStray, RepliesPaired, Paired, Quiet
<1> QED
  BY <1>4, <1>5, <1>6, <1>7 DEF Exchange

\* Get: a connection just dialled carries nothing.
LEMMA ExchangeGetNew ==
    ASSUME TypeOK, Ownership, Exchange, NEW n \in Calls, GetNew(n)
    PROVE  Exchange'
<1>1. PICK k \in Conns : /\ link[k] = "unused"
                         /\ link' = [link EXCEPT ![k] = "open"]
                         /\ Launch(n, k)
  BY DEF GetNew
<1>2. /\ conn'[n] = k /\ caller'[n] = "wait" /\ worker'[n] = "write"
      /\ \A m \in Calls \ {n} : /\ caller'[m] = caller[m] /\ conn'[m] = conn[m]
                                /\ worker'[m] = worker[m]
      /\ link'[k] = "open" /\ \A j \in Conns \ {k} : link'[j] = link[j]
      /\ UNCHANGED <<reply, result, up, down, pool>>
  BY <1>1 DEF TypeOK, GetNew, Launch
<1>3. Quiet(k) /\ k \notin ToSet(pool)
  <2>1. \A j \in Conns : link[j] = "unused" => Quiet(j)
    BY DEF Exchange, NothingStray
  <2>2. k \notin ToSet(pool)
    BY <1>1 DEF Ownership, OwnedAreAlive
  <2> QED
    BY <1>1, <2>1, <2>2
<1>4. CallersWait'
  BY <1>2 DEF Exchange, CallersWait, Working
<1>5. OwnExchange'
  BY <1>2, <1>3 DEF Exchange, OwnExchange, Quiet, Holding
<1>6. IdleIsQuiet'
  BY <1>2, <1>3 DEF Exchange, IdleIsQuiet, Working
<1>7. NothingStray' /\ RepliesPaired' /\ Paired'
  BY <1>2 DEF Exchange, NothingStray, RepliesPaired, Paired, Quiet
<1> QED
  BY <1>4, <1>5, <1>6, <1>7 DEF Exchange

\* Put: the worker is done, so the connection it leaves is at rest.
LEMMA ExchangePutIdle ==
    ASSUME TypeOK, Ownership, Exchange, NEW n \in Calls, PutIdle(n)
    PROVE  Exchange'
<1>1. Holding(n) /\ ~Working(n) /\ conn[n] \in Conns
  BY DEF PutIdle, Holding, Exchange, CallersWait, Ownership, OwnedAreAlive
<1>2. ToSet(pool') = ToSet(pool) \cup {conn[n]}
  BY <1>1, AppendToPool DEF TypeOK, PutIdle
<1>3. /\ \A m \in Calls \ {n} : caller'[m] = caller[m]
      /\ caller'[n] = "done"
      /\ UNCHANGED <<worker, conn, reply, result, link, up, down>>
  BY DEF TypeOK, PutIdle, net
<1>4. Quiet(conn[n])
  BY <1>1 DEF Exchange, OwnExchange, Working
<1>5. \A m \in Calls : Working(m) => conn[m] # conn[n]
  BY <1>1, SoleUser DEF Exchange
<1>6. CallersWait'
  BY <1>1, <1>3 DEF Exchange, CallersWait, Working
<1>7. OwnExchange'
  BY <1>3 DEF Exchange, OwnExchange, Quiet, Holding
<1>8. IdleIsQuiet'
  BY <1>2, <1>3, <1>4, <1>5 DEF Exchange, IdleIsQuiet, Working, Quiet
<1>9. NothingStray' /\ RepliesPaired' /\ Paired'
  BY <1>3 DEF Exchange, NothingStray, RepliesPaired, Paired, Quiet
<1> QED
  BY <1>6, <1>7, <1>8, <1>9 DEF Exchange

\* Put on a full pool: no other call uses the connection that is closed.
LEMMA ExchangePutSurplus ==
    ASSUME TypeOK, Ownership, Exchange, NEW n \in Calls, PutSurplus(n)
    PROVE  Exchange'
<1>1. Holding(n) /\ ~Working(n) /\ conn[n] \in Conns
  BY DEF PutSurplus, Holding, Exchange, CallersWait, Ownership, OwnedAreAlive
<1>2. /\ \A m \in Calls \ {n} : caller'[m] = caller[m]
      /\ caller'[n] = "done"
      /\ link'[conn[n]] = "closed"
      /\ \A j \in Conns \ {conn[n]} : link'[j] = link[j]
      /\ UNCHANGED <<worker, conn, reply, result, up, down, pool>>
  BY <1>1 DEF TypeOK, PutSurplus
<1>3. CallersWait'
  BY <1>1, <1>2 DEF Exchange, CallersWait, Working
<1>4. OwnExchange'
  BY <1>2 DEF Exchange, OwnExchange, Quiet, Holding
<1>5. NothingStray' /\ IdleIsQuiet' /\ RepliesPaired' /\ Paired'
  BY <1>2 DEF Exchange, NothingStray, IdleIsQuiet, RepliesPaired, Paired, Quiet, Working
<1> QED
  BY <1>3, <1>4, <1>5 DEF Exchange

\* A request starts the one exchange of its connection.
LEMMA ExchangeWrite ==
    ASSUME TypeOK, Ownership, Exchange, NEW n \in Calls, Write(n)
    PROVE  Exchange'
<1> DEFINE k == conn[n]
<1>1. Working(n) /\ worker[n] = "write"
  BY DEF Write, Working
<1>2. /\ caller[n] = "wait" /\ Holding(n) /\ k \in Conns /\ k \notin ToSet(pool)
      /\ \A m \in Calls \ {n} : Holding(m) \/ Working(m) => conn[m] # k
  BY <1>1, SoleUser DEF Exchange
<1>3. Quiet(k)
  BY <1>1, <1>2 DEF Exchange, OwnExchange
<1>4. /\ worker'[n] = "read" /\ \A m \in Calls \ {n} : worker'[m] = worker[m]
      /\ \A j \in Conns \ {k} : up'[j] = up[j]
      /\ \/ link[k] = "open" /\ up'[k] = <<n>>
         \/ link[k] = "gone" /\ up'[k] = <<>>
      /\ UNCHANGED <<caller, conn, reply, result, link, down, pool>>
  BY <1>2, <1>3 DEF TypeOK, Write, Quiet
<1>5. ToSet(pool) \subseteq Conns
  BY PoolOfConns DEF TypeOK
<1> HIDE DEF k
<1>6. CallersWait'
  BY <1>2, <1>4 DEF Exchange, CallersWait, Working
<1>7. ASSUME NEW m \in Calls, Holding(m)'
      PROVE  \/ Quiet(conn[m])'
             \/ worker'[m] = "read" /\ up'[conn[m]] = <<m>> /\ down'[conn[m]] = <<>>
             \/ worker'[m] = "read" /\ up'[conn[m]] = <<>> /\ down'[conn[m]] = <<m>>
  <2>1. Holding(m) /\ conn[m] \in Conns
    BY <1>4, <1>7 DEF Holding, Ownership, OwnedAreAlive
  <2>2. CASE m = n
    BY <1>3, <1>4, <2>2 DEF Quiet, k
  <2>3. CASE m # n
    <3>1. up'[conn[m]] = up[conn[m]] /\ worker'[m] = worker[m] /\ down' = down
      BY <1>2, <1>4, <2>1, <2>3
    <3> QED
      BY <1>4, <2>1, <3>1 DEF Exchange, OwnExchange, Quiet
  <2> QED
    BY <2>2, <2>3
<1>8. OwnExchange'
  BY <1>4, <1>7 DEF OwnExchange
<1>9. NothingStray'
  BY <1>4 DEF Exchange, NothingStray, Quiet
<1>10. IdleIsQuiet'
  BY <1>2, <1>4, <1>5 DEF Exchange, IdleIsQuiet, Working, k
<1>11. RepliesPaired' /\ Paired'
  BY <1>4 DEF Exchange, RepliesPaired, Paired
<1> QED
  BY <1>6, <1>8, <1>9, <1>10, <1>11 DEF Exchange

\* The worker is done with a connection at rest, and has its reply.
LEMMA ExchangeReplies ==
    ASSUME TypeOK, Ownership, Exchange, NEW n \in Calls, Working(n),
           NEW r \in {n, Error}, Replies(n, r),
           UNCHANGED <<caller, conn, result, link, up, pool>>,
           Quiet(conn[n])', down' = [down EXCEPT ![conn[n]] = <<>>]
    PROVE  Exchange'
<1> DEFINE k == conn[n]
<1>1. /\ Holding(n) /\ k \in Conns /\ k \notin ToSet(pool)
      /\ \A m \in Calls \ {n} : Holding(m) => conn[m] # k
  BY SoleUser DEF Exchange
<1>2. /\ worker'[n] = "done" /\ \A m \in Calls \ {n} : worker'[m] = worker[m]
      /\ reply'[n] = r /\ \A m \in Calls \ {n} : reply'[m] = reply[m]
      /\ down'[k] = <<>> /\ \A j \in Conns \ {k} : down'[j] = down[j]
      /\ up[k] = <<>>
  BY <1>1 DEF TypeOK, Replies, Quiet
<1>3. ToSet(pool) \subseteq Conns
  BY PoolOfConns DEF TypeOK
<1> HIDE DEF k
<1>4. CallersWait'
  BY <1>2 DEF Exchange, CallersWait, Working
<1>5. ASSUME NEW m \in Calls, Holding(m)'
      PROVE  \/ Quiet(conn[m])'
             \/ worker'[m] = "read" /\ up'[conn[m]] = <<m>> /\ down'[conn[m]] = <<>>
             \/ worker'[m] = "read" /\ up'[conn[m]] = <<>> /\ down'[conn[m]] = <<m>>
  <2>1. Holding(m) /\ conn[m] \in Conns
    BY <1>5 DEF Holding, Ownership, OwnedAreAlive
  <2>2. CASE m = n
    BY <2>2
  <2>3. CASE m # n
    <3>1. down'[conn[m]] = down[conn[m]] /\ worker'[m] = worker[m]
      BY <1>1, <1>2, <2>1, <2>3
    <3> QED
      BY <2>1, <3>1 DEF Exchange, OwnExchange, Quiet
  <2> QED
    BY <2>2, <2>3
<1>6. OwnExchange'
  BY <1>5 DEF OwnExchange
<1>7. NothingStray'
  BY <1>2 DEF Exchange, NothingStray, Quiet
<1>8. IdleIsQuiet'
  BY <1>1, <1>2, <1>3 DEF Exchange, IdleIsQuiet, Working
<1>9. RepliesPaired' /\ Paired'
  BY <1>2 DEF Exchange, RepliesPaired, Paired
<1> QED
  BY <1>4, <1>6, <1>7, <1>8, <1>9 DEF Exchange

\* What a reading worker can find: nothing, or the response to its request.
LEMMA OwnResponse ==
    ASSUME Ownership, Exchange, NEW n \in Calls, worker[n] = "read"
    PROVE  \/ Quiet(conn[n])
           \/ up[conn[n]] = <<n>> /\ down[conn[n]] = <<>>
           \/ up[conn[n]] = <<>> /\ down[conn[n]] = <<n>>
<1>1. Holding(n)
  BY DEF Exchange, CallersWait, Working, Holding
<1> QED
  BY <1>1 DEF Exchange, OwnExchange

LEMMA ExchangeRead ==
    ASSUME TypeOK, Ownership, Exchange, NEW n \in Calls, Read(n)
    PROVE  Exchange'
<1>1. Working(n) /\ conn[n] \in Conns
  BY SoleUser DEF Read, Working, Exchange
<1>2. up[conn[n]] = <<>> /\ down[conn[n]] = <<n>>
  BY OwnResponse DEF Read, Quiet
<1>3. /\ Replies(n, n)
      /\ down' = [down EXCEPT ![conn[n]] = <<>>]
      /\ UNCHANGED <<caller, conn, result, link, up, pool>>
  BY <1>2 DEF Read
<1>4. Quiet(conn[n])'
  BY <1>1, <1>2, <1>3 DEF TypeOK, Quiet
<1> QED
  BY <1>1, <1>3, <1>4, ExchangeReplies

\* A write that fails finds the server gone: nothing was on its way.
LEMMA ExchangeWriteFails ==
    ASSUME TypeOK, Ownership, Exchange, NEW n \in Calls, WriteFails(n)
    PROVE  Exchange'
<1>1. Working(n) /\ conn[n] \in Conns /\ Holding(n) /\ worker[n] = "write"
  BY SoleUser DEF WriteFails, Working, Exchange
<1>2. Quiet(conn[n])
  BY <1>1 DEF Exchange, OwnExchange
<1>3. /\ Replies(n, Error)
      /\ down' = [down EXCEPT ![conn[n]] = <<>>]
      /\ UNCHANGED <<caller, conn, result, link, up, pool>>
      /\ Quiet(conn[n])'
  BY <1>1, <1>2 DEF TypeOK, WriteFails, Quiet, net
<1> QED
  BY <1>1, <1>3, ExchangeReplies

\* A request that cannot be encoded leaves the connection at rest.
LEMMA ExchangeEncodeFails ==
    ASSUME TypeOK, Ownership, Exchange, NEW n \in Calls, EncodeFails(n)
    PROVE  Exchange'
<1>1. Working(n) /\ conn[n] \in Conns /\ Holding(n) /\ worker[n] = "write"
  BY SoleUser DEF EncodeFails, Working, Exchange
<1>2. Quiet(conn[n])
  BY <1>1 DEF Exchange, OwnExchange
<1>3. /\ Replies(n, Error)
      /\ down' = [down EXCEPT ![conn[n]] = <<>>]
      /\ UNCHANGED <<caller, conn, result, link, up, pool>>
      /\ Quiet(conn[n])'
  BY <1>1, <1>2 DEF TypeOK, EncodeFails, Quiet, net
<1> QED
  BY <1>1, <1>3, ExchangeReplies

\* A read that fails finds the server gone and everything that arrived read.
LEMMA ExchangeReadFails ==
    ASSUME TypeOK, Ownership, Exchange, NEW n \in Calls, ReadFails(n)
    PROVE  Exchange'
<1>1. Working(n) /\ conn[n] \in Conns /\ link[conn[n]] \in {"open", "gone"}
  BY SoleUser DEF ReadFails, Working, Exchange
<1>2. Quiet(conn[n])
  BY <1>1 DEF ReadFails, Exchange, NothingStray, Quiet
<1>3. /\ Replies(n, Error)
      /\ down' = [down EXCEPT ![conn[n]] = <<>>]
      /\ UNCHANGED <<caller, conn, result, link, up, pool>>
      /\ Quiet(conn[n])'
  BY <1>1, <1>2 DEF TypeOK, ReadFails, Quiet, net
<1> QED
  BY <1>1, <1>3, ExchangeReplies

\* Calls in time never meet on a connection, so nothing is garbled.
LEMMA NothingGarbled ==
    ASSUME TypeOK, Ownership, Exchange, NEW m \in Calls, NEW n \in Calls
    PROVE  ~ReadGarbage(n) /\ ~WritesCollide(m, n) /\ ~ReadsCollide(m, n)
<1>1. ~ReadGarbage(n)
  <2>1. SUFFICES ASSUME ReadGarbage(n) PROVE FALSE
    OBVIOUS
  <2>2. down[conn[n]] = <<n>>
    BY <2>1, OwnResponse DEF ReadGarbage, Quiet
  <2> QED
    BY <2>1, <2>2, ResultsDistinct DEF ReadGarbage
<1>2. ~WritesCollide(m, n) /\ ~ReadsCollide(m, n)
  BY SoleUser DEF WritesCollide, ReadsCollide, Working, Exchange
<1> QED
  BY <1>1, <1>2

\* The server turns the request of an exchange into its response.
LEMMA ExchangeServe ==
    ASSUME TypeOK, Ownership, Exchange, NEW k \in Conns, Serve(k)
    PROVE  Exchange'
<1>1. PICK n \in Calls : Holding(n) /\ conn[n] = k
  BY DEF Serve, Ownership, NoConnectionLeak, Exchange, IdleIsQuiet
<1>2. worker[n] = "read" /\ up[k] = <<n>> /\ down[k] = <<>>
  BY <1>1 DEF Serve, Exchange, OwnExchange, Quiet
<1>3. /\ up'[k] = <<>> /\ down'[k] = <<n>>
      /\ \A j \in Conns \ {k} : up'[j] = up[j] /\ down'[j] = down[j]
      /\ UNCHANGED <<caller, worker, conn, reply, result, link, pool>>
      /\ link[k] = "open"
  BY <1>2 DEF TypeOK, Serve
<1>4. /\ \A m \in Calls \ {n} : Holding(m) => conn[m] # k
      /\ k \notin ToSet(pool) /\ ToSet(pool) \subseteq Conns
  BY <1>1, PoolOfConns DEF TypeOK, Ownership, ExclusiveUse
<1>5. CallersWait'
  BY <1>3 DEF Exchange, CallersWait, Working
<1>6. ASSUME NEW m \in Calls, Holding(m)'
      PROVE  \/ Quiet(conn[m])'
             \/ worker'[m] = "read" /\ up'[conn[m]] = <<m>> /\ down'[conn[m]] = <<>>
             \/ worker'[m] = "read" /\ up'[conn[m]] = <<>> /\ down'[conn[m]] = <<m>>
  <2>1. Holding(m) /\ conn[m] \in Conns
    BY <1>3, <1>6 DEF Holding, Ownership, OwnedAreAlive
  <2>2. CASE m = n
    BY <1>1, <1>2, <1>3, <2>2
  <2>3. CASE m # n
    <3>1. up'[conn[m]] = up[conn[m]] /\ down'[conn[m]] = down[conn[m]]
      BY <1>3, <1>4, <2>1, <2>3
    <3> QED
      BY <1>3, <2>1, <3>1 DEF Exchange, OwnExchange, Quiet
  <2> QED
    BY <2>2, <2>3
<1>7. OwnExchange'
  BY <1>3, <1>6 DEF OwnExchange
<1>8. NothingStray'
  BY <1>3 DEF Exchange, NothingStray, Quiet
<1>9. IdleIsQuiet'
  BY <1>3, <1>4 DEF Exchange, IdleIsQuiet, Working
<1>10. RepliesPaired' /\ Paired'
  BY <1>3 DEF Exchange, RepliesPaired, Paired
<1> QED
  BY <1>5, <1>7, <1>8, <1>9, <1>10 DEF Exchange

\* A sequence of one element is that element's tuple.
LEMMA OneElement ==
    ASSUME NEW S, NEW x \in S, NEW s \in Seq(S), Len(s) = 1, s[1] = x
    PROVE  s = <<x>>
<1> DEFINE t == <<x>>
<1>1. t \in Seq(S) /\ Len(t) = 1 /\ t[1] = x
  OBVIOUS
<1> HIDE DEF t
<1>2. s \in [1..1 -> S] /\ t \in [1..1 -> S] /\ \A i \in 1..1 : i = 1
  BY <1>1
<1>3. s = t
  BY <1>1, <1>2
<1> QED
  BY <1>3 DEF t

\* The server leaves: the exchange is cut short.
LEMMA ExchangeDrop ==
    ASSUME TypeOK, Ownership, Exchange, NEW k \in Conns, Drop(k)
    PROVE  Exchange'
<1>1. PICK a \in 0..Len(down[k]) : down' = [down EXCEPT ![k] = SubSeq(@, 1, a)]
  BY DEF Drop
<1>2. /\ link[k] = "open" /\ link'[k] = "gone" /\ up'[k] = <<>>
      /\ \A j \in Conns \ {k} : link'[j] = link[j] /\ up'[j] = up[j] /\ down'[j] = down[j]
      /\ down'[k] = SubSeq(down[k], 1, a)
      /\ UNCHANGED <<caller, worker, conn, reply, result, pool>>
  BY <1>1 DEF TypeOK, Drop
<1>3. down[k] = <<>> => down'[k] = <<>>
  BY <1>1, <1>2
<1>4. \A n \in Calls : down[k] = <<n>> => down'[k] \in {<<>>, <<n>>}
  <2>1. SUFFICES ASSUME NEW n \in Calls, down[k] = <<n>>
                 PROVE  down'[k] \in {<<>>, <<n>>}
    OBVIOUS
  <2>2. CASE a = 0
    BY <1>2, <2>1, <2>2
  <2>3. CASE a = 1
    <3>1. down[k] \in Seq(Calls \cup {Garbage}) /\ Len(down[k]) = 1 /\ down[k][1] = n
      BY <2>1 DEF TypeOK
    <3>2. /\ down'[k] \in Seq(Calls \cup {Garbage})
          /\ Len(down'[k]) = 1 /\ down'[k][1] = n
      BY <1>2, <2>3, <3>1
    <3> QED
      BY <3>2, OneElement
  <2> QED
    BY <1>1, <2>1, <2>2, <2>3
<1>5. ToSet(pool) \subseteq Conns
  BY PoolOfConns DEF TypeOK
<1>6. CallersWait'
  BY <1>2 DEF Exchange, CallersWait, Working
<1>7. ASSUME NEW m \in Calls, Holding(m)'
      PROVE  \/ Quiet(conn[m])'
             \/ worker'[m] = "read" /\ up'[conn[m]] = <<m>> /\ down'[conn[m]] = <<>>
             \/ worker'[m] = "read" /\ up'[conn[m]] = <<>> /\ down'[conn[m]] = <<m>>
  <2>1. Holding(m) /\ conn[m] \in Conns
    BY <1>2, <1>7 DEF Holding, Ownership, OwnedAreAlive
  <2>2. CASE conn[m] = k
    BY <1>2, <1>3, <1>4, <2>1, <2>2 DEF Exchange, OwnExchange, Quiet
  <2>3. CASE conn[m] # k
    BY <1>2, <2>1, <2>3 DEF Exchange, OwnExchange, Quiet
  <2> QED
    BY <2>2, <2>3
<1>8. OwnExchange'
  BY <1>2, <1>7 DEF OwnExchange
<1>9. NothingStray'
  BY <1>2 DEF Exchange, NothingStray, Quiet
<1>10. IdleIsQuiet'
  BY <1>2, <1>3, <1>5 DEF Exchange, IdleIsQuiet, Working
<1>11. RepliesPaired' /\ Paired'
  BY <1>2 DEF Exchange, RepliesPaired, Paired
<1> QED
  BY <1>6, <1>8, <1>9, <1>10, <1>11 DEF Exchange

\* Draining the pool disturbs no call.
LEMMA ExchangeDrainOne ==
    ASSUME TypeOK, Ownership, Exchange, DrainOne
    PROVE  Exchange'
<1>1. ToSet(pool') \subseteq ToSet(pool)
  BY TailOfPool DEF TypeOK, Ownership, ExclusiveUse, DrainOne
<1>2. /\ \A k \in Conns : link'[k] \in {"closed", link[k]}
      /\ UNCHANGED <<caller, worker, conn, reply, result, up, down>>
  BY DEF TypeOK, DrainOne
<1>3. CallersWait' /\ RepliesPaired' /\ Paired'
  BY <1>2 DEF Exchange, CallersWait, RepliesPaired, Paired, Working
<1>4. OwnExchange'
  BY <1>2 DEF Exchange, OwnExchange, Quiet, Holding
<1>5. NothingStray'
  BY <1>2 DEF Exchange, NothingStray, Quiet
<1>6. IdleIsQuiet'
  BY <1>1, <1>2 DEF Exchange, IdleIsQuiet, Working
<1> QED
  BY <1>3, <1>4, <1>5, <1>6 DEF Exchange

\* Until a call is late every step keeps one exchange to a connection.
LEMMA ExchangeStep ==
    ASSUME ~late', TypeOK, Ownership, Exchange, [Next]_vars
    PROVE  Exchange'
<1> USE DEF net
<1>1. ASSUME NEW n \in Calls, Enter(n) \/ Rejected(n) \/ GetFails(n) \/ PutPanics(n)
      PROVE  Exchange'
  <2>1. \A m \in Calls : Working(m) => caller[m] = "wait"
    BY DEF Exchange, CallersWait
  <2> QED
    BY <1>1, <2>1, ExchangeFrame
       DEF TypeOK, Exchange, Paired, Holding, Enter, Rejected, GetFails, PutPanics, Returns
<1>2. ASSUME NEW n \in Calls, Finish(n)
      PROVE  Exchange'
  BY <1>2, ExchangeFrame
     DEF TypeOK, Exchange, Paired, RepliesPaired, Holding, Working, Finish, Returns
<1>3. ASSUME NEW n \in Calls, Timeout(n)
      PROVE  Exchange'
  <2>1. ~Working(n)
    BY <1>3 DEF Timeout
  <2> QED
    BY <1>3, <2>1, ExchangeFrame
       DEF TypeOK, Exchange, Paired, Holding, Working, Timeout, Returns
<1>4. ASSUME NEW n \in Calls, GetIdle(n) \/ GetNew(n) \/ PutIdle(n) \/ PutSurplus(n)
      PROVE  Exchange'
  BY <1>4, ExchangeGetIdle, ExchangeGetNew, ExchangePutIdle, ExchangePutSurplus
<1>5. ASSUME NEW n \in Calls, WorkerStep(n)
      PROVE  Exchange'
  BY <1>5, ExchangeEncodeFails, ExchangeWrite, ExchangeWriteFails, ExchangeRead, ExchangeReadFails, NothingGarbled
     DEF WorkerStep
<1>6. CASE Collision
  BY <1>6, NothingGarbled DEF Collision
<1>7. CASE ServerStep
  BY <1>7, ExchangeServe, ExchangeDrop DEF ServerStep
<1>8. CASE CloseClient \/ ClosePool
  BY <1>8, ExchangeFrame DEF CloseClient, ClosePool, Exchange, Paired, Holding
<1>9. CASE DrainOne
  BY <1>9, ExchangeDrainOne
<1>10. CASE UNCHANGED vars
  BY <1>10, ExchangeFrame DEF vars, Exchange, Paired, Holding
<1> QED
  BY <1>1, <1>2, <1>3, <1>4, <1>5, <1>6, <1>7, <1>8, <1>9, <1>10 DEF Next, CallerStep

\* No step takes back that a call was late.
LEMMA LateStays ==
    ASSUME TypeOK, [Next]_vars, late
    PROVE  late'
BY DEF TypeOK, Next, CallerStep, WorkerStep, Collision, ServerStep, vars, Enter,
       GetIdle, GetNew, GetFails, Finish, Timeout, PutIdle, PutSurplus, PutPanics, Write,
       WriteFails, Read, ReadFails, ReadGarbage, WritesCollide, ReadsCollide, Serve, Drop,
       CloseClient, ClosePool, DrainOne, Rejected, EncodeFails

\* Calls share the pool safely until one is late: a connection carries at most
\* the exchange of the one call that holds it.
THEOREM ExchangeHolds == Spec => [](~late => Exchange)
<1>1. Init => Exchange
  BY EmptyPool DEF Init, Exchange, CallersWait, OwnExchange, NothingStray, IdleIsQuiet,
                   RepliesPaired, Paired, Quiet, Holding, Working
<1>2. TypeOK /\ Ownership /\ (~late => Exchange) /\ [Next]_vars => (~late => Exchange)'
  BY ExchangeStep, LateStays
<1> QED
  BY <1>1, <1>2, OwnershipHolds, PTL DEF Spec

\* Until a call is late, a call returns the response to its own request or an
\* error, although nothing in client.go compares message IDs.
THEOREM PairedInTimeHolds == Spec => []PairedInTime
<1>1. (~late => Exchange) => PairedInTime
  BY DEF Exchange, PairedInTime
<1> QED
  BY <1>1, ExchangeHolds, PTL

\* Until a call is late, a pooled connection is at rest.
THEOREM QuietInTimeHolds == Spec => []QuietInTime
<1>1. (~late => Exchange) => QuietInTime
  BY DEF Exchange, QuietInTime
<1> QED
  BY <1>1, ExchangeHolds, PTL
-----------------------------------------------------------------------------
(* The calls share the pool as PoolPromise says.                           *)

\* A sequence without repetitions has as many elements as its length says.
LEMMA PoolSize ==
    ASSUME NEW S, NEW s \in Seq(S), IsInjective(s)
    PROVE  IsFiniteSet(ToSet(s)) /\ Cardinality(ToSet(s)) = Len(s)
<1>1. Len(s) \in Nat /\ DOMAIN s = 1..Len(s) /\ s \in [1..Len(s) -> ToSet(s)]
  BY DEF ToSet
<1>2. s \in Bijection(1..Len(s), ToSet(s))
  BY <1>1 DEF Bijection, Injection, Surjection, IsInjective, ToSet
<1>3. IsFiniteSet(1..Len(s)) /\ Cardinality(1..Len(s)) = Len(s)
  BY <1>1, FS_Interval
<1> QED
  BY <1>2, <1>3, FS_Bijection DEF ExistsBijection

\* The buffered channel never holds more than its capacity.
PoolFits == Len(pool) <= MaxIdle

LEMMA PoolFitsStep ==
    ASSUME TypeOK, PoolFits, [Next]_vars
    PROVE  PoolFits'
<1>1. CASE UNCHANGED pool
  BY <1>1 DEF PoolFits
<1>2. ASSUME NEW n \in Calls, GetIdle(n)
      PROVE  PoolFits'
  <2>1. Len(pool') = Len(pool) - 1 /\ Len(pool) \in Nat
    BY <1>2 DEF GetIdle, TypeOK
  <2> QED
    BY <2>1, MaxIdleNat DEF PoolFits
<1>3. ASSUME NEW n \in Calls, PutIdle(n)
      PROVE  PoolFits'
  <2>1. Len(pool') = Len(pool) + 1 /\ Len(pool) \in Nat /\ Len(pool) < MaxIdle
    BY <1>3 DEF PutIdle, TypeOK
  <2> QED
    BY <2>1, MaxIdleNat DEF PoolFits
<1>4. CASE DrainOne
  <2>1. Len(pool') = Len(pool) - 1 /\ Len(pool) \in Nat
    BY <1>4 DEF DrainOne, TypeOK
  <2> QED
    BY <2>1, MaxIdleNat DEF PoolFits
<1> QED
  BY <1>1, <1>2, <1>3, <1>4
     DEF Next, CallerStep, WorkerStep, Collision, ServerStep, vars, Enter, Rejected, GetNew,
         GetFails, Finish, Timeout, PutSurplus, PutPanics, Write, WriteFails, Read, ReadFails,
         ReadGarbage, WritesCollide, ReadsCollide, Serve, Drop, CloseClient, ClosePool, EncodeFails

\* What is idle for the calls is what is in the channel.
LEMMA IdleIsPooled ==
    ASSUME TypeOK, Ownership
    PROVE  /\ Pool!Idle = ToSet(pool)
           /\ Pool!Cardinality(Pool!Idle) = Len(pool)
           /\ Pool!Idle = {} <=> pool = <<>>
<1>1. Pool!Idle = ToSet(pool)
  BY PoolOfConns DEF Pool!Idle, Place, TypeOK, Ownership, OwnedAreAlive
<1>2. Cardinality(ToSet(pool)) = Len(pool)
  BY PoolSize DEF TypeOK, Ownership, ExclusiveUse
<1>3. pool # <<>> => ToSet(pool) # {}
  BY TailOfPool DEF TypeOK, Ownership, ExclusiveUse
<1>4. Pool!Cardinality(ToSet(pool)) = Cardinality(ToSet(pool))
  BY DEF Cardinality, Pool!Cardinality
<1> QED
  BY <1>1, <1>2, <1>3, <1>4, EmptyPool

\* Where the connection of a call is while it holds it.
LEMMA HeldIsLent ==
    ASSUME TypeOK, Ownership, NEW n \in Calls, Holding(n)
    PROVE  /\ conn[n] \in Conns /\ Place[conn[n]] = "lent"
           /\ Phase[n] = "during" /\ Held[n] = conn[n]
BY DEF Ownership, OwnedAreAlive, ExclusiveUse, Place, Phase, Held

\* A step that moves no connection and begins or ends no use is invisible.
LEMMA PoolFrame ==
    ASSUME \A n \in Calls : /\ Holding(n)' <=> Holding(n)
                            /\ caller'[n] = "done" <=> caller[n] = "done"
                            /\ conn'[n] = conn[n],
           \A k \in Conns : /\ link'[k] = "unused" <=> link[k] = "unused"
                            /\ link'[k] = "closed" <=> link[k] = "closed",
           pool' = pool, Stage' = Stage
    PROVE  UNCHANGED Pool!vars
<1>1. Place' = Place
  BY DEF Place
<1>2. Phase' = Phase
  BY DEF Phase
<1>3. Held' = Held
  BY DEF Held
<1> QED
  BY <1>1, <1>2, <1>3 DEF Pool!vars

\* One call begins or ends its use, or goes without; the others notice nothing.
LEMMA OthersPhases ==
    ASSUME TypeOK, NEW n \in Calls, NEW phase, NEW held,
           \A m \in Calls \ {n} : caller'[m] = caller[m] /\ conn'[m] = conn[m],
           Phase'[n] = phase, Held'[n] = held
    PROVE  /\ Phase' = [Phase EXCEPT ![n] = phase]
           /\ Held' = [Held EXCEPT ![n] = held]
<1>1. \A m \in Calls \ {n} : Phase'[m] = Phase[m] /\ Held'[m] = Held[m]
  BY DEF Phase, Held, Holding
<1>2. /\ DOMAIN Phase = Calls /\ DOMAIN Phase' = Calls
      /\ DOMAIN Held = Calls /\ DOMAIN Held' = Calls
      /\ Phase = [m \in Calls |-> Phase[m]] /\ Phase' = [m \in Calls |-> Phase'[m]]
      /\ Held = [m \in Calls |-> Held[m]] /\ Held' = [m \in Calls |-> Held'[m]]
  BY DEF Phase, Held
<1> QED
  BY <1>1, <1>2

\* One connection changes its place.
LEMMA OtherPlaces ==
    ASSUME NEW k \in Conns, NEW where,
           \A j \in Conns \ {k} : Place'[j] = Place[j], Place'[k] = where
    PROVE  Place' = [Place EXCEPT ![k] = where]
<1>1. /\ DOMAIN Place = Conns /\ DOMAIN Place' = Conns
      /\ Place = [j \in Conns |-> Place[j]] /\ Place' = [j \in Conns |-> Place'[j]]
  BY DEF Place
<1> QED
  BY <1>1

\* Get from the channel.
LEMMA GetIdleBorrows ==
    ASSUME TypeOK, Ownership, NEW n \in Calls, GetIdle(n)
    PROVE  Pool!Borrow(n)
<1> DEFINE h == Head(pool)
<1>1. h \in ToSet(pool) /\ h \in Conns /\ ToSet(pool') = ToSet(pool) \ {h}
  BY TailOfPool DEF TypeOK, Ownership, ExclusiveUse, GetIdle
<1>2. link[h] \in {"open", "gone"}
  BY <1>1 DEF Ownership, OwnedAreAlive
<1>3. /\ caller[n] = "get" /\ caller'[n] = "wait" /\ conn'[n] = h
      /\ \A m \in Calls \ {n} : caller'[m] = caller[m] /\ conn'[m] = conn[m]
      /\ UNCHANGED <<link, owner>>
  BY DEF TypeOK, GetIdle, Launch, net
<1> HIDE DEF h
<1>4. Phase[n] = "before" /\ Phase'[n] = "during" /\ Held'[n] = h
  BY <1>3 DEF Phase, Held, Holding
<1>5. Place' = [Place EXCEPT ![h] = "lent"]
  <2>1. Place'[h] = "lent" /\ \A j \in Conns \ {h} : Place'[j] = Place[j]
    BY <1>1, <1>2, <1>3 DEF Place
  <2> QED
    BY <1>1, <2>1, OtherPlaces
<1>6. Phase' = [Phase EXCEPT ![n] = "during"] /\ Held' = [Held EXCEPT ![n] = h]
  BY <1>3, <1>4, OthersPhases
<1> QED
  BY <1>1, <1>3, <1>4, <1>5, <1>6, IdleIsPooled DEF Pool!Borrow, Pool!Lend, Stage

\* Get when the channel is empty, or closed.
LEMMA GetNewDials ==
    ASSUME TypeOK, Ownership, NEW n \in Calls, GetNew(n)
    PROVE  Pool!Dial(n)
<1>1. PICK k \in Conns : /\ link[k] = "unused"
                         /\ link' = [link EXCEPT ![k] = "open"]
                         /\ Launch(n, k)
  BY DEF GetNew
<1>2. /\ caller[n] = "get" /\ caller'[n] = "wait" /\ conn'[n] = k
      /\ \A m \in Calls \ {n} : caller'[m] = caller[m] /\ conn'[m] = conn[m]
      /\ link'[k] = "open" /\ \A j \in Conns \ {k} : link'[j] = link[j]
      /\ pool = <<>> /\ UNCHANGED <<pool, owner>>
  BY <1>1 DEF TypeOK, GetNew, Launch
<1>3. Phase[n] = "before" /\ Phase'[n] = "during" /\ Held'[n] = k
  BY <1>2 DEF Phase, Held, Holding
<1>4. Place[k] = "undialled"
  BY <1>1 DEF Place
<1>5. Place' = [Place EXCEPT ![k] = "lent"]
  <2>1. Place'[k] = "lent" /\ \A j \in Conns \ {k} : Place'[j] = Place[j]
    BY <1>2, EmptyPool DEF Place
  <2> QED
    BY <2>1, OtherPlaces
<1>6. Phase' = [Phase EXCEPT ![n] = "during"] /\ Held' = [Held EXCEPT ![n] = k]
  BY <1>2, <1>3, OthersPhases
<1> QED
  BY <1>2, <1>3, <1>4, <1>5, <1>6, IdleIsPooled DEF Pool!Dial, Pool!Lend, Stage

\* A dial that fails.
LEMMA ErrorGoesWithout ==
    ASSUME TypeOK, Ownership, NEW n \in Calls, GetFails(n)
    PROVE  Pool!GoWithout(n)
<1>1. /\ caller[n] = "get" /\ caller'[n] = "done"
      /\ \A m \in Calls \ {n} : caller'[m] = caller[m]
      /\ UNCHANGED <<conn, link, pool, owner>>
  BY DEF TypeOK, GetFails, Returns, net
<1>2. Phase[n] = "before" /\ Phase'[n] = "after" /\ Held'[n] = None /\ Held[n] = None
  BY <1>1 DEF Phase, Held, Holding
<1>3. Phase' = [Phase EXCEPT ![n] = "after"] /\ Held' = [Held EXCEPT ![n] = None]
  BY <1>1, <1>2, OthersPhases
<1>4. [Held EXCEPT ![n] = None] = Held
  BY <1>2 DEF Held
<1>5. Place' = Place /\ Stage' = Stage
  BY <1>1 DEF Place, Stage
<1>6. Pool!Idle = {}
  BY IdleIsPooled DEF GetFails
<1> QED
  BY <1>2, <1>3, <1>4, <1>5, <1>6 DEF Pool!GoWithout

\* Put ends the use of the connection, whatever becomes of it.
LEMMA PutGivesUp ==
    ASSUME TypeOK, Ownership, NEW n \in Calls, NEW where,
           caller[n] = "put", owner \in {"open", "closing"}, owner' = owner,
           caller' = [caller EXCEPT ![n] = "done"], conn' = conn,
           Place'[conn[n]] = where,
           \A j \in Conns \ {conn[n]} : Place'[j] = Place[j]
    PROVE  Pool!GiveUp(n, where)
<1>1. conn[n] \in Conns /\ Phase[n] = "during" /\ Held[n] = conn[n]
  BY HeldIsLent DEF Holding
<1>2. /\ caller'[n] = "done"
      /\ \A m \in Calls \ {n} : caller'[m] = caller[m] /\ conn'[m] = conn[m]
  BY DEF TypeOK
<1>3. Phase'[n] = "after" /\ Held'[n] = None
  BY <1>2 DEF Phase, Held, Holding
<1>4. Phase' = [Phase EXCEPT ![n] = "after"] /\ Held' = [Held EXCEPT ![n] = None]
  BY <1>2, <1>3, OthersPhases
<1>5. Place' = [Place EXCEPT ![conn[n]] = where]
  BY <1>1, OtherPlaces
<1> QED
  BY <1>1, <1>4, <1>5 DEF Pool!GiveUp, Stage

\* Put with room in the channel.
LEMMA PutIdleReturns ==
    ASSUME TypeOK, Ownership, NEW n \in Calls, PutIdle(n)
    PROVE  Pool!Return(n)
<1>1. conn[n] \in Conns /\ link[conn[n]] \in {"open", "gone"}
  BY DEF PutIdle, Holding, Ownership, OwnedAreAlive
<1>2. ToSet(pool') = ToSet(pool) \cup {conn[n]} /\ link' = link
  BY <1>1, AppendToPool DEF TypeOK, PutIdle, net
<1>3. Place'[conn[n]] = "idle" /\ \A j \in Conns \ {conn[n]} : Place'[j] = Place[j]
  BY <1>1, <1>2 DEF Place
<1>4. Pool!GiveUp(n, "idle")
  BY <1>3, PutGivesUp DEF PutIdle
<1> QED
  BY <1>4, IdleIsPooled DEF Pool!Return, PutIdle

\* Put on a full channel.
LEMMA PutSurplusDiscards ==
    ASSUME TypeOK, Ownership, PoolFits, NEW n \in Calls, PutSurplus(n)
    PROVE  Pool!Discard(n)
<1>1. conn[n] \in Conns
  BY DEF PutSurplus, Holding, Ownership, OwnedAreAlive
<1>2. /\ link'[conn[n]] = "closed" /\ pool' = pool
      /\ \A j \in Conns \ {conn[n]} : link'[j] = link[j]
  BY <1>1 DEF TypeOK, PutSurplus
<1>3. Place'[conn[n]] = "finished" /\ \A j \in Conns \ {conn[n]} : Place'[j] = Place[j]
  BY <1>1, <1>2 DEF Place
<1>4. Pool!GiveUp(n, "finished")
  BY <1>3, PutGivesUp DEF PutSurplus
<1>5. Len(pool) = MaxIdle
  BY MaxIdleNat DEF PutSurplus, PoolFits, TypeOK
<1> QED
  BY <1>4, <1>5, IdleIsPooled DEF Pool!Discard

\* ConnPool.Close takes what is idle, and nothing that is lent.
LEMMA DrainOneRetires ==
    ASSUME TypeOK, Ownership, DrainOne
    PROVE  Pool!Retire
<1> DEFINE h == Head(pool)
<1>1. h \in Conns /\ h \in ToSet(pool) /\ ToSet(pool') = ToSet(pool) \ {h}
  BY TailOfPool DEF TypeOK, Ownership, ExclusiveUse, DrainOne
<1>2. /\ link'[h] = "closed" /\ \A j \in Conns \ {h} : link'[j] = link[j]
      /\ owner = "closed" /\ UNCHANGED <<caller, conn, owner>>
  BY <1>1 DEF TypeOK, DrainOne
<1> HIDE DEF h
<1>3. Place'[h] = "finished" /\ \A j \in Conns \ {h} : Place'[j] = Place[j]
  BY <1>1, <1>2 DEF Place
<1>4. Place' = [Place EXCEPT ![h] = "finished"]
  BY <1>1, <1>3, OtherPlaces
<1>5. Phase' = Phase /\ Held' = Held /\ Stage' = Stage /\ Stage = "closed"
  BY <1>2 DEF Phase, Held, Holding, Stage
<1> QED
  BY <1>1, <1>4, <1>5, IdleIsPooled DEF Pool!Retire

\* Every step of the calls, the workers, the server and the client is a step of
\* the pool or invisible: deadlines and late workers move no connection.
LEMMA PoolPromiseStep ==
    ASSUME TypeOK, Ownership, PoolFits, [Next]_vars
    PROVE  [Pool!Next]_(Pool!vars)
<1>1. ASSUME NEW n \in Calls, Enter(n) \/ Rejected(n) \/ Finish(n) \/ Timeout(n)
      PROVE  UNCHANGED Pool!vars
  BY <1>1, PoolFrame DEF Enter, Rejected, Finish, Timeout, Returns, net, Holding, Stage, TypeOK
<1>2. ASSUME NEW n \in Calls, PutPanics(n)
      PROVE  UNCHANGED Pool!vars
  BY <1>2, PoolFrame DEF PutPanics, net, Holding, Stage
<1>3. ASSUME UNCHANGED <<caller, conn, link, pool, owner>>
      PROVE  UNCHANGED Pool!vars
  BY <1>3, PoolFrame DEF Holding, Stage
<1>4. ASSUME NEW k \in Conns, Drop(k)
      PROVE  UNCHANGED Pool!vars
  BY <1>4, PoolFrame DEF Drop, Holding, Stage, TypeOK
<1>5. CASE CloseClient
  <2>1. Pool!BeginClose
    BY <1>5 DEF CloseClient, net, Pool!BeginClose, Stage, Place, Phase, Held, Holding
  <2> QED
    BY <2>1 DEF Pool!Next
<1>6. CASE ClosePool \/ DrainOne
  <2>1. CASE ClosePool
    <3>1. Pool!Close
      BY <2>1 DEF ClosePool, net, Pool!Close, Stage, Place, Phase, Held, Holding
    <3> QED
      BY <3>1 DEF Pool!Next
  <2> QED
    BY <1>6, <2>1, DrainOneRetires DEF Pool!Next
<1>7. ASSUME NEW n \in Calls, GetIdle(n) \/ GetNew(n) \/ GetFails(n)
      PROVE  Pool!Next
  BY <1>7, GetIdleBorrows, GetNewDials, ErrorGoesWithout DEF Pool!Next
<1>8. ASSUME NEW n \in Calls, PutIdle(n) \/ PutSurplus(n)
      PROVE  Pool!Next
  BY <1>8, PutIdleReturns, PutSurplusDiscards DEF Pool!Next
<1>9. ASSUME NEW n \in Calls, WorkerStep(n)
      PROVE  UNCHANGED <<caller, conn, link, pool, owner>>
  BY <1>9 DEF WorkerStep, EncodeFails, Write, WriteFails, Read, ReadFails, ReadGarbage, net
<1>10. Collision \/ (\E k \in Conns : Serve(k)) => UNCHANGED <<caller, conn, link, pool, owner>>
  BY DEF Collision, WritesCollide, ReadsCollide, Serve
<1> QED
  BY <1>1, <1>2, <1>3, <1>4, <1>5, <1>6, <1>7, <1>8, <1>9, <1>10
     DEF Next, CallerStep, ServerStep, vars

\* However deadlines, late workers, errors, the server and closing interleave,
\* the calls share the connections under the discipline of PoolPromise.
THEOREM KeepsPoolPromiseHolds == Spec => KeepsPoolPromise
<1>1. Init => Pool!Init
  <2> SUFFICES ASSUME Init PROVE Pool!Init
    OBVIOUS
  <2>1. /\ Place = [k \in Conns |-> "undialled"]
        /\ Phase = [n \in Calls |-> "before"]
        /\ Held = [n \in Calls |-> None]
        /\ Stage = "open"
    BY DEF Init, Place, Phase, Held, Holding, Stage
  <2> QED
    BY <2>1 DEF Pool!Init
<1>2. Init => PoolFits
  BY MaxIdleNat DEF Init, PoolFits
<1>3. TypeOK /\ Ownership /\ PoolFits /\ [Next]_vars => PoolFits'
  BY PoolFitsStep
<1>4. TypeOK /\ Ownership /\ PoolFits /\ [Next]_vars => [Pool!Next]_(Pool!vars)
  BY PoolPromiseStep
<1> QED
  BY <1>1, <1>2, <1>3, <1>4, OwnershipHolds, PTL DEF Spec, KeepsPoolPromise, Pool!Spec
=============================================================================
