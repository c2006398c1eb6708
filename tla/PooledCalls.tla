---------------------------- MODULE PooledCalls ----------------------------
(***************************************************************************)
(* Calls that share a pool of connections: ConnPool (rpc/pool.go), Client  *)
(* (rpc/client.go), Connection (rpc/connection.go) and the loop of the     *)
(* server's handleConnection (rpc/server.go), used the way rpc/proxy.go    *)
(* and api/client.go use them: Get, call, deferred Put.                    *)
(*                                                                         *)
(* A call has two goroutines.  The caller waits for the answer or for its  *)
(* deadline and then returns the connection to the pool; the worker writes *)
(* the request and reads the response.  CallWithTimeout does not stop the  *)
(* worker when the deadline passes, so a worker can outlive its caller and *)
(* go on using a connection that has a new owner.  simpleClient.Call of    *)
(* api/client.go derives a deadline and then makes a Client.Call, which    *)
(* knows of none: it is a call that waits for as long as its worker does.  *)
(*                                                                         *)
(* A message is known by the call whose message ID it carries: the server  *)
(* answers, with a result or through sendError, under the ID of the        *)
(* request.  EncodeMessage and DecodeMessage are many small writes and     *)
(* reads on the socket.  They run undisturbed unless two workers of one    *)
(* connection are at it together; what comes out then is Garbage.          *)
(***************************************************************************)
EXTENDS Integers, Sequences, FiniteSets, SequencesExt

CONSTANTS
    Calls,      \* calls made through the pool
    Timed,      \* those made with CallWithTimeout; the others are simpleClient's
    Conns,      \* connections that can be dialled
    None,       \* nil
    MaxIdle,    \* maxIdle, the capacity of p.conns
    Closes      \* TRUE: the client is closed at some time

ASSUME TimedCalls == Timed \subseteq Calls
ASSUME NoneIsNew == None \notin Calls \cup Conns
ASSUME MaxIdleNat == MaxIdle \in Nat
ASSUME Switches == Closes \in BOOLEAN

Garbage == "garbage"
Error == "error"

ASSUME ResultsDistinct == {Garbage, Error, None} \cap Calls = {}

VARIABLES
    caller,     \* "new", "get", "wait", "put", "done"; "rejected" before Get
    worker,     \* "none", "write", "read", "done"
    conn,       \* the *Client a call uses
    reply,      \* what the worker's Call returned
    result,     \* what the caller returns: a response, Error or Garbage
    link,       \* "unused", "open", "closed" (by us), "gone" (by the server)
    up,         \* requests on their way to the server
    down,       \* responses on their way back
    pool,       \* the buffered channel p.conns
    owner,      \* of the client: "open", "closing" (c.closed set), "closed"
                \*   (the channel is closed), "panic"
    late        \* history: a deadline passed with its worker still at work

vars == <<caller, worker, conn, reply, result, link, up, down, pool, owner, late>>

net == <<link, up, down>>

\* The caller still holds its connection: its deferred Put is to come.
Holding(n) == caller[n] \in {"wait", "put"}

\* The worker is using its connection.
Working(n) == worker[n] \in {"write", "read"}

Init ==
    /\ caller = [n \in Calls |-> "new"]
    /\ worker = [n \in Calls |-> "none"]
    /\ conn = [n \in Calls |-> None]
    /\ reply = [n \in Calls |-> None]
    /\ result = [n \in Calls |-> None]
    /\ link = [k \in Conns |-> "unused"]
    /\ up = [k \in Conns |-> <<>>]
    /\ down = [k \in Conns |-> <<>>]
    /\ pool = <<>>
    /\ owner = "open"
    /\ late = FALSE

-----------------------------------------------------------------------------
(***************************************************************************)
(* The caller                                                              *)
(***************************************************************************)
Returns(n, where, r) ==
    /\ caller' = [caller EXCEPT ![n] = where]
    /\ result' = [result EXCEPT ![n] = r]

\* A call comes to the pool.  simpleClient.Call looks at c.closed first, a
\* flag without a lock; the proxy's pool has none.
Enter(n) ==
    /\ caller[n] = "new"
    /\ n \in Timed \/ owner = "open"
    /\ caller' = [caller EXCEPT ![n] = "get"]
    /\ UNCHANGED <<worker, conn, reply, result, net, pool, owner, late>>

\* ErrClientClosed, or, for a nil request or response, ErrInvalidArgument.
Rejected(n) ==
    /\ caller[n] = "new"
    /\ n \notin Timed
    /\ Returns(n, "rejected", Error)
    /\ UNCHANGED <<worker, conn, reply, net, pool, owner, late>>

\* CallWithTimeout starts the worker on connection k and waits for it.
Launch(n, k) ==
    /\ conn' = [conn EXCEPT ![n] = k]
    /\ caller' = [caller EXCEPT ![n] = "wait"]
    /\ worker' = [worker EXCEPT ![n] = "write"]
    /\ UNCHANGED <<reply, result>>

\* ConnPool.Get takes the connection that has been idle longest ...
GetIdle(n) ==
    /\ caller[n] = "get"
    /\ pool # <<>>
    /\ pool' = Tail(pool)
    /\ Launch(n, Head(pool))
    /\ UNCHANGED <<net, owner, late>>

\* Mutant: dials although a connection is idle.
GetNewFirst(n) ==
    /\ caller[n] = "get"
    /\ \E k \in Conns :
          /\ link[k] = "unused"
          /\ link' = [link EXCEPT ![k] = "open"]
          /\ Launch(n, k)
    /\ UNCHANGED <<up, down, pool, owner, late>>

\* ... or, from an empty or a closed channel, dials a new one ...
GetNew(n) ==
    /\ caller[n] = "get"
    /\ pool = <<>>
    /\ \E k \in Conns :
          /\ link[k] = "unused"
          /\ link' = [link EXCEPT ![k] = "open"]
          /\ Launch(n, k)
    /\ UNCHANGED <<up, down, pool, owner, late>>

\* ... and returns the error of the dial, with nothing to Put back.
GetFails(n) ==
    /\ caller[n] = "get"
    /\ pool = <<>>
    /\ Returns(n, "done", Error)
    /\ UNCHANGED <<worker, conn, reply, net, pool, owner, late>>

\* Mutant: the caller does not wait for its worker.
FinishEarly(n) ==
    /\ caller[n] = "wait"
    /\ Returns(n, "put", reply[n])
    /\ UNCHANGED <<worker, conn, reply, net, pool, owner, late>>

\* case <-done
Finish(n) ==
    /\ caller[n] = "wait"
    /\ worker[n] = "done"
    /\ Returns(n, "put", reply[n])
    /\ UNCHANGED <<worker, conn, reply, net, pool, owner, late>>

\* Mutant: a timeout puts the connection back, and so does the defer.
TimeoutPuts(n) ==
    /\ caller[n] = "wait"
    /\ n \in Timed
    /\ Len(pool) < MaxIdle
    /\ pool' = Append(pool, conn[n])
    /\ late' = (late \/ Working(n))
    /\ Returns(n, "put", Error)
    /\ UNCHANGED <<worker, conn, reply, net, owner>>

\* case <-ctx.Done(): "request timeout"; the worker is not told.
Timeout(n) ==
    /\ caller[n] = "wait"
    /\ n \in Timed
    /\ late' = (late \/ Working(n))
    /\ Returns(n, "put", Error)
    /\ UNCHANGED <<worker, conn, reply, net, pool, owner>>

\* The deferred ConnPool.Put.
PutIdle(n) ==
    /\ caller[n] = "put"
    /\ owner \in {"open", "closing"}
    /\ Len(pool) < MaxIdle
    /\ pool' = Append(pool, conn[n])
    /\ caller' = [caller EXCEPT ![n] = "done"]
    /\ UNCHANGED <<worker, conn, reply, result, net, owner, late>>

\* The pool is full: client.Close().
PutSurplus(n) ==
    /\ caller[n] = "put"
    /\ owner \in {"open", "closing"}
    /\ Len(pool) >= MaxIdle
    /\ link' = [link EXCEPT ![conn[n]] = "closed"]
    /\ caller' = [caller EXCEPT ![n] = "done"]
    /\ UNCHANGED <<worker, conn, reply, result, up, down, pool, owner, late>>

\* The pool is closed: a send on a closed channel panics, in a select too.
PutPanics(n) ==
    /\ caller[n] = "put"
    /\ owner = "closed"
    /\ owner' = "panic"
    /\ UNCHANGED <<caller, worker, conn, reply, result, net, pool, late>>

-----------------------------------------------------------------------------
(***************************************************************************)
(* The worker: Client.Call                                                 *)
(***************************************************************************)
Replies(n, r) ==
    /\ reply' = [reply EXCEPT ![n] = r]
    /\ worker' = [worker EXCEPT ![n] = "done"]

\* "failed to marshal request": nothing is written.
EncodeFails(n) ==
    /\ worker[n] = "write"
    /\ Replies(n, Error)
    /\ UNCHANGED <<caller, conn, result, net, pool, owner, late>>

\* A request written to a connection the server has left goes nowhere.
Write(n) ==
    LET k == conn[n]
    IN  /\ worker[n] = "write"
        /\ link[k] \in {"open", "gone"}
        /\ up' = [up EXCEPT ![k] = IF link[k] = "open" THEN Append(@, n) ELSE @]
        /\ worker' = [worker EXCEPT ![n] = "read"]
        /\ UNCHANGED <<caller, conn, reply, result, link, down, pool, owner, late>>

\* "failed to send request"
WriteFails(n) ==
    /\ worker[n] = "write"
    /\ link[conn[n]] \in {"closed", "gone"}
    /\ Replies(n, Error)
    /\ UNCHANGED <<caller, conn, result, net, pool, owner, late>>

\* The response at the head of the stream, WHATEVER its message ID.
Read(n) ==
    LET k == conn[n]
    IN  /\ worker[n] = "read"
        /\ link[k] \in {"open", "gone"}
        /\ down[k] # <<>> /\ Head(down[k]) # Garbage
        /\ Replies(n, Head(down[k]))
        /\ down' = [down EXCEPT ![k] = Tail(@)]
        /\ UNCHANGED <<caller, conn, result, link, up, pool, owner, late>>

\* Mutant: the read is given up with a response still in the buffer.
ReadFailsAtOnce(n) ==
    /\ worker[n] = "read"
    /\ link[conn[n]] \in {"closed", "gone"}
    /\ Replies(n, Error)
    /\ UNCHANGED <<caller, conn, result, net, pool, owner, late>>

\* "failed to receive response": what had arrived is read before the error.
ReadFails(n) ==
    /\ worker[n] = "read"
    /\ \/ link[conn[n]] = "closed"
       \/ link[conn[n]] = "gone" /\ down[conn[n]] = <<>>
    /\ Replies(n, Error)
    /\ UNCHANGED <<caller, conn, result, net, pool, owner, late>>

\* Out of step with the stream: a wrong magic number, or bytes of the wrong
\* place taken for a response.  The stream is never in step again.
ReadGarbage(n) ==
    LET k == conn[n]
    IN  /\ worker[n] = "read"
        /\ link[k] \in {"open", "gone"}
        /\ down[k] # <<>> /\ Head(down[k]) = Garbage
        /\ \E r \in {Error, Garbage} : Replies(n, r)
        /\ UNCHANGED <<caller, conn, result, net, pool, owner, late>>

\* Two workers encode their requests into one connection at the same time.
WritesCollide(m, n) ==
    LET k == conn[n]
    IN  /\ m # n /\ conn[m] = k
        /\ worker[m] = "write" /\ worker[n] = "write"
        /\ link[k] = "open"
        /\ up' = [up EXCEPT ![k] = Append(@, Garbage)]
        /\ worker' = [worker EXCEPT ![m] = "read", ![n] = "read"]
        /\ UNCHANGED <<caller, conn, reply, result, link, down, pool, owner, late>>

\* Two workers decode from one connection at the same time.
ReadsCollide(m, n) ==
    LET k == conn[n]
    IN  /\ m # n /\ conn[m] = k
        /\ worker[m] = "read" /\ worker[n] = "read"
        /\ link[k] \in {"open", "gone"}
        /\ down[k] # <<>> /\ Head(down[k]) # Garbage
        /\ down' = [down EXCEPT ![k] = <<Garbage>>]
        /\ UNCHANGED <<caller, worker, conn, reply, result, link, up, pool, owner, late>>

-----------------------------------------------------------------------------
(***************************************************************************)
(* The server, and closing the client                                      *)
(***************************************************************************)
\* One turn of handleConnection's loop: a result or an error, in order.
Serve(k) ==
    /\ link[k] = "open"
    /\ up[k] # <<>> /\ Head(up[k]) # Garbage
    /\ up' = [up EXCEPT ![k] = Tail(@)]
    /\ down' = [down EXCEPT ![k] = IF @ # <<>> /\ Head(@) = Garbage
                                   THEN @ ELSE Append(@, Head(up[k]))]
    /\ UNCHANGED <<caller, worker, conn, reply, result, link, pool, owner, late>>

\* handleConnection returns and closes the connection: it could not read a
\* request (Garbage) or write a response, or the server went away.  Responses
\* that have not arrived are lost.
Drop(k) ==
    /\ link[k] = "open"
    /\ link' = [link EXCEPT ![k] = "gone"]
    /\ up' = [up EXCEPT ![k] = <<>>]
    /\ \E arrived \in 0..Len(down[k]) :
          down' = [down EXCEPT ![k] = SubSeq(@, 1, arrived)]
    /\ UNCHANGED <<caller, worker, conn, reply, result, pool, owner, late>>

\* simpleClient.Close: the flag ...
CloseClient ==
    /\ Closes
    /\ owner = "open"
    /\ owner' = "closing"
    /\ UNCHANGED <<caller, worker, conn, reply, result, net, pool, late>>

\* ... then ConnPool.Close, which closes the channel.  What is buffered in it can
\* still be received, by a Get as well as by the loop of Close ...
ClosePool ==
    /\ owner = "closing"
    /\ owner' = "closed"
    /\ UNCHANGED <<caller, worker, conn, reply, result, net, pool, late>>

\* ... that closes one connection after the other.
DrainOne ==
    /\ owner = "closed"
    /\ pool # <<>>
    /\ link' = [link EXCEPT ![Head(pool)] = "closed"]
    /\ pool' = Tail(pool)
    /\ UNCHANGED <<caller, worker, conn, reply, result, up, down, owner, late>>

-----------------------------------------------------------------------------
CallerStep(n) ==
    \/ Enter(n) \/ Rejected(n)
    \/ GetIdle(n) \/ GetNew(n) \/ GetFails(n)
    \/ Finish(n) \/ Timeout(n)
    \/ PutIdle(n) \/ PutSurplus(n) \/ PutPanics(n)

WorkerStep(n) ==
    \/ EncodeFails(n) \/ Write(n) \/ WriteFails(n)
    \/ Read(n) \/ ReadFails(n) \/ ReadGarbage(n)

Collision == \E m, n \in Calls : WritesCollide(m, n) \/ ReadsCollide(m, n)

ServerStep == \E k \in Conns : Serve(k) \/ Drop(k)

\* A panic ends the process.
Next ==
    /\ owner # "panic"
    /\ \/ \E n \in Calls : CallerStep(n) \/ WorkerStep(n)
       \/ Collision
       \/ ServerStep
       \/ CloseClient \/ ClosePool \/ DrainOne

Spec == Init /\ [][Next]_vars

-----------------------------------------------------------------------------
Results == Calls \cup {None, Error, Garbage}

TypeOK ==
    /\ caller \in [Calls -> {"new", "rejected", "get", "wait", "put", "done"}]
    /\ worker \in [Calls -> {"none", "write", "read", "done"}]
    /\ conn \in [Calls -> Conns \cup {None}]
    /\ reply \in [Calls -> Results]
    /\ result \in [Calls -> Results]
    /\ link \in [Conns -> {"unused", "open", "closed", "gone"}]
    /\ up \in [Conns -> Seq(Calls \cup {Garbage})]
    /\ down \in [Conns -> Seq(Calls \cup {Garbage})]
    /\ pool \in Seq(Conns)
    /\ owner \in {"open", "closing", "closed", "panic"}
    /\ late \in BOOLEAN

\* A connection has one owner at a time: no two calls hold the same one, one
\* in the pool is held by no call and is in the pool once.  It holds even
\* though a call that timed out leaves its worker on the connection it puts
\* back (Put, pool.go 37-49, under proxy.go's defer).
ExclusiveUse ==
    /\ IsInjective(pool)
    /\ \A n \in Calls : Holding(n) => conn[n] \notin ToSet(pool)
    /\ \A m, n \in Calls : Holding(m) /\ Holding(n) /\ conn[m] = conn[n] => m = n

\* No connection is lost: one that was dialled and not closed is in the pool
\* or will be put back by the call that holds it, on every path through
\* errors, deadlines and a full or closed pool.
NoConnectionLeak ==
    \A k \in Conns : link[k] \in {"open", "gone"} =>
        k \in ToSet(pool) \/ \E n \in Calls : Holding(n) /\ conn[n] = k

(***************************************************************************)
(* Who owns a connection, as one inductive invariant.                      *)
(***************************************************************************)
\* What a call holds, and what is pooled, has not been closed by this side.
OwnedAreAlive ==
    /\ \A n \in Calls : Holding(n) => /\ conn[n] \in Conns
                                      /\ link[conn[n]] \in {"open", "gone"}
    /\ \A k \in ToSet(pool) : link[k] \in {"open", "gone"}

\* A worker has a connection, and one that was dialled.
WorkersConnected ==
    \A n \in Calls : worker[n] # "none" => /\ conn[n] \in Conns
                                           /\ link[conn[n]] # "unused"

\* Inductive, with TypeOK, for every step: each connection that is dialled and
\* not closed has exactly one owner, the pool or the call that will Put it.
Ownership == ExclusiveUse /\ NoConnectionLeak /\ OwnedAreAlive /\ WorkersConnected

\* A connection in the pool is at rest: no goroutine writes to it or reads
\* from it and no request or response is under way.
IdleIsQuiet ==
    \A k \in ToSet(pool) :
        /\ up[k] = <<>> /\ down[k] = <<>>
        /\ \A n \in Calls : Working(n) => conn[n] # k

\* A call returns the response to its own request, an error, or nothing yet
\* ("uniquely identifies an RPC request, used to pair request and response",
\* protocol-intro.md:111).  client.go never compares the message ID.
Paired == \A n \in Calls : result[n] \in {n, Error, None}

(***************************************************************************)
(* Why calls are paired until one is late, as one inductive invariant.     *)
(***************************************************************************)
Quiet(k) == up[k] = <<>> /\ down[k] = <<>>

\* A worker does not outlive its caller's wait.
CallersWait == \A n \in Calls : Working(n) => caller[n] = "wait"

\* The only message on a connection in use is the exchange of its one call.
OwnExchange ==
    \A n \in Calls : Holding(n) =>
        LET k == conn[n]
        IN  \/ Quiet(k)
            \/ worker[n] = "read" /\ up[k] = <<n>> /\ down[k] = <<>>
            \/ worker[n] = "read" /\ up[k] = <<>> /\ down[k] = <<n>>

\* Nothing is on its way before the first dial, or to a server that left.
NothingStray ==
    \A k \in Conns :
        /\ link[k] = "unused" => Quiet(k)
        /\ link[k] = "gone" => up[k] = <<>>

RepliesPaired == \A n \in Calls : reply[n] \in {n, Error, None}

\* Inductive, with Ownership, until a call is late: the caller waits for its
\* worker, so a connection carries one exchange at a time and is at rest when
\* it changes hands.
Exchange == /\ CallersWait /\ OwnExchange /\ NothingStray
            /\ IdleIsQuiet /\ RepliesPaired /\ Paired

\* Until a deadline passes with its worker still at work (client.go 111-114), a
\* pooled connection is at rest and safe to hand to the next call, whatever
\* fails, however the server drops connections, and while the client is closed.
QuietInTime == ~late => IdleIsQuiet

\* Until then every call returns its own response or an error: a late call is
\* the only way to a response that belongs to another.
PairedInTime == ~late => Paired

(***************************************************************************)
(* The pool as the calls see it: who holds which connection.               *)
(***************************************************************************)
Place == [k \in Conns |->
    IF link[k] = "unused" THEN "undialled"
    ELSE IF link[k] = "closed" THEN "finished"
    ELSE IF k \in ToSet(pool) THEN "idle" ELSE "lent"]

Phase == [n \in Calls |->
    IF Holding(n) THEN "during" ELSE IF caller[n] = "done" THEN "after" ELSE "before"]

Held == [n \in Calls |-> IF Holding(n) THEN conn[n] ELSE None]

Stage == IF owner = "panic" THEN "closed" ELSE owner

Pool == INSTANCE PoolPromise
          WITH Calls <- Calls, Conns <- Conns, None <- None, MaxIdle <- MaxIdle,
               place <- Place, phase <- Phase, held <- Held, stage <- Stage

\* Get, Put and Close keep the discipline of a pool whatever the deadlines, the
\* workers left behind and the server do: a connection changes hands only by its
\* own call's Get and deferred Put (proxy.go, pool.go 25-60), none is dialled
\* while one is idle, closed while there is room, or used after it was closed.
KeepsPoolPromise == Pool!Spec
=============================================================================
