-------------------------------- MODULE Wire --------------------------------
(***************************************************************************)
(* What goes over one connection: protocol/protocol.go and the codecs      *)
(* below it, the server's handling of a request (rpc/server.go) and what   *)
(* the client makes of the answer (rpc/client.go), for a connection that   *)
(* one call at a time uses.  Operators only; PooledCalls has the calls     *)
(* that share connections.                                                 *)
(*                                                                         *)
(* A message is [type, serial, id, meta, payload].  meta is Nil,           *)
(* [service, method] or [error]; the payload is a sequence of values.  A   *)
(* stream is a sequence of parts: the fixed 14 bytes, the two sizes, the   *)
(* metadata and the values of the payload.                                 *)
(***************************************************************************)
EXTENDS Integers, Sequences

CONSTANT Nil

\* What the error of an answer can be about.
Reasons == {"service", "method", "serializer", "decode", "execution", "encode"}

\* nil is no metadata.
ASSUME NilIsNoError == Nil \notin [error : Reasons]

-----------------------------------------------------------------------------
(***************************************************************************)
(* EncodeMessage and DecodeMessage                                         *)
(***************************************************************************)
\* The codecs by type.  Metadata is no proto.Message: that codec refuses it.
Codecs == {"json", "protobuf"}
CanCode(serial, meta) == meta = Nil \/ serial = "json"

Fixed(m) == [part |-> "fixed", type |-> m.type, serial |-> m.serial, id |-> m.id]
Sizes(meta, payload) == [part |-> "sizes", meta |-> meta, payload |-> payload]
Body(m) == (IF m.meta = Nil THEN <<>> ELSE << [part |-> "meta", meta |-> m.meta] >>)
             \o [n \in DOMAIN m.payload |-> [part |-> "payload", value |-> m.payload[n]]]

\* The fixed part is written before the metadata is known to be encodable.
EncodeMessage(m) ==
    IF ~CanCode(m.serial, m.meta) THEN << Fixed(m) >>
    ELSE << Fixed(m), Sizes(IF m.meta = Nil THEN 0 ELSE 1, Len(m.payload)) >> \o Body(m)

Failed == [ok |-> FALSE]

\* The message that starts at n, or Failed: for want of the rest, for the magic
\* number, which only the fixed part has, for sizes that are no sizes, or for the
\* metadata.
DecodeMessage(stream, n) ==
    LET there(k) == k <= Len(stream)
    IN  IF ~there(n + 1) \/ stream[n].part # "fixed" \/ stream[n + 1].part # "sizes" THEN Failed
        ELSE LET s == stream[n + 1]
                 body == n + 1 + s.meta
                 meta == stream[n + 2]
             IN  IF ~there(body + s.payload) THEN Failed
                 ELSE IF s.meta # 0 /\ (meta.part # "meta" \/ ~CanCode(stream[n].serial, meta.meta))
                 THEN Failed
                 ELSE [ok |-> TRUE, next |-> body + s.payload + 1,
                       message |-> [type |-> stream[n].type, serial |-> stream[n].serial,
                                    id |-> stream[n].id,
                                    meta |-> IF s.meta = 0 THEN Nil ELSE meta.meta,
                                    payload |-> [k \in 1..s.payload |-> stream[body + k].value]]]

\* Where the n-th call of Read leaves the stream, and what has been read by then;
\* after an error the loops that call it read no more.
ReadAll(stream) ==
    LET after[n \in 0..Len(stream)] ==
            IF n = 0 THEN [next |-> 1, messages |-> <<>>]
            ELSE LET before == after[n - 1]
                     d == DecodeMessage(stream, before.next)
                 IN  IF d.ok THEN [next |-> d.next, messages |-> Append(before.messages, d.message)]
                     ELSE before
    IN  after[Len(stream)].messages

WriteAll(messages) ==
    LET after[n \in 0..Len(messages)] ==
            IF n = 0 THEN <<>> ELSE after[n - 1] \o EncodeMessage(messages[n])
    IN  after[Len(messages)]

-----------------------------------------------------------------------------
(***************************************************************************)
(* Services.  A registration is [kind, name, impl, methods]: the type's    *)
(* name, without the suffix Impl if it has one, and what its methods do.   *)
(* A method is [exported, ins, outs, arg, result, encodes, panics]: its    *)
(* signature (the receiver is ins[1]), the payload it can read, and its    *)
(* response or Nil for an error; whether the response can be encoded (nil  *)
(* can), and whether the method panics instead.                            *)
(***************************************************************************)
ValidateMethod(method) ==
    /\ method.exported
    /\ Len(method.ins) = 3 /\ method.ins[2] = "context" /\ method.ins[3] = "pointer"
    /\ method.outs = <<"pointer", "error">>

GetServiceMethods(methods) == {n \in DOMAIN methods : ValidateMethod(methods[n])}

RegisterService(services, r) ==
    IF r.kind # "pointer" \/ GetServiceMethods(r.methods) = {} THEN services
    ELSE [n \in DOMAIN services \union {r.name} |->
             IF n = r.name THEN [m \in GetServiceMethods(r.methods) |-> r.methods[m]]
             ELSE services[n]]

NoServices == [n \in {} |-> <<>>]

Registered(registrations) ==
    LET after[n \in 0..Len(registrations)] ==
            IF n = 0 THEN NoServices ELSE RegisterService(after[n - 1], registrations[n])
    IN  after[Len(registrations)]

\* Mutant: the error does not say which request it answers.
SendErrorUnnumbered(m, why) ==
    [type |-> "response", serial |-> "json", id |-> 0, meta |-> [error |-> why], payload |-> <<>>]

SendError(m, why) ==
    [type |-> "response", serial |-> "json", id |-> m.id, meta |-> [error |-> why], payload |-> <<>>]

SendResponse(m, payload) ==
    [type |-> "response", serial |-> m.serial, id |-> m.id, meta |-> Nil, payload |-> payload]

InvokeMethod(method) == method.result

\* What handleConnection answers to a request.
Answer(services, m) ==
    IF m.meta.service \notin DOMAIN services THEN SendError(m, "service")
    ELSE IF m.meta.method \notin DOMAIN services[m.meta.service] THEN SendError(m, "method")
    ELSE IF m.serial \notin Codecs THEN SendError(m, "serializer")
    ELSE LET method == services[m.meta.service][m.meta.method]
         IN  IF m.serial # "json" \/ m.payload # method.arg THEN SendError(m, "decode")
             ELSE IF InvokeMethod(method) = Nil THEN SendError(m, "execution")
             ELSE IF ~method.encodes THEN SendError(m, "encode")
             ELSE SendResponse(m, InvokeMethod(method))

\* Nothing recovers: the server ends with a method that panics, and with a request
\* that has no metadata, which Call's always have.
Panics(services, m) ==
    \/ m.meta = Nil
    \/ /\ m.meta.service \in DOMAIN services
       /\ m.meta.method \in DOMAIN services[m.meta.service]
       /\ LET method == services[m.meta.service][m.meta.method]
          IN  m.serial = "json" /\ m.payload = method.arg /\ method.panics

\* handleConnection on all it receives before the connection ends.
Serve(services, stream) ==
    LET requests == ReadAll(stream)
        calm == {n \in 0..Len(requests) : \A k \in 1..n : ~Panics(services, requests[k])}
        served == CHOOSE n \in calm : \A k \in calm : k <= n
    IN  WriteAll([n \in 1..served |-> Answer(services, requests[n])])

\* What Client.Call returns for a response.
Result(m) == IF m.meta # Nil THEN Nil ELSE m.payload

-----------------------------------------------------------------------------
(***************************************************************************)
(* The property                                                            *)
(***************************************************************************)
\* A request is executed by the last service registered under the name, and only
\* by a method of it that has the signature and can read the request.
Expected(registrations, m) ==
    LET named == {n \in DOMAIN registrations :
                    /\ registrations[n].kind = "pointer" /\ registrations[n].name = m.meta.service
                    /\ \E k \in DOMAIN registrations[n].methods : ValidateMethod(registrations[n].methods[k])}
        methods == registrations[CHOOSE n \in named : \A k \in named : k <= n].methods
    IN  IF named = {} \/ m.meta.method \notin DOMAIN methods THEN Nil
        ELSE LET method == methods[m.meta.method]
             IN  IF ValidateMethod(method) /\ method.arg = m.payload /\ method.encodes
                 THEN method.result ELSE Nil

\* protocol.go:20-149, server.go:66-145 and client.go:86-98: the n-th answer on a
\* connection is the answer to the n-th request, with its number, and it is the
\* result of the method asked for or an error; this holds wherever the connection
\* breaks, in the middle of a message too, and all requests that went through
\* before the first one that could not be encoded, or ended the server, are answered.
AnswersMatch(registrations, requests, cut) ==
    LET services == Registered(registrations)
        stream == WriteAll(requests)
        received == IF cut < Len(stream) THEN SubSeq(stream, 1, cut) ELSE stream
        answers == ReadAll(Serve(services, received))
        whole == {n \in 0..Len(requests) :
                    /\ \A k \in 1..n : /\ CanCode(requests[k].serial, requests[k].meta)
                                      /\ ~Panics(services, requests[k])
                    /\ Len(WriteAll(SubSeq(requests, 1, n))) <= cut}
    IN  /\ Len(answers) \in whole /\ \A n \in whole : n <= Len(answers)
        /\ \A n \in DOMAIN answers :
              /\ answers[n].id = requests[n].id
              /\ Result(answers[n]) = Expected(registrations, requests[n])

=============================================================================
