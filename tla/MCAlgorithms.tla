---------------------------- MODULE MCAlgorithms ----------------------------
(***************************************************************************)
(* The pure parts of the library on small inputs: a behaviour draws one    *)
(* sample, and an invariant per algorithm says what must hold of it.       *)
(***************************************************************************)
EXTENDS Selection, Delays, Monitors, Wire, BreakerBackoff

VARIABLE sample

Of(kind) == sample # <<>> /\ sample[1] = kind

-----------------------------------------------------------------------------
\* Instances, in the order of their latency but for the last two.
Instances == <<
    [id |-> 1, version |-> "v1", enabled |-> FALSE, latency |-> 1,
     meta |-> [group |-> "a", weight |-> "5"]],
    [id |-> 2, version |-> "v2", enabled |-> TRUE, latency |-> 2,
     meta |-> [group |-> "b", weight |-> "2"]],
    [id |-> 3, version |-> "v1", enabled |-> FALSE, latency |-> 3,
     meta |-> [group |-> "a", weight |-> "many"]],
    [id |-> 4, version |-> "v1", enabled |-> TRUE, latency |-> 3,
     meta |-> [group |-> "c", weight |-> "7"]],
    [id |-> 5, version |-> "v2", enabled |-> TRUE, latency |-> 2,
     meta |-> [weight |-> "7"]] >>

Lists == {Keep(Instances, {i \in ToSet(Instances) : i.id \in s}) : s \in SUBSET (1..5)}
           \union {Reverse(Instances), Tail(Reverse(Instances))}

\* nil is no instance.
ASSUME NoneIsNoInstance == None \notin ToSet(Instances)

Weights == [n \in {"2", "5", "7"} |-> CASE n = "2" -> 2 [] n = "5" -> 5 [] n = "7" -> 7]

PrefixesHere == {<<"a", "a">>}

Matchers ==
    {None} \union
    {[type |-> t, key |-> "group", value |-> v, labels |-> [group |-> "a", weight |-> "5"]] :
        t \in {"exact", "prefix", "regex", "label", "glob"}, v \in {"a", "bad"}}

Routers == {[kind |-> "default"], [kind |-> "version", version |-> "v1"],
            [kind |-> "tag", key |-> "group", value |-> "a"],
            [kind |-> "weight", key |-> "weight", min |-> 3]}

RouteSamples ==
    {<<"route", routers, config, update, wanted, list>> :
        routers \in SeqOf(Routers, 2),
        config \in {c \in Matchers : CreateMatcher(c) # None}, update \in Matchers,
        wanted \in {None, "canary", "other"}, list \in {l \in Lists : Len(l) \in {2, 5}}}

Selectors == {[kind |-> "base", name |-> "base"],
              [kind |-> "group", name |-> "group", key |-> "group", group |-> "a"],
              [kind |-> "custom", name |-> "fast", accepts |-> {Instances[2], Instances[5]}],
              [kind |-> "custom", name |-> "failing", accepts |-> {}]}

ABSamples ==
    {<<"ab", [kind |-> "ab", name |-> "ab", a |-> "a", b |-> b, percent |-> p],
       selectors, target, forced, list>> :
        b \in {"a", "b", NoName}, p \in {0, 50, 51, 100}, selectors \in SeqOf(Selectors, 2),
        target \in {None, "c"}, forced \in {None, "a", "c", "d", NoName}, list \in Lists}

FastestSamples == {<<"fastest", list, r>> : list \in {l \in Lists : Len(l) <= 4}, r \in 0..4}

-----------------------------------------------------------------------------
\* Options with values that are taken and values that are not; the longest
\* interval does not fit a Duration when it is scaled.
Options ==
    {[maxRetries |-> n] : n \in {-1, 0, 5}} \union
    {[interval |-> d] : d \in {0, 12000, 200000}} \union
    {[backoff |-> [num |-> k[1], den |-> k[2]], maxDelay |-> d] :
        k \in {<<1, 2>>, <<1, 1>>, <<3, 2>>}, d \in {0, 500, 900000}} \union
    {[jitter |-> 120], [jitter |-> 0], [errors |-> {}],
     [halfOpenCalls |-> 0, halfOpenRate |-> 120],
     [failureThreshold |-> 0, successThreshold |-> 1]} \union
    {[retryStrategy |-> s] : s \in {"simple", "exponential", "fixed"}}

WaitSamples ==
    {<<"wait", options, outer, errs>> :
        options \in SeqOf(Options, 2), outer \in {NoOuter, 0, 2, 4},
        errs \in SeqOf({"timeout", "refused", NoError}, 3)}
DelaySamples == {<<"delay", n>> : n \in 0..20}

RateSamples ==
    {<<"rate", size, [n \in DOMAIN r |-> [ok |-> r[n], duration |-> 1]]>> :
        size \in {0, 6, 10}, r \in SeqOf(BOOLEAN, 11)}

AverageSamples ==
    {<<"average", n, r>> : n \in {0, 1, 3},
        r \in SeqOf([ok : {TRUE}, duration : {0, 3, 20}] \union [ok : {FALSE}, duration : {5}], 5)}

-----------------------------------------------------------------------------
Echo == [exported |-> TRUE, ins |-> <<"pointer", "context", "pointer">>,
         outs |-> <<"pointer", "error">>, arg |-> <<1>>, result |-> <<1, 2>>,
         encodes |-> TRUE, panics |-> FALSE]
Types == {
    [kind |-> "pointer", name |-> "s", methods |-> [get |-> Echo]],
    [kind |-> "pointer", name |-> "s",
     methods |-> [get |-> [Echo EXCEPT !.encodes = FALSE], set |-> [Echo EXCEPT !.result = Nil],
                  put |-> [Echo EXCEPT !.ins = <<"pointer", "pointer">>]]],
    [kind |-> "struct", name |-> "s", methods |-> [get |-> Echo]],
    [kind |-> "pointer", name |-> "t", methods |-> [get |-> [Echo EXCEPT !.exported = FALSE]]],
    [kind |-> "pointer", name |-> "t", methods |-> [get |-> [Echo EXCEPT !.panics = TRUE]]]}

RequestWith(meta, serial, arg) ==
    [type |-> "request", serial |-> serial, payload |-> arg, id |-> 0, meta |-> meta]
Request(serial, service, method, arg) ==
    RequestWith([service |-> service, method |-> method], serial, arg)
Requests == {Request("json", "s", "get", <<1>>), Request("json", "s", "set", <<1>>),
             Request("json", "t", "get", <<1>>), Request("json", "s", "get", <<>>),
             Request("protobuf", "s", "get", <<1>>), RequestWith(Nil, "json", <<1>>)}

WireSamples ==
    {<<"wire", types, [n \in DOMAIN r |-> [r[n] EXCEPT !.id = n]], cut>> :
        types \in SeqOf(Types, 2), r \in SeqOf(Requests, 3), cut \in 0..12}

-----------------------------------------------------------------------------
NoSample == sample = <<>>

Draw(samples) == sample = <<>> /\ sample' \in samples

DrawSample ==
    \/ Draw(RouteSamples)
    \/ Draw(ABSamples)
    \/ Draw(FastestSamples)
    \/ Draw(WaitSamples)
    \/ Draw(DelaySamples)
    \/ Draw(RateSamples)
    \/ Draw(AverageSamples)
    \/ Draw(WireSamples)

Samples == NoSample /\ [][DrawSample]_sample

\* BreakerBackoff, a sequential part too, runs in the behaviours that draw no
\* sample.
PureInit == sample = <<>> /\ Init

PureParts ==
    /\ PureInit
    /\ [][ \/ Init /\ DrawSample /\ UNCHANGED vars
           \/ sample = <<>> /\ Next /\ UNCHANGED sample ]_<<sample, vars>>

\* A chain of routers is a filter, and a group answers for its last good
\* configuration (router.go:79-96, group.go:173-196).
Routes == Of("route") => RoutesAreFilters(sample[2], sample[3], sample[4], sample[5], sample[6])

\* An A/B selector serves one group, and serves if it can (selector/group.go:91-127).
ABTests == Of("ab") => ABServes(sample[2], sample[3], sample[4], sample[5], sample[6])

\* The fastest enabled instance is chosen (fastest.go:59-83).
FastestChosen == Of("fastest") => FastestIsBest(sample[2], sample[3])

\* Retries end, and their waits stay in their bounds, for every configuration the
\* options can make (retry.go:16-254, config.go:80-248); the delay between attempts
\* to recover grows to its limit (recovery.go:245-261).
Waits ==
    /\ Of("wait") =>
          LET config == NewConfig(sample[2])
          IN  Sound(config) /\ WaitsBounded(ContextBased(NewRetryPolicy(config), sample[3]), sample[4])
    /\ Of("delay") => RecoveryDelayGrows(sample[2])

\* The error counters agree with their window (detector.go:162-207).
Rates == Of("rate") => RateIsOfWindow(sample[2], sample[3])

\* Averages computed in place stay among their samples (metrics.go:26-52).
Averages == Of("average") => AveragesWithinSamples(sample[2], sample[3])

\* Answers belong to their requests, wherever the connection breaks (protocol.go,
\* server.go:66-145).
Answers == Of("wire") => AnswersMatch(sample[2], sample[3], sample[4])

=============================================================================
