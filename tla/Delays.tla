------------------------------- MODULE Delays -------------------------------
(***************************************************************************)
(* How often and after how long something is tried again: the options of   *)
(* src/cluster/failover/config.go, the retry policies of retry.go made     *)
(* from them, and the delay of the gradual recovery strategy of            *)
(* recovery.go.  Operators only.                                           *)
(*                                                                         *)
(* Durations are in milliseconds, with the values -HalfRange..HalfRange-1; *)
(* factors are fractions [num, den], rates and jitter are in percent.      *)
(***************************************************************************)
EXTENDS Integers, Sequences

CONSTANT HalfRange

ASSUME HalfRangeAssumption == HalfRange \in Nat \ {0}

(***************************************************************************)
(* Config: the fields that decide something, and their options.  An option *)
(* is a function from the fields it is for to the values it is given.      *)
(***************************************************************************)
DefaultConfig ==
    [maxRetries |-> 3, interval |-> 100, maxDelay |-> 30000,
     backoff |-> [num |-> 2, den |-> 1], jitter |-> 20,
     errors |-> {"timeout", "connection_refused", "service_unavailable"},
     retryStrategy |-> "jittered",
     breakThreshold |-> 5, breakTimeout |-> 30000, halfOpenCalls |-> 3, halfOpenRate |-> 50,
     failureThreshold |-> 3, successThreshold |-> 2,
     recoveryThreshold |-> 2, recoveryStrategy |-> "gradual", failoverStrategy |-> "next"]

ValidStrategies ==
    [retryStrategy |-> {"simple", "exponential", "jittered"},
     recoveryStrategy |-> {"immediate", "gradual", "probing"},
     failoverStrategy |-> {"next", "random", "best"}]

\* Whether the option takes the value; otherwise the field keeps the one it has.
Accepted(field, v) ==
    CASE field = "errors" -> TRUE
      [] field = "maxRetries" -> v >= 0
      [] field = "backoff" -> v.num >= v.den
      [] field = "jitter" -> v \in 0..100
      [] field = "halfOpenRate" -> v \in 1..100
      [] field \in DOMAIN ValidStrategies -> v \in ValidStrategies[field]
      [] OTHER -> v > 0

Apply(config, option) ==
    [f \in DOMAIN config |->
        IF f \in DOMAIN option /\ Accepted(f, option[f]) THEN option[f] ELSE config[f]]

NewConfig(options) ==
    LET c[n \in 0..Len(options)] ==
            IF n = 0 THEN DefaultConfig ELSE Apply(c[n - 1], options[n])
    IN  c[Len(options)]

-----------------------------------------------------------------------------
(***************************************************************************)
(* Policies.  outer is the maxAttempts of a ContextBasedRetryPolicy around *)
(* the strategy, or NoOuter.                                               *)
(***************************************************************************)
NoError == "none"
NoOuter == -1

NewRetryPolicy(c) ==
    [strategy |-> c.retryStrategy, max |-> c.maxRetries, interval |-> c.interval,
     cap |-> c.maxDelay, num |-> c.backoff.num, den |-> c.backoff.den,
     jitter |-> c.jitter, errors |-> c.errors, outer |-> NoOuter]

ContextBased(p, attempts) == [p EXCEPT !.outer = attempts]

MaxAttempts(p) == IF p.outer = NoOuter THEN p.max ELSE p.outer

\* Whether the strategy's list accepts the error: the simple one never looks at it.
Retryable(p, err) == p.strategy = "simple" \/ p.errors = {} \/ err \in p.errors

ShouldRetry(p, cancelled, attempt, err) ==
    /\ err # NoError
    /\ attempt < p.max
    /\ Retryable(p, err)
    /\ p.outer # NoOuter => attempt < p.outer /\ ~cancelled

-----------------------------------------------------------------------------
\* math.Pow, and the conversion of a float64 to a Duration: it drops the fraction,
\* and on amd64 makes the least Duration of what is too large.
Power(b, n) == LET power[k \in 0..n] == IF k = 0 THEN 1 ELSE b * power[k - 1] IN power[n]

Growth(p, attempt) == Power(p.num, attempt) \div Power(p.den, attempt)

Pow(p, attempt) == IF Growth(p, attempt) < HalfRange THEN Growth(p, attempt) ELSE -HalfRange

Wrap(d) == ((d + HalfRange) % (2 * HalfRange)) - HalfRange

\* Mutant: without the limit.
ScaledUncapped(p, attempt) == Wrap(p.interval * Pow(p, attempt))

Scaled(p, attempt) ==
    LET d == Wrap(p.interval * Pow(p, attempt))
    IN  IF d > p.cap THEN p.cap ELSE d

\* time.Duration(float64(base) * (1 + jitter)) for percent = 100 * (1 + jitter).
Percent(base, percent) ==
    LET scaled == (IF base >= 0 THEN base ELSE -base) * percent
    IN  IF base >= 0 THEN scaled \div 100 ELSE -(scaled \div 100)

\* The values NextBackoff may return.
NextBackoff(p, attempt) ==
    CASE p.strategy = "simple" -> {p.interval}
      [] p.strategy = "exponential" -> {Scaled(p, attempt)}
      [] p.strategy = "jittered" ->
             {Percent(Scaled(p, attempt), 100 + j) : j \in -p.jitter..p.jitter}

\* How many retries Execute makes when attempt n - 1 ended with errs[n].
Retries(p, errs) ==
    CHOOSE n \in 0..Len(errs) :
        /\ \A a \in 1..n : a <= MaxAttempts(p) /\ ShouldRetry(p, FALSE, a, errs[a])
        /\ \/ n = Len(errs)
           \/ n + 1 > MaxAttempts(p)
           \/ ~ShouldRetry(p, FALSE, n + 1, errs[n + 1])

-----------------------------------------------------------------------------
BaseDelay == 1000
MaxDelay == 300000

\* RecoveryDelay, in milliseconds; the loop leaves when it reaches the limit.
RecoveryDelay[attempts \in Nat] ==
    IF attempts = 0 THEN BaseDelay
    ELSE LET d == (RecoveryDelay[attempts - 1] * 3) \div 2
         IN  IF d > MaxDelay THEN MaxDelay ELSE d

-----------------------------------------------------------------------------
(***************************************************************************)
(* Properties                                                              *)
(***************************************************************************)
\* The product does not overflow a Duration.
ProductFits(p, attempt) ==
    /\ Growth(p, attempt) < HalfRange
    /\ p.interval * Pow(p, attempt) < HalfRange

\* config.go:80-248: the numbers the other modules assume of a configuration hold
\* for whatever options it was made with.
Sound(c) ==
    /\ {c.breakThreshold, c.halfOpenCalls, c.failureThreshold, c.successThreshold,
        c.recoveryThreshold, c.breakTimeout} \subseteq Nat \ {0}
    /\ c.halfOpenRate \in 1..100
    /\ \A f \in DOMAIN ValidStrategies : c[f] \in ValidStrategies[f]

\* retry.go:16-254: whatever the options, what wraps the policy and the errors, a
\* failed call is tried again fewer than max times; each wait lies between the interval and the
\* limit, give or take the jitter, and without jitter no wait is shorter than
\* the one before it: as long as the product fits a Duration.
WaitsBounded(p, errs) ==
    LET n == Retries(p, errs)
        low == IF p.strategy # "simple" /\ p.cap < p.interval THEN p.cap ELSE p.interval
        high == IF p.strategy = "simple" THEN p.interval ELSE p.cap
        jitter == IF p.strategy = "jittered" THEN p.jitter ELSE 0
    IN  /\ n = 0 \/ n < p.max
        /\ \A a \in 1..n : ProductFits(p, a) =>
              /\ \A w \in NextBackoff(p, a) :
                    Percent(low, 100 - jitter) <= w /\ w <= Percent(high, 100 + jitter)
              /\ jitter = 0 /\ a > 1 =>
                    \A v \in NextBackoff(p, a - 1), w \in NextBackoff(p, a) : v <= w

\* The delay between two attempts to recover grows from one second to five minutes.
RecoveryDelayGrows(attempts) ==
    /\ RecoveryDelay[attempts] \in BaseDelay..MaxDelay
    /\ RecoveryDelay[attempts] <= RecoveryDelay[attempts + 1]

=============================================================================
