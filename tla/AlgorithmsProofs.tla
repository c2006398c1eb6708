-------------------------- MODULE AlgorithmsProofs --------------------------
(***************************************************************************)
(* Theorems about the pure parts of the library, for every input: the      *)
(* open periods of BreakerBackoff, and Delays, Monitors, Selection and     *)
(* Wire, whose properties MCAlgorithms evaluates on samples.               *)
(*                                                                         *)
(* Recursive definitions are reasoned about with induction over a set of   *)
(* numbers or of sequences.                                                *)
(***************************************************************************)
EXTENDS MCAlgorithms, BreakerBackoff, SequenceTheorems, WellFoundedInduction,
        FiniteSetTheorems, FunctionTheorems, TLAPS

-----------------------------------------------------------------------------
(***************************************************************************)
(* Induction, and division.                                                *)
(***************************************************************************)
\* The order of the naturals, as a relation.
Below == {pair \in Nat \X Nat : pair[1] < pair[2]}

\* It is well founded.
LEMMA BelowWellFounded == IsWellFoundedOn(Below, Nat)
BY NatLessThanWellFounded DEF OpToRel, Below

\* Induction over the naturals, for a set.
LEMMA Induction ==
    ASSUME NEW S, 0 \in S, \A n \in Nat : n \in S => n + 1 \in S
    PROVE  \A n \in Nat : n \in S
<1>1. SUFFICES ASSUME Nat \ S # {} PROVE FALSE
  OBVIOUS
<1>2. PICK x \in Nat \ S : \A y \in Nat \ S : ~(<<y, x>> \in Below)
  BY <1>1, BelowWellFounded, WFMin
<1>3. x # 0 /\ x - 1 \in Nat
  BY <1>2
<1>4. x - 1 \notin S
  BY <1>3, <1>2
<1>5. <<x - 1, x>> \in Below
  BY <1>3 DEF Below
<1> QED
  BY <1>2, <1>3, <1>4, <1>5

\* Induction up to a bound.
LEMMA BoundedInduction ==
    ASSUME NEW N \in Nat, NEW S, 0 \in S, \A n \in 1..N : n - 1 \in S => n \in S
    PROVE  \A n \in 0..N : n \in S
<1> DEFINE T == {n \in Nat : n <= N => n \in S}
<1>1. 0 \in T
  OBVIOUS
<1>2. ASSUME NEW n \in Nat, n \in T
      PROVE  n + 1 \in T
  <2>1. SUFFICES ASSUME n + 1 <= N PROVE n + 1 \in S
    OBVIOUS
  <2>2. n + 1 \in 1..N /\ (n + 1) - 1 = n /\ n \in S
    BY <1>2, <2>1
  <2> QED
    BY <2>2
<1>3. \A n \in Nat : n \in T
  <2> HIDE DEF T
  <2> QED
    BY <1>1, <1>2, Induction
<1> QED
  BY <1>3

\* Induction over the sequences on a set.
LEMMA SequenceInduction ==
    ASSUME NEW X, NEW S, <<>> \in S,
           \A s \in Seq(X), x \in X : s \in S => Append(s, x) \in S
    PROVE  \A s \in Seq(X) : s \in S
<1> DEFINE T == {n \in Nat : \A s \in Seq(X) : Len(s) = n => s \in S}
<1>1. 0 \in T
  BY EmptySeq
<1>2. ASSUME NEW n \in Nat, n \in T
      PROVE  n + 1 \in T
  <2>1. SUFFICES ASSUME NEW s \in Seq(X), Len(s) = n + 1
                 PROVE  s \in S
    OBVIOUS
  <2>2. PICK t \in Seq(X), x \in X : s = Append(t, x)
    <3>1. s # <<>>
      BY <2>1
    <3> QED
      BY <3>1, SequenceEmptyOrAppend
  <2>3. Len(t) = n
    <3>1. Len(s) = Len(t) + 1 /\ Len(t) \in Nat
      BY <2>2, AppendProperties
    <3> QED
      BY <3>1, <2>1
  <2> QED
    BY <1>2, <2>2, <2>3
<1>3. \A n \in Nat : n \in T
  <2> HIDE DEF T
  <2> QED
    BY <1>1, <1>2, Induction
<1> QED
  BY <1>3

\* The histories of a step F from x0 over N steps.
Histories(N, X, x0, F) ==
    {d \in [0..N -> X] : d[0] = x0 /\ \A n \in 1..N : d[n] = F[<<d[n - 1], n>>]}

\* A recursive definition over a step that stays in a set has a solution.
LEMMA HistoryExists ==
    ASSUME NEW N \in Nat, NEW X, NEW x0 \in X, NEW F \in [X \X (1..N) -> X]
    PROVE  Histories(N, X, x0, F) # {}
<1> DEFINE S == {k \in Nat : Histories(k, X, x0, F) # {}}
<1>1. 0 \in S
  <2>1. [n \in 0..0 |-> x0] \in Histories(0, X, x0, F)
    BY DEF Histories
  <2> QED
    BY <2>1
<1>2. ASSUME NEW k \in 1..N, k - 1 \in S
      PROVE  k \in S
  <2>1. PICK d : d \in Histories(k - 1, X, x0, F)
    BY <1>2
  <2>2. d \in [0..(k - 1) -> X] /\ d[0] = x0 /\ \A n \in 1..(k - 1) : d[n] = F[<<d[n - 1], n>>]
    BY <2>1 DEF Histories
  <2> DEFINE y == F[<<d[k - 1], k>>]
             e == [n \in 0..k |-> IF n < k THEN d[n] ELSE y]
  <2>3. y \in X
    BY <2>2
  <2> HIDE DEF y
  <2>4. e \in [0..k -> X]
    BY <2>2, <2>3
  <2>5. e[0] = x0
    BY <2>2
  <2>6. ASSUME NEW n \in 1..k
        PROVE  e[n] = F[<<e[n - 1], n>>]
    <3>1. CASE n = k
      <4>1. e[n] = y /\ e[n - 1] = d[k - 1]
        BY <3>1
      <4> QED
        BY <4>1, <3>1 DEF y
    <3>2. CASE n < k
      <4>1. n \in 1..(k - 1) /\ e[n] = d[n] /\ e[n - 1] = d[n - 1]
        BY <3>2
      <4> QED
        BY <4>1, <2>2
    <3> QED
      BY <3>1, <3>2
  <2>7. e \in Histories(k, X, x0, F)
    BY <2>4, <2>5, <2>6 DEF Histories
  <2> QED
    BY <2>7
<1>3. \A k \in 0..N : k \in S
  <2> HIDE DEF S
  <2> QED
    BY <1>1, <1>2, BoundedInduction
<1> QED
  BY <1>3

\* Truncating division: its two bounds.
LEMMA DivBounds ==
    ASSUME NEW a \in Nat, NEW n \in Nat \ {0}
    PROVE  /\ a \div n \in Nat
           /\ n * (a \div n) <= a
           /\ a < n * (a \div n) + n
OBVIOUS

-----------------------------------------------------------------------------
(***************************************************************************)
(* BreakerBackoff: how long a breaker stays open.                          *)
(***************************************************************************)
\* What the cap and the reset of the backoff keep true.
Backoff ==
    /\ Timeout \in Nat /\ factor \in Nat
    /\ period \in Int /\ period <= MaxTimeout
    /\ state = "Closed" => factor = Scale

\* The cap holds whatever the conversion to a Duration yields.
LEMMA CappedBounded ==
    ASSUME NEW f \in Nat, NEW d \in ToDuration(f)
    PROVE  Capped(d) \in Int /\ Capped(d) <= MaxTimeout
<1>1. Ticks(f) \in Int
  BY TimeoutFits, ScalePositive DEF Ticks
<1>2. d \in Int /\ MaxTimeout \in Int
  BY <1>1, TimeoutFits, BoundGiven DEF ToDuration, MaxTimeout
<1> QED
  BY <1>2 DEF Capped

\* backoffFactor 1.0 means one timeout, exactly.
LEMMA FactorOne == \A d \in ToDuration(Scale) : Capped(d) = Timeout
<1>1. Ticks(Scale) = Timeout
  BY TimeoutFits, ScalePositive DEF Ticks
<1>2. Timeout <= MaxTimeout /\ MaxTimeout <= MaxDuration /\ MaxTimeout \in Int
  BY TimeoutFits DEF MaxTimeout
<1> QED
  BY <1>1, <1>2, TimeoutFits, BoundGiven DEF ToDuration, Fits, Capped

\* Every step keeps it.
LEMMA BackoffStep ==
    ASSUME Backoff, [Next]_vars
    PROVE  Backoff'
<1>1. AtLeastOne(factor) \in Nat /\ AtLeastOne(factor) * 2 \in Nat
  BY ScalePositive DEF Backoff, AtLeastOne
<1>2. (factor * 3) \div 2 \in Nat
  BY DEF Backoff
<1>3. CASE FailureClosed
  BY <1>1, <1>3, CappedBounded DEF FailureClosed, OpenFor, Backoff
<1>4. CASE FailureHalfOpen
  BY <1>2, <1>4, CappedBounded DEF FailureHalfOpen, OpenFor, Backoff
<1>5. CASE SuccessClosed \/ SuccessHalfOpen \/ Allow \/ Tick \/ UNCHANGED vars
  BY <1>5, ScalePositive
     DEF SuccessClosed, SuccessHalfOpen, Allow, Due, Tick, vars, Backoff, MaxTimeout
<1> QED
  BY <1>3, <1>4, <1>5 DEF Next

\* The invariant holds from the start.
THEOREM BackoffHolds == Spec => []Backoff
<1>1. Init => Backoff
  BY TimeoutFits, ScalePositive DEF Init, Backoff, MaxTimeout
<1>2. Backoff /\ [Next]_vars => Backoff'
  BY BackoffStep
<1> QED
  BY <1>1, <1>2, PTL DEF Spec

\* However long an outage was, the next one starts with one timeout.
THEOREM OutageForgottenHolds == Spec => OutageForgotten
<1>1. ASSUME Backoff, [Next]_vars, state = "Closed", state' = "Open"
      PROVE  period' = Timeout
  <2>1. FailureClosed
    BY <1>1 DEF Next, FailureHalfOpen, SuccessClosed, SuccessHalfOpen, Allow, Due, Tick, vars
  <2>2. AtLeastOne(factor) = Scale
    BY <1>1, ScalePositive DEF Backoff, AtLeastOne
  <2>3. \E d \in ToDuration(Scale) : period' = Capped(d)
    BY <1>1, <2>1, <2>2 DEF FailureClosed, OpenFor
  <2> QED
    BY <2>3, FactorOne
<1>2. Backoff /\ [Next]_vars => [state = "Closed" /\ state' = "Open" => period' = Timeout]_vars
  BY <1>1
<1> QED
  BY <1>2, BackoffHolds, PTL DEF Spec, OutageForgotten

-----------------------------------------------------------------------------
(* Why the open periods grow: the factor runs ahead of the period.         *)

\* One more backoffFactor is at least one more timeout.
LEMMA TicksGrow ==
    ASSUME NEW f \in Nat, NEW g \in Nat, f >= g + Scale
    PROVE  Ticks(f) \in Nat /\ Ticks(g) \in Nat /\ Ticks(f) > Ticks(g)
<1> DEFINE a == Timeout * g
           b == Timeout * f
<1>1. a \in Nat /\ b \in Nat /\ Timeout * Scale \in Nat
  BY TimeoutFits, ScalePositive
<1>2. b >= Timeout * (g + Scale) /\ Timeout * (g + Scale) = a + Timeout * Scale
  BY TimeoutFits, ScalePositive
<1>3. Timeout * Scale >= Scale
  BY TimeoutFits, ScalePositive
<1>4. b >= a + Scale
  BY <1>1, <1>2, <1>3, ScalePositive
<1> HIDE DEF a, b
<1>5. /\ a \div Scale \in Nat /\ b \div Scale \in Nat
      /\ Scale * (a \div Scale) <= a
      /\ b < Scale * (b \div Scale) + Scale
  BY <1>1, ScalePositive, DivBounds
<1>6. Scale * (a \div Scale) < Scale * (b \div Scale)
  BY <1>1, <1>4, <1>5, ScalePositive
<1>7. b \div Scale > a \div Scale
  BY <1>5, <1>6, ScalePositive
<1> QED
  BY <1>5, <1>7 DEF a, b, Ticks

\* Half as much again is at least one more, from two on.
LEMMA RaisedByOne ==
    ASSUME NEW f \in Nat, f >= 2 * Scale
    PROVE  (f * 3) \div 2 \in Nat /\ (f * 3) \div 2 >= f + Scale
BY ScalePositive

\* While the breaker is not closed, its period is that of a factor at least
\* 1.0 below the one the next period will be computed from.
Ahead ==
    state # "Closed" =>
        /\ factor >= 2 * Scale
        /\ \E g \in Nat : /\ factor >= g + Scale
                          /\ \E d \in ToDuration(g) : period = Capped(d)

\* Opening doubles the factor, a relapse multiplies it by 1.5, and nothing else
\* touches it before the breaker is closed.
LEMMA AheadStep ==
    ASSUME Backoff, Ahead, [Next]_vars
    PROVE  Ahead'
<1>1. CASE FailureClosed /\ errors' >= Threshold
  <2>1. AtLeastOne(factor) = Scale
    BY <1>1, ScalePositive DEF FailureClosed, Backoff, AtLeastOne
  <2>2. factor' = Scale * 2 /\ \E d \in ToDuration(Scale) : period' = Capped(d)
    BY <1>1, <2>1 DEF FailureClosed, OpenFor
  <2>3. ToDuration(Scale)' = ToDuration(Scale) /\ \A d : Capped(d)' = Capped(d)
    BY DEF ToDuration, Fits, Ticks, Capped, MaxTimeout
  <2> QED
    BY <2>2, <2>3, ScalePositive DEF Ahead
<1>2. CASE FailureClosed /\ ~(errors' >= Threshold)
  BY <1>2 DEF FailureClosed, Ahead
<1>3. CASE FailureHalfOpen
  <2>1. factor \in Nat /\ factor >= 2 * Scale
    BY <1>3 DEF FailureHalfOpen, Backoff, Ahead
  <2>2. factor' \in Nat /\ factor' >= factor + Scale
    BY <1>3, <2>1, RaisedByOne DEF FailureHalfOpen
  <2>3. \E d \in ToDuration(factor) : period' = Capped(d)
    BY <1>3 DEF FailureHalfOpen, OpenFor
  <2>4. factor' >= 2 * Scale
    BY <2>1, <2>2, ScalePositive
  <2> QED
    BY <2>1, <2>2, <2>3, <2>4 DEF Ahead
<1>4. CASE SuccessClosed \/ SuccessHalfOpen
  BY <1>4 DEF SuccessClosed, SuccessHalfOpen, Ahead
<1>5. CASE Allow \/ Tick \/ UNCHANGED vars
  BY <1>5 DEF Allow, Due, Tick, vars, Ahead
<1> QED
  BY <1>1, <1>2, <1>3, <1>4, <1>5 DEF Next

\* The factor is ahead of the period in every reachable state.
THEOREM AheadHolds == Spec => []Ahead
<1>1. Init => Ahead
  BY DEF Init, Ahead
<1>2. Backoff /\ Ahead /\ [Next]_vars => Ahead'
  BY AheadStep
<1> QED
  BY <1>1, <1>2, BackoffHolds, PTL DEF Spec

\* Every relapse lengthens the open period up to its cap of ten timeouts, for
\* every timeout and every precision of the factor, until the product no longer
\* fits a Duration.
THEOREM PeriodsGrowWhileTheyFitHolds == Spec => PeriodsGrowWhileTheyFit
<1>1. ASSUME Backoff, Ahead, [Next]_vars, state = "HalfOpen", state' = "Open", Fits(factor)
      PROVE  period' > period \/ period' = MaxTimeout
  <2>1. FailureHalfOpen
    BY <1>1 DEF Next, FailureClosed, SuccessClosed, SuccessHalfOpen, Allow, Due, Tick, vars
  <2>2. factor \in Nat /\ period' = Capped(Ticks(factor))
    BY <1>1, <2>1 DEF FailureHalfOpen, OpenFor, ToDuration, Backoff
  <2>3. PICK g \in Nat : /\ factor >= g + Scale
                         /\ \E d \in ToDuration(g) : period = Capped(d)
    BY <1>1 DEF Ahead
  <2>4. Ticks(factor) \in Nat /\ Ticks(g) \in Nat /\ Ticks(factor) > Ticks(g)
    BY <2>2, <2>3, TicksGrow
  <2>5. period = Capped(Ticks(g))
    BY <1>1, <2>3, <2>4, BoundGiven DEF ToDuration, Fits
  <2> QED
    BY <2>2, <2>4, <2>5, TimeoutFits DEF Capped, MaxTimeout
<1>2. Backoff /\ Ahead /\ [Next]_vars
        => [state = "HalfOpen" /\ state' = "Open" /\ Fits(factor)
              => period' > period \/ period' = MaxTimeout]_vars
  BY <1>1
<1> QED
  BY <1>2, BackoffHolds, AheadHolds, PTL DEF Spec, PeriodsGrowWhileTheyFit

-----------------------------------------------------------------------------
(***************************************************************************)
(* Delays: options, waits and the delay between attempts to recover.       *)
(***************************************************************************)
\* The fields of a configuration.
Fields == DOMAIN DefaultConfig

\* Those that hold a number.
NumberFields == {"maxRetries", "interval", "maxDelay", "jitter", "breakThreshold", "breakTimeout",
                 "halfOpenCalls", "halfOpenRate", "failureThreshold", "successThreshold",
                 "recoveryThreshold"}
\* And those that name a strategy.
NameFields == {"retryStrategy", "recoveryStrategy", "failoverStrategy"}

\* Values an option may carry by Go's types, a float as a fraction or in percent.
TypedValue(f, v) ==
    /\ f \in NumberFields => v \in Int
    /\ f = "backoff" => v \in [num : Int, den : Nat \ {0}]

\* Options with values from a set V, and the configurations that every option leaves
\* within the bounds it checks.
OptionsOver(V) ==
    {o \in UNION {[F -> V] : F \in SUBSET Fields} : \A f \in DOMAIN o : TypedValue(f, o[f])}

\* Every field has its type and passes its option's check.
Allowed(c) == \A f \in Fields : TypedValue(f, c[f]) /\ Accepted(f, c[f])

\* The values a field can get.
ValuesFrom(V) == V \union {DefaultConfig[f] : f \in Fields}

ConfigsOver(V) == {c \in [Fields -> ValuesFrom(V)] : Allowed(c)}

\* The fields by what their options check.
LEMMA FieldsSplit ==
    /\ Fields = NumberFields \union NameFields \union {"errors", "backoff"}
    /\ DOMAIN ValidStrategies = NameFields
<1>1. Fields = NumberFields \union NameFields \union {"errors", "backoff"}
  BY DEF Fields, DefaultConfig, NumberFields, NameFields
<1>2. DOMAIN ValidStrategies = NameFields
  BY DEF ValidStrategies, NameFields
<1> QED
  BY <1>1, <1>2

\* What an option checks of a number.
LEMMA NumberChecks ==
    ASSUME NEW v
    PROVE  /\ \A f \in NumberFields \ {"maxRetries", "jitter", "halfOpenRate"} :
                 Accepted(f, v) <=> v > 0
           /\ Accepted("maxRetries", v) <=> v >= 0
           /\ Accepted("jitter", v) <=> v \in 0..100
           /\ Accepted("halfOpenRate", v) <=> v \in 1..100
<1>1. \A f \in NumberFields : f \notin NameFields /\ f # "errors" /\ f # "backoff"
  BY DEF NumberFields, NameFields
<1>2. DOMAIN ValidStrategies = NameFields
  BY FieldsSplit
<1>3. \A f \in NumberFields \ {"maxRetries", "jitter", "halfOpenRate"} : Accepted(f, v) <=> v > 0
  BY <1>1, <1>2 DEF Accepted
<1>4. Accepted("maxRetries", v) <=> v >= 0
  BY <1>2 DEF Accepted, NameFields
<1>5. Accepted("jitter", v) <=> v \in 0..100
  BY <1>2 DEF Accepted, NameFields
<1>6. Accepted("halfOpenRate", v) <=> v \in 1..100
  BY <1>2 DEF Accepted, NameFields
<1> QED
  BY <1>3, <1>4, <1>5, <1>6, Zenon

\* And of anything else.
LEMMA OtherChecks ==
    ASSUME NEW v
    PROVE  /\ \A f \in NameFields : Accepted(f, v) <=> v \in ValidStrategies[f]
           /\ Accepted("errors", v)
           /\ Accepted("backoff", v) <=> v.num >= v.den
<1>1. \A f \in NameFields :
         f \notin {"errors", "backoff", "maxRetries", "jitter", "halfOpenRate"}
  BY DEF NameFields
<1>2. DOMAIN ValidStrategies = NameFields
  BY FieldsSplit
<1>3. \A f \in NameFields : Accepted(f, v) <=> v \in ValidStrategies[f]
  BY <1>1, <1>2 DEF Accepted
<1>4. Accepted("errors", v) /\ (Accepted("backoff", v) <=> v.num >= v.den)
  BY <1>2 DEF Accepted, NameFields
<1> QED
  BY <1>3, <1>4, Zenon

\* The defaults pass their own checks (config.go:42-75).
LEMMA DefaultNumbers ==
    /\ \A f \in NumberFields : DefaultConfig[f] \in Nat \ {0}
    /\ DefaultConfig["jitter"] = 20 /\ DefaultConfig["halfOpenRate"] = 50
<1>1. \A f \in NumberFields : DefaultConfig[f] \in Nat \ {0}
  BY DEF NumberFields, DefaultConfig
<1>2. DefaultConfig["jitter"] = 20 /\ DefaultConfig["halfOpenRate"] = 50
  BY DEF DefaultConfig
<1> QED
  BY <1>1, <1>2

\* So do the names of the strategies.
LEMMA DefaultNames == \A f \in NameFields : DefaultConfig[f] \in ValidStrategies[f]
<1>1. /\ DefaultConfig["retryStrategy"] = "jittered"
      /\ DefaultConfig["recoveryStrategy"] = "gradual"
      /\ DefaultConfig["failoverStrategy"] = "next"
  BY DEF DefaultConfig
<1>2. /\ "jittered" \in ValidStrategies["retryStrategy"]
      /\ "gradual" \in ValidStrategies["recoveryStrategy"]
      /\ "next" \in ValidStrategies["failoverStrategy"]
  BY DEF ValidStrategies
<1> QED
  BY <1>1, <1>2 DEF NameFields

\* And the backoff factor.
LEMMA DefaultBackoff ==
    /\ DefaultConfig["backoff"] \in [num : Int, den : Nat \ {0}]
    /\ DefaultConfig["backoff"].num >= DefaultConfig["backoff"].den
<1>1. DefaultConfig["backoff"] = [num |-> 2, den |-> 1]
  BY DEF DefaultConfig
<1> QED
  BY <1>1

\* The default configuration is allowed.
LEMMA DefaultAllowed == \A V : DefaultConfig \in ConfigsOver(V)
<1>0. /\ "errors" \notin NumberFields /\ "backoff" \notin NumberFields
      /\ NumberFields \cap NameFields = {} /\ "backoff" \notin NameFields
  BY DEF NumberFields, NameFields
<1>1. ASSUME NEW f \in NumberFields
      PROVE  TypedValue(f, DefaultConfig[f]) /\ Accepted(f, DefaultConfig[f])
  <2> DEFINE v == DefaultConfig[f]
  <2>1. v \in Int /\ v > 0 /\ v >= 0
    BY DefaultNumbers
  <2>2. f = "jitter" => v \in 0..100
    BY DefaultNumbers
  <2>3. f = "halfOpenRate" => v \in 1..100
    BY DefaultNumbers
  <2> HIDE DEF v
  <2>4. TypedValue(f, v)
    BY <1>0, <2>1 DEF TypedValue
  <2>5. Accepted(f, v)
    BY <2>1, <2>2, <2>3, NumberChecks
  <2> QED
    BY <2>4, <2>5 DEF v
<1>2. ASSUME NEW f \in NameFields
      PROVE  TypedValue(f, DefaultConfig[f]) /\ Accepted(f, DefaultConfig[f])
  <2>1. TypedValue(f, DefaultConfig[f])
    BY <1>0, Zenon DEF TypedValue
  <2> QED
    BY <2>1, DefaultNames, OtherChecks, Zenon
<1>3. TypedValue("errors", DefaultConfig["errors"]) /\ Accepted("errors", DefaultConfig["errors"])
  <2>1. TypedValue("errors", DefaultConfig["errors"])
    BY <1>0 DEF TypedValue
  <2> QED
    BY <2>1, OtherChecks, Zenon
<1>4. /\ TypedValue("backoff", DefaultConfig["backoff"])
      /\ Accepted("backoff", DefaultConfig["backoff"])
  <2>1. TypedValue("backoff", DefaultConfig["backoff"])
    BY <1>0, DefaultBackoff, Zenon DEF TypedValue
  <2> QED
    BY <2>1, DefaultBackoff, OtherChecks, Zenon
<1>5. \A f \in Fields : TypedValue(f, DefaultConfig[f]) /\ Accepted(f, DefaultConfig[f])
  BY <1>1, <1>2, <1>3, <1>4, FieldsSplit, Zenon
<1>6. \A V : \A f \in Fields : DefaultConfig[f] \in ValuesFrom(V)
  BY DEF ValuesFrom
<1>7. DefaultConfig = [f \in Fields |-> DefaultConfig[f]]
  BY DEF Fields, DefaultConfig
<1>8. \A V : DefaultConfig \in [Fields -> ValuesFrom(V)]
  BY <1>6, <1>7, Zenon
<1> QED
  BY <1>5, <1>8, Zenon DEF ConfigsOver, Allowed

\* An option changes a field to a value it accepts, or not at all.
LEMMA ApplyAllowed ==
    ASSUME NEW V, NEW c \in ConfigsOver(V), NEW o \in OptionsOver(V)
    PROVE  Apply(c, o) \in ConfigsOver(V)
<1>1. DOMAIN c = Fields /\ c \in [Fields -> ValuesFrom(V)] /\ Allowed(c)
  BY DEF ConfigsOver
<1>2. \A f \in DOMAIN o : TypedValue(f, o[f]) /\ o[f] \in ValuesFrom(V)
  BY DEF OptionsOver, ValuesFrom
<1> DEFINE d == Apply(c, o)
<1>3. d = [f \in Fields |-> IF f \in DOMAIN o /\ Accepted(f, o[f]) THEN o[f] ELSE c[f]]
  BY <1>1 DEF Apply
<1> HIDE DEF d
<1>4. ASSUME NEW f \in Fields
      PROVE  d[f] \in ValuesFrom(V) /\ TypedValue(f, d[f]) /\ Accepted(f, d[f])
  <2>1. CASE f \in DOMAIN o /\ Accepted(f, o[f])
    BY <1>2, <1>3, <2>1
  <2>2. CASE ~(f \in DOMAIN o /\ Accepted(f, o[f]))
    BY <1>1, <1>3, <2>2 DEF Allowed
  <2> QED
    BY <2>1, <2>2
<1>5. d \in [Fields -> ValuesFrom(V)]
  BY <1>3, <1>4
<1> QED
  BY <1>4, <1>5 DEF ConfigsOver, Allowed, d

\* So is what any options make of it.
LEMMA NewConfigAllowed ==
    ASSUME NEW V, NEW options \in Seq(OptionsOver(V))
    PROVE  NewConfig(options) \in ConfigsOver(V)
<1> DEFINE Configs == ConfigsOver(V)
           N == Len(options)
           F == [p \in Configs \X (1..N) |-> Apply(p[1], options[p[2]])]
           body(g) == [n \in 0..N |-> IF n = 0 THEN DefaultConfig ELSE Apply(g[n - 1], options[n])]
           d == CHOOSE g : g = body(g)
<1>1. N \in Nat /\ \A n \in 1..N : options[n] \in OptionsOver(V)
  BY LenProperties, ElementOfSeq
<1>10. DefaultConfig \in Configs
  BY DefaultAllowed
<1>2. F \in [Configs \X (1..N) -> Configs]
  BY <1>1, ApplyAllowed
<1>3. PICK g : g \in Histories(N, Configs, DefaultConfig, F)
  <2> HIDE DEF F, N, Configs
  <2> QED
    BY <1>1, <1>2, <1>10, HistoryExists
<1>4. g \in [0..N -> Configs] /\ g[0] = DefaultConfig /\ \A n \in 1..N : g[n] = F[<<g[n - 1], n>>]
  BY <1>3 DEF Histories
<1>5. g = body(g)
  <2>1. \A n \in 1..N : n - 1 \in 0..N
    BY <1>1
  <2> HIDE DEF N
  <2>2. \A n \in 1..N : g[n] = Apply(g[n - 1], options[n])
    BY <1>4, <2>1
  <2> QED
    BY <1>1, <1>4, <2>2
<1>6. d = body(d)
  <2> HIDE DEF body
  <2> QED
    BY <1>5
<1>7. NewConfig(options) = d[N]
  BY DEF NewConfig
<1> HIDE DEF d
<1>8. d[0] = DefaultConfig /\ \A n \in 1..N : d[n] = Apply(d[n - 1], options[n])
  <2> HIDE DEF N
  <2> QED
    BY <1>1, <1>6
<1> DEFINE S == {n \in 0..N : d[n] \in Configs}
<1>9. N \in S
  <2>1. 0 \in S
    BY <1>1, <1>8, <1>10
  <2>2. \A n \in 1..N : n - 1 \in S => n \in S
    BY <1>1, <1>8, ApplyAllowed
  <2> HIDE DEF S, N
  <2>3. \A n \in 0..N : n \in S
    BY <1>1, <2>1, <2>2, BoundedInduction
  <2> QED
    BY <1>1, <2>3
<1> QED
  BY <1>7, <1>9

\* What the other modules assume of a configuration's numbers.
LEMMA ConfigNumbers ==
    ASSUME NEW V, NEW c \in ConfigsOver(V)
    PROVE  /\ Sound(c)
           /\ c.maxRetries \in Nat /\ c.interval \in Nat \ {0} /\ c.maxDelay \in Nat \ {0}
           /\ c.jitter \in 0..100 /\ c.retryStrategy \in {"simple", "exponential", "jittered"}
           /\ c.backoff.num \in Nat \ {0} /\ c.backoff.den \in Nat \ {0}
           /\ c.backoff.num >= c.backoff.den
<1>1. \A f \in Fields : TypedValue(f, c[f]) /\ Accepted(f, c[f])
  BY DEF ConfigsOver, Allowed
<1>2. \A f \in NumberFields : c[f] \in Int /\ Accepted(f, c[f])
  BY <1>1, FieldsSplit, Zenon DEF TypedValue
<1>3. \A f \in NumberFields \ {"maxRetries", "jitter", "halfOpenRate"} : c[f] \in Nat \ {0}
  <2>1. TAKE f \in NumberFields \ {"maxRetries", "jitter", "halfOpenRate"}
  <2> DEFINE v == c[f]
  <2>2. v \in Int /\ Accepted(f, v)
    BY <1>2
  <2> HIDE DEF v
  <2>3. v > 0
    BY <2>2, NumberChecks
  <2>4. v \in Nat \ {0}
    BY <2>2, <2>3
  <2> QED
    BY <2>4 DEF v
<1>4. c["maxRetries"] \in Nat
  <2> DEFINE v == c["maxRetries"]
  <2>1. v \in Int /\ Accepted("maxRetries", v)
    BY <1>2 DEF NumberFields
  <2> HIDE DEF v
  <2>2. v >= 0
    BY <2>1, NumberChecks, Zenon
  <2>3. v \in Nat
    BY <2>1, <2>2
  <2> QED
    BY <2>3 DEF v
<1>5. c["jitter"] \in 0..100 /\ c["halfOpenRate"] \in 1..100
  <2>1. Accepted("jitter", c["jitter"]) /\ Accepted("halfOpenRate", c["halfOpenRate"])
    BY <1>2 DEF NumberFields
  <2> QED
    BY <2>1, NumberChecks, Zenon
<1>6. \A f \in NameFields : c[f] \in ValidStrategies[f]
  BY <1>1, FieldsSplit, OtherChecks, Zenon
<1>7. c["retryStrategy"] \in {"simple", "exponential", "jittered"}
  <2>1. ValidStrategies["retryStrategy"] = {"simple", "exponential", "jittered"}
    BY DEF ValidStrategies
  <2>2. c["retryStrategy"] \in ValidStrategies["retryStrategy"]
    BY <1>6 DEF NameFields
  <2> QED
    BY <2>1, <2>2, Zenon
<1>8. /\ c["backoff"] \in [num : Int, den : Nat \ {0}]
      /\ c["backoff"].num >= c["backoff"].den
  BY <1>1, FieldsSplit, OtherChecks, Zenon DEF TypedValue
<1>9. /\ c["backoff"].num \in Nat \ {0} /\ c["backoff"].den \in Nat \ {0}
      /\ c["backoff"].num >= c["backoff"].den
  <2> DEFINE b == c["backoff"]
  <2>1. b \in [num : Int, den : Nat \ {0}] /\ b.num >= b.den
    BY <1>8
  <2> HIDE DEF b
  <2>2. b.num \in Nat \ {0} /\ b.den \in Nat \ {0} /\ b.num >= b.den
    BY <2>1
  <2> QED
    BY <2>2 DEF b
<1>10. /\ c["interval"] \in Nat \ {0} /\ c["maxDelay"] \in Nat \ {0}
       /\ c["breakThreshold"] \in Nat \ {0} /\ c["breakTimeout"] \in Nat \ {0}
       /\ c["halfOpenCalls"] \in Nat \ {0} /\ c["recoveryThreshold"] \in Nat \ {0}
       /\ c["failureThreshold"] \in Nat \ {0} /\ c["successThreshold"] \in Nat \ {0}
  BY <1>3 DEF NumberFields
<1>11. Sound(c)
  BY <1>5, <1>6, <1>10, FieldsSplit DEF Sound
<1> QED
  BY <1>4, <1>5, <1>7, <1>9, <1>10, <1>11

-----------------------------------------------------------------------------
\* RecoveryDelay is the history of this step.
NextDelay(x) == IF (x * 3) \div 2 > MaxDelay THEN MaxDelay ELSE (x * 3) \div 2

\* The limits of the delay, without their values.
LEMMA DelayLimits ==
    BaseDelay \in Nat /\ MaxDelay \in Nat /\ 1 <= BaseDelay /\ BaseDelay <= MaxDelay
BY DEF BaseDelay, MaxDelay

\* A step of the delay stays within the limits and never shrinks.
LEMMA NextDelayGrows ==
    \A x \in BaseDelay..MaxDelay : NextDelay(x) \in BaseDelay..MaxDelay /\ x <= NextDelay(x)
BY DelayLimits DEF NextDelay

\* The recursive definition has a solution: the union of its histories.
LEMMA RecoveryDelayDefined ==
    /\ RecoveryDelay[0] = BaseDelay
    /\ \A n \in Nat : RecoveryDelay[n + 1] = NextDelay(RecoveryDelay[n])
<1> DEFINE X == BaseDelay..MaxDelay
           H(n) == {d \in [0..n -> X] :
                      d[0] = BaseDelay /\ \A k \in 1..n : d[k] = NextDelay(d[k - 1])}
           body(g) == [n \in Nat |-> IF n = 0 THEN BaseDelay ELSE NextDelay(g[n - 1])]
           h == [n \in Nat |-> CHOOSE d \in H(n) : TRUE]
           g == [n \in Nat |-> h[n][n]]
<1>0. BaseDelay \in X
  BY DelayLimits
<1>1. \A n \in Nat : h[n] \in H(n)
  <2>1. SUFFICES ASSUME NEW n \in Nat PROVE H(n) # {}
    OBVIOUS
  <2> DEFINE F == [p \in X \X (1..n) |-> NextDelay(p[1])]
  <2>2. F \in [X \X (1..n) -> X]
    BY NextDelayGrows
  <2>3. PICK d : d \in Histories(n, X, BaseDelay, F)
    <3> HIDE DEF F, X
    <3> QED
      BY <1>0, <2>2, HistoryExists
  <2>4. d \in [0..n -> X] /\ d[0] = BaseDelay /\ \A k \in 1..n : d[k] = F[<<d[k - 1], k>>]
    BY <2>3 DEF Histories
  <2>5. \A k \in 1..n : k - 1 \in 0..n
    OBVIOUS
  <2> HIDE DEF X
  <2>6. \A k \in 1..n : <<d[k - 1], k>> \in X \X (1..n)
    BY <2>4, <2>5
  <2>7. \A k \in 1..n : d[k] = NextDelay(d[k - 1])
    BY <2>4, <2>6
  <2> QED
    BY <2>4, <2>7
<1> HIDE DEF h
<1>2. ASSUME NEW m \in Nat, NEW n \in Nat, m <= n
      PROVE  h[m][m] = h[n][m]
  <2> DEFINE S == {k \in 0..m : h[m][k] = h[n][k]}
  <2>1. 0 \in S
    BY <1>1
  <2>2. ASSUME NEW k \in 1..m, k - 1 \in S
        PROVE  k \in S
    <3>1. k \in 1..n /\ k \in 0..m
      BY <1>2
    <3>2. h[m][k] = NextDelay(h[m][k - 1]) /\ h[n][k] = NextDelay(h[n][k - 1])
      BY <1>1, <3>1
    <3> QED
      BY <2>2, <3>1, <3>2
  <2> HIDE DEF S
  <2>3. \A k \in 0..m : k \in S
    BY <2>1, <2>2, BoundedInduction
  <2>4. m \in S
    BY <2>3
  <2> QED
    BY <2>4 DEF S
<1>3. g[0] = BaseDelay /\ \A n \in Nat : g[n + 1] = NextDelay(g[n])
  <2>1. g[0] = BaseDelay
    BY <1>1
  <2>2. ASSUME NEW n \in Nat
        PROVE  g[n + 1] = NextDelay(g[n])
    <3>1. h[n + 1][n + 1] = NextDelay(h[n + 1][n])
      <4>1. n + 1 \in Nat /\ n + 1 \in 1..(n + 1) /\ (n + 1) - 1 = n
        OBVIOUS
      <4>2. h[n + 1] \in H(n + 1)
        BY <1>1, <4>1
      <4> HIDE DEF X
      <4> QED
        BY <4>1, <4>2
    <3>2. h[n][n] = h[n + 1][n]
      BY <1>2
    <3> QED
      BY <3>1, <3>2
  <2> QED
    BY <2>1, <2>2
<1>4. g = body(g)
  <2>1. \A n \in Nat \ {0} : n - 1 \in Nat /\ (n - 1) + 1 = n
    OBVIOUS
  <2>2. \A n \in Nat : g[n] = IF n = 0 THEN BaseDelay ELSE NextDelay(g[n - 1])
    <3> HIDE DEF g
    <3> QED
      BY <1>3, <2>1
  <2> QED
    BY <2>2
<1> HIDE DEF g
<1>5. RecoveryDelay = CHOOSE f : f = body(f)
  BY DEF RecoveryDelay, NextDelay
<1>6. RecoveryDelay = body(RecoveryDelay)
  <2> HIDE DEF body
  <2> QED
    BY <1>4, <1>5
<1> QED
  BY <1>6

\* The delay between attempts to recover never shrinks and never passes its limit.
THEOREM RecoveryDelaysGrow == \A attempts \in Nat : RecoveryDelayGrows(attempts)
<1> DEFINE S == {n \in Nat : RecoveryDelay[n] \in BaseDelay..MaxDelay}
<1>1. 0 \in S
  BY RecoveryDelayDefined, DelayLimits
<1>2. \A n \in Nat : n \in S => n + 1 \in S
  BY RecoveryDelayDefined, NextDelayGrows
<1>3. \A n \in Nat : n \in S
  <2> HIDE DEF S
  <2> QED
    BY <1>1, <1>2, Induction
<1> QED
  BY <1>3, RecoveryDelayDefined, NextDelayGrows DEF RecoveryDelayGrows

\* The powers up to n.
LEMMA PowerHistory ==
    ASSUME NEW b \in Nat \ {0}, NEW n \in Nat
    PROVE  \E d \in [0..n -> Nat \ {0}] :
              /\ d[0] = 1
              /\ \A k \in 1..n : d[k] = b * d[k - 1]
              /\ Power(b, n) = d[n]
<1> DEFINE X == Nat \ {0}
           F == [p \in X \X (1..n) |-> b * p[1]]
           body(g) == [k \in 0..n |-> IF k = 0 THEN 1 ELSE b * g[k - 1]]
           d == CHOOSE g : g = body(g)
<1>1. \A x \in X : b * x \in X
  OBVIOUS
<1>2. F \in [X \X (1..n) -> X]
  <2> HIDE DEF X
  <2> QED
    BY <1>1
<1>3. PICK g : g \in Histories(n, X, 1, F)
  <2>1. 1 \in X
    OBVIOUS
  <2> HIDE DEF F, X
  <2> QED
    BY <1>2, <2>1, HistoryExists
<1>4. g \in [0..n -> X] /\ g[0] = 1 /\ \A k \in 1..n : g[k] = F[<<g[k - 1], k>>]
  BY <1>3 DEF Histories
<1>5. \A k \in 1..n : g[k] = b * g[k - 1]
  <2>1. \A k \in 1..n : k - 1 \in 0..n
    OBVIOUS
  <2> HIDE DEF X
  <2> QED
    BY <1>4, <2>1
<1>6. g = body(g)
  BY <1>4, <1>5
<1>7. d = body(d)
  <2> HIDE DEF body
  <2> QED
    BY <1>6
<1>8. Power(b, n) = d[n]
  BY DEF Power
<1> HIDE DEF d
<1>9. d[0] = 1 /\ \A k \in 1..n : d[k] = b * d[k - 1]
  BY <1>7
<1> DEFINE S == {k \in 0..n : d[k] \in X}
<1>10. \A k \in 0..n : k \in S
  <2>1. 0 \in S
    BY <1>9
  <2>2. \A k \in 1..n : k - 1 \in S => k \in S
    <3>1. \A k \in 1..n : k \in 0..n
      OBVIOUS
    <3> HIDE DEF X
    <3> QED
      BY <1>1, <1>9, <3>1
  <2> HIDE DEF S
  <2> QED
    BY <2>1, <2>2, BoundedInduction
<1>11. d \in [0..n -> X]
  <2> HIDE DEF X
  <2> QED
    BY <1>7, <1>10
<1> QED
  BY <1>8, <1>9, <1>11

\* What is used of them.
LEMMA PowerSteps ==
    ASSUME NEW b \in Nat \ {0}, NEW n \in Nat
    PROVE  /\ Power(b, 0) = 1 /\ Power(b, n) \in Nat \ {0}
           /\ Power(b, n + 1) = b * Power(b, n)
<1>1. Power(b, 0) = 1
  <2>1. PICK d \in [0..0 -> Nat \ {0}] : d[0] = 1 /\ Power(b, 0) = d[0]
    BY PowerHistory
  <2> QED
    BY <2>1
<1>2. PICK d \in [0..n -> Nat \ {0}] :
         d[0] = 1 /\ (\A k \in 1..n : d[k] = b * d[k - 1]) /\ Power(b, n) = d[n]
  BY PowerHistory
<1>3. PICK e \in [0..(n + 1) -> Nat \ {0}] :
         e[0] = 1 /\ (\A k \in 1..(n + 1) : e[k] = b * e[k - 1]) /\ Power(b, n + 1) = e[n + 1]
  <2>1. n + 1 \in Nat
    OBVIOUS
  <2> QED
    BY <2>1, PowerHistory
<1> DEFINE S == {k \in 0..n : d[k] = e[k]}
<1>4. n \in S
  <2>1. 0 \in S
    BY <1>2, <1>3
  <2>2. ASSUME NEW k \in 1..n, k - 1 \in S
        PROVE  k \in S
    <3>1. k \in 0..n /\ k \in 1..(n + 1)
      OBVIOUS
    <3>2. d[k] = b * d[k - 1] /\ e[k] = b * e[k - 1] /\ d[k - 1] = e[k - 1]
      BY <1>2, <1>3, <2>2, <3>1
    <3> QED
      BY <3>1, <3>2
  <2> HIDE DEF S
  <2>3. \A k \in 0..n : k \in S
    BY <2>1, <2>2, BoundedInduction
  <2> QED
    BY <2>3
<1>5. e[n + 1] = b * e[n]
  <2>1. n + 1 \in 1..(n + 1) /\ (n + 1) - 1 = n
    OBVIOUS
  <2>2. e[n + 1] = b * e[(n + 1) - 1]
    BY <1>3, <2>1
  <2> QED
    BY <2>1, <2>2
<1>6. Power(b, n + 1) = b * Power(b, n)
  BY <1>2, <1>3, <1>4, <1>5
<1> QED
  BY <1>1, <1>2, <1>6

\* A factor that is at least one grows: so does its truncated power.
LEMMA TruncatedGrowth ==
    ASSUME NEW num \in Nat \ {0}, NEW den \in Nat \ {0}, num >= den,
           NEW a \in Nat \ {0}, NEW b \in Nat \ {0}
    PROVE  a \div b <= (num * a) \div (den * b)
<1> DEFINE q == a \div b
           A == num * a
           B == den * b
           r == A \div B
<1>1. q \in Nat /\ b * q <= a
  BY DivBounds
<1>2. A \in Nat \ {0} /\ B \in Nat \ {0}
  OBVIOUS
<1> HIDE DEF q
<1>3. den * (b * q) <= den * a /\ den * a <= num * a
  BY <1>1
<1>4. B * q <= A
  <2>1. B * q = den * (b * q)
    BY <1>1
  <2> QED
    BY <1>1, <1>3, <2>1
<1> HIDE DEF A, B
<1>5. r \in Nat /\ A < B * r + B
  BY <1>2, DivBounds
<1> HIDE DEF r
<1>6. B * q < B * (r + 1)
  BY <1>1, <1>2, <1>4, <1>5
<1>7. q < r + 1
  BY <1>1, <1>2, <1>5, <1>6
<1>8. q <= r
  BY <1>1, <1>5, <1>7
<1> QED
  BY <1>8 DEF q, r, A, B

\* What the products grow by.
LEMMA GrowthGrows ==
    ASSUME NEW p, p.num \in Nat \ {0}, p.den \in Nat \ {0}, p.num >= p.den
    PROVE  \A n \in Nat : /\ Growth(p, n) \in Nat /\ 1 <= Growth(p, n)
                          /\ Growth(p, n) <= Growth(p, n + 1)
<1> DEFINE g(n) == Growth(p, n)
           S == {n \in Nat : g(n) \in Nat /\ 1 <= g(n)}
<1>1. ASSUME NEW n \in Nat
      PROVE  g(n) \in Nat /\ g(n) <= g(n + 1)
  <2> DEFINE num == p.num
             den == p.den
             A == Power(num, n)
             B == Power(den, n)
  <2>1. /\ A \in Nat \ {0} /\ B \in Nat \ {0}
        /\ Power(num, n + 1) = num * A /\ Power(den, n + 1) = den * B
    BY PowerSteps
  <2>2. g(n) = A \div B /\ g(n + 1) = (num * A) \div (den * B)
    BY <2>1 DEF Growth
  <2>3. num \in Nat \ {0} /\ den \in Nat \ {0} /\ num >= den
    OBVIOUS
  <2> HIDE DEF A, B, num, den, g
  <2>4. A \div B <= (num * A) \div (den * B)
    BY <2>1, <2>3, TruncatedGrowth
  <2>5. A \div B \in Nat
    BY <2>1, DivBounds
  <2> QED
    BY <2>2, <2>4, <2>5
<1>2. 0 \in S
  <2>1. Power(p.num, 0) = 1 /\ Power(p.den, 0) = 1
    BY PowerSteps
  <2>2. g(0) = 1 \div 1
    BY <2>1 DEF Growth
  <2> HIDE DEF g
  <2> QED
    BY <2>2
<1>3. \A n \in Nat : n \in S => n + 1 \in S
  <2>1. \A n \in Nat : n + 1 \in Nat
    OBVIOUS
  <2> HIDE DEF g
  <2> QED
    BY <1>1, <2>1
<1>4. \A n \in Nat : n \in S
  <2> HIDE DEF S
  <2> QED
    BY <1>2, <1>3, Induction
<1> QED
  BY <1>1, <1>4

\* A Duration that fits is unchanged.
LEMMA WrapFits ==
    ASSUME NEW d \in Nat, d < HalfRange
    PROVE  Wrap(d) = d
<1>1. HalfRange \in Nat \ {0}
  BY HalfRangeAssumption
<1>2. (d + HalfRange) % (2 * HalfRange) = d + HalfRange
  BY <1>1
<1> QED
  BY <1>1, <1>2 DEF Wrap

\* A policy made from an allowed configuration, whatever wraps it.
GoodPolicy(p) ==
    /\ p.max \in Nat /\ p.interval \in Nat \ {0} /\ p.cap \in Nat \ {0}
    /\ p.num \in Nat \ {0} /\ p.den \in Nat \ {0} /\ p.num >= p.den
    /\ p.jitter \in Nat /\ p.jitter <= 100
    /\ p.strategy \in {"simple", "exponential", "jittered"}
    /\ p.outer \in Int

\* A product that fits is cut at the limit and at nothing else.
LEMMA ScaledWithin ==
    ASSUME NEW p, GoodPolicy(p), NEW n \in Nat, ProductFits(p, n)
    PROVE  /\ p.interval * Growth(p, n) \in Nat
           /\ p.interval * Growth(p, n) >= p.interval
           /\ Scaled(p, n) = IF p.interval * Growth(p, n) > p.cap
                             THEN p.cap ELSE p.interval * Growth(p, n)
<1> DEFINE g == Growth(p, n)
           i == p.interval
<1>1. g \in Nat /\ 1 <= g
  BY GrowthGrows DEF GoodPolicy
<1>2. Pow(p, n) = g
  BY DEF ProductFits, Pow
<1>3. i * g < HalfRange
  BY <1>2 DEF ProductFits
<1>4. i \in Nat \ {0}
  BY DEF GoodPolicy
<1>5. Scaled(p, n) = IF Wrap(i * g) > p.cap THEN p.cap ELSE Wrap(i * g)
  BY <1>2 DEF Scaled
<1> HIDE DEF g, i
<1>6. i * g \in Nat /\ i * g >= i
  BY <1>1, <1>4
<1>7. Wrap(i * g) = i * g
  BY <1>3, <1>6, WrapFits
<1> QED
  BY <1>5, <1>6, <1>7 DEF g, i

\* A product that fits had a predecessor that fits and is not larger.
LEMMA ProductFitsBefore ==
    ASSUME NEW p, GoodPolicy(p), NEW n \in Nat \ {0}, ProductFits(p, n)
    PROVE  /\ ProductFits(p, n - 1)
           /\ p.interval * Growth(p, n - 1) <= p.interval * Growth(p, n)
<1> DEFINE f == Growth(p, n - 1)
           g == Growth(p, n)
           i == p.interval
<1>1. f \in Nat /\ g \in Nat /\ f <= g
  <2>1. n - 1 \in Nat /\ (n - 1) + 1 = n
    OBVIOUS
  <2>2. \A k \in Nat : Growth(p, k) \in Nat /\ Growth(p, k) <= Growth(p, k + 1)
    BY GrowthGrows DEF GoodPolicy
  <2> QED
    BY <2>1, <2>2
<1>2. i \in Nat
  BY DEF GoodPolicy
<1>3. g < HalfRange /\ i * g < HalfRange
  BY DEF ProductFits, Pow
<1>4. f < HalfRange /\ i * f < HalfRange /\ i * f <= i * g
  <2> HIDE DEF f, g, i
  <2>1. i * f <= i * g
    BY <1>1, <1>2
  <2> QED
    BY <1>1, <1>2, <1>3, <2>1, HalfRangeAssumption
<1> QED
  BY <1>4 DEF ProductFits, Pow

\* Without overflow no backoff is shorter than the one before it.
LEMMA ScaledGrows ==
    ASSUME NEW p, GoodPolicy(p), NEW n \in Nat \ {0}, ProductFits(p, n)
    PROVE  Scaled(p, n - 1) <= Scaled(p, n)
<1> DEFINE d == p.interval * Growth(p, n - 1)
           e == p.interval * Growth(p, n)
           cap == p.cap
<1>1. n - 1 \in Nat /\ n \in Nat /\ cap \in Nat
  BY DEF GoodPolicy
<1>2. ProductFits(p, n - 1) /\ d <= e
  BY ProductFitsBefore
<1>3. e \in Nat /\ Scaled(p, n) = IF e > cap THEN cap ELSE e
  BY ScaledWithin
<1>4. d \in Nat /\ Scaled(p, n - 1) = IF d > cap THEN cap ELSE d
  BY <1>1, <1>2, ScaledWithin
<1> HIDE DEF d, e, cap
<1> QED
  BY <1>1, <1>2, <1>3, <1>4

\* Percentages of natural numbers are monotone.
LEMMA PercentWithin ==
    ASSUME NEW a \in Nat, NEW b \in Nat, a <= b, NEW m \in Nat, NEW n \in Nat, m <= n
    PROVE  Percent(a, m) <= Percent(b, n) /\ Percent(a, 100) = a
<1>1. Percent(a, m) = (a * m) \div 100 /\ Percent(b, n) = (b * n) \div 100
  BY DEF Percent
<1>2. a * m \in Nat /\ b * n \in Nat /\ a * m <= b * n
  <2>1. a * m <= a * n /\ a * n <= b * n
    OBVIOUS
  <2> QED
    BY <2>1
<1>3. Percent(a, 100) = a
  BY DEF Percent
<1> QED
  BY <1>1, <1>2, <1>3

\* Execute ends for some reason, and made no retry that was not allowed.
LEMMA RetriesEnd ==
    ASSUME NEW p, p.max \in Int, p.outer \in Int, NEW errs, Len(errs) \in Nat
    PROVE  /\ Retries(p, errs) \in 0..Len(errs)
           /\ \A a \in 1..Retries(p, errs) : ShouldRetry(p, FALSE, a, errs[a])
<1> DEFINE L == Len(errs)
           Tried(a) == a <= MaxAttempts(p) /\ ShouldRetry(p, FALSE, a, errs[a])
           Ends(n) == /\ \A a \in 1..n : Tried(a)
                      /\ \/ n = L
                         \/ n + 1 > MaxAttempts(p)
                         \/ ~ShouldRetry(p, FALSE, n + 1, errs[n + 1])
           S == {n \in 0..L : \A a \in 1..n : Tried(a)}
<1>1. \E n \in 0..L : Ends(n)
  <2>1. SUFFICES ASSUME \A n \in 0..L : ~Ends(n)
                 PROVE  FALSE
    OBVIOUS
  <2>2. 0 \in S
    <3>1. 0 \in 0..L /\ \A a \in 1..0 : FALSE
      OBVIOUS
    <3> HIDE DEF Tried, L
    <3> QED
      BY <3>1
  <2>3. ASSUME NEW n \in 1..L, n - 1 \in S
        PROVE  n \in S
    <3>1. n - 1 \in 0..L /\ (n - 1) + 1 = n /\ n - 1 # L
      OBVIOUS
    <3> DEFINE k == n - 1
    <3>2. \A a \in 1..k : Tried(a)
      BY <2>3
    <3>3. ~(n > MaxAttempts(p)) /\ ShouldRetry(p, FALSE, n, errs[n])
      BY <2>1, <3>1, <3>2
    <3>4. Tried(n)
      <4>1. MaxAttempts(p) \in Int /\ n \in Int
        BY DEF MaxAttempts
      <4> HIDE DEF L
      <4>2. n <= MaxAttempts(p)
        BY <3>3, <4>1
      <4> QED
        BY <3>3, <4>2, Zenon
    <3> HIDE DEF Tried
    <3> QED
      BY <3>1, <3>2, <3>4
  <2> HIDE DEF S
  <2>4. \A n \in 0..L : n \in S
    BY <2>2, <2>3, BoundedInduction
  <2>5. L \in S
    BY <2>4
  <2> QED
    BY <2>1, <2>5 DEF S
<1>2. Retries(p, errs) = CHOOSE n \in 0..L : Ends(n)
  BY DEF Retries
<1> HIDE DEF L
<1>3. Retries(p, errs) \in 0..L /\ Ends(Retries(p, errs))
  <2> HIDE DEF Ends
  <2> QED
    BY <1>1, <1>2
<1>4. \A a \in 1..Retries(p, errs) : ShouldRetry(p, FALSE, a, errs[a])
  BY <1>3
<1> QED
  BY <1>3, <1>4 DEF L

\* Every wait of a good policy.
LEMMA WaitWithin ==
    ASSUME NEW p, GoodPolicy(p), NEW n \in Nat, ProductFits(p, n), NEW w \in NextBackoff(p, n)
    PROVE  LET low == IF p.strategy # "simple" /\ p.cap < p.interval THEN p.cap ELSE p.interval
               high == IF p.strategy = "simple" THEN p.interval ELSE p.cap
               jitter == IF p.strategy = "jittered" THEN p.jitter ELSE 0
           IN  Percent(low, 100 - jitter) <= w /\ w <= Percent(high, 100 + jitter)
<1> DEFINE s == Scaled(p, n)
           i == p.interval
           cap == p.cap
           small == IF cap < i THEN cap ELSE i
           jitter == p.jitter
<1>1. i \in Nat /\ cap \in Nat /\ jitter \in Nat /\ jitter <= 100
  BY DEF GoodPolicy
<1>2. s \in Nat /\ small \in Nat /\ small <= s /\ s <= cap
  <2> DEFINE d == i * Growth(p, n)
  <2>1. d \in Nat /\ d >= i /\ s = IF d > cap THEN cap ELSE d
    BY ScaledWithin
  <2> HIDE DEF d, s, i, cap
  <2> QED
    BY <1>1, <2>1
<1>3. CASE p.strategy = "simple"
  <2>1. w = i
    BY <1>3 DEF NextBackoff
  <2>2. Percent(i, 100) = i
    BY <1>1, PercentWithin
  <2> QED
    BY <1>3, <1>1, <2>1, <2>2
<1>4. CASE p.strategy = "exponential"
  <2>1. w = s
    BY <1>4 DEF NextBackoff
  <2> HIDE DEF s
  <2>2. Percent(small, 100) = small /\ Percent(cap, 100) = cap
    BY <1>1, <1>2, PercentWithin
  <2> QED
    BY <1>4, <1>1, <1>2, <2>1, <2>2
<1>5. CASE p.strategy = "jittered"
  <2>1. PICK j \in -jitter..jitter : w = Percent(s, 100 + j)
    BY <1>5 DEF NextBackoff
  <2> HIDE DEF s, jitter, small, cap
  <2>2. /\ 100 - jitter \in Nat /\ 100 + j \in Nat /\ 100 + jitter \in Nat
        /\ 100 - jitter <= 100 + j /\ 100 + j <= 100 + jitter
    BY <1>1
  <2>3. Percent(small, 100 - jitter) <= w /\ w <= Percent(cap, 100 + jitter)
    BY <1>1, <1>2, <2>1, <2>2, PercentWithin
  <2> QED
    BY <1>5, <2>3 DEF small, cap, jitter
<1> QED
  BY <1>3, <1>4, <1>5 DEF GoodPolicy

\* The waits of a good policy are bounded.
LEMMA GoodPolicyWaits ==
    ASSUME NEW p, GoodPolicy(p), NEW errs, Len(errs) \in Nat
    PROVE  WaitsBounded(p, errs)
<1> DEFINE n == Retries(p, errs)
           jitter == IF p.strategy = "jittered" THEN p.jitter ELSE 0
<1>1. n \in Nat /\ \A a \in 1..n : ShouldRetry(p, FALSE, a, errs[a])
  <2>1. p.max \in Int /\ p.outer \in Int
    BY DEF GoodPolicy
  <2>2. n \in 0..Len(errs) /\ \A a \in 1..n : ShouldRetry(p, FALSE, a, errs[a])
    BY <2>1, RetriesEnd, Zenon
  <2>3. n \in Nat
    BY <2>2
  <2> QED
    BY <2>2, <2>3, Zenon
<1> HIDE DEF n
<1>2. n = 0 \/ n < p.max
  <2>1. n # 0 => n \in 1..n
    BY <1>1
  <2> QED
    BY <1>1, <2>1 DEF ShouldRetry
<1>3. ASSUME NEW a \in 1..n, ProductFits(p, a), jitter = 0, a > 1,
             NEW v \in NextBackoff(p, a - 1), NEW w \in NextBackoff(p, a)
      PROVE  v <= w
  <2>1. a \in Nat \ {0} /\ a - 1 \in Nat
    BY <1>1
  <2>2. CASE p.strategy = "simple"
    BY <2>2 DEF NextBackoff, GoodPolicy
  <2>3. CASE p.strategy = "exponential"
    <3>1. v = Scaled(p, a - 1) /\ w = Scaled(p, a)
      BY <2>3 DEF NextBackoff
    <3> QED
      BY <1>3, <2>1, <3>1, ScaledGrows
  <2>4. CASE p.strategy = "jittered"
    <3> DEFINE s == Scaled(p, a - 1)
               t == Scaled(p, a)
    <3>1. p.jitter = 0
      BY <1>3, <2>4
    <3>2. /\ \E j \in -p.jitter..p.jitter : v = Percent(s, 100 + j)
          /\ \E j \in -p.jitter..p.jitter : w = Percent(t, 100 + j)
      BY <2>4 DEF NextBackoff
    <3>3. v = Percent(s, 100) /\ w = Percent(t, 100)
      BY <3>1, <3>2
    <3>4. s <= t
      BY <1>3, <2>1, ScaledGrows
    <3>5. s \in Nat /\ t \in Nat
      <4>1. ProductFits(p, a - 1)
        BY <1>3, <2>1, ProductFitsBefore
      <4>2. p.cap \in Nat
        BY DEF GoodPolicy
      <4> QED
        BY <1>3, <2>1, <4>1, <4>2, ScaledWithin
    <3> HIDE DEF s, t
    <3> QED
      BY <3>3, <3>4, <3>5, PercentWithin
  <2> QED
    BY <2>2, <2>3, <2>4 DEF GoodPolicy
<1>4. ASSUME NEW a \in 1..n, ProductFits(p, a), NEW w \in NextBackoff(p, a)
      PROVE  LET low == IF p.strategy # "simple" /\ p.cap < p.interval THEN p.cap ELSE p.interval
                 high == IF p.strategy = "simple" THEN p.interval ELSE p.cap
             IN  Percent(low, 100 - jitter) <= w /\ w <= Percent(high, 100 + jitter)
  <2>1. a \in Nat
    BY <1>1
  <2> QED
    BY <1>4, <2>1, WaitWithin
<1> QED
  BY <1>2, <1>3, <1>4, Zenon DEF WaitsBounded, n

\* Whatever the options, what wraps the policy and the errors.
LEMMA OptionsWait ==
    ASSUME NEW V, NEW options \in Seq(OptionsOver(V)), NEW outer \in Int,
           NEW errs, Len(errs) \in Nat
    PROVE  /\ Sound(NewConfig(options))
           /\ WaitsBounded(ContextBased(NewRetryPolicy(NewConfig(options)), outer), errs)
<1> DEFINE c == NewConfig(options)
           p == ContextBased(NewRetryPolicy(c), outer)
<1>1. c \in ConfigsOver(V)
  BY NewConfigAllowed
<1> HIDE DEF c
<1>2. /\ Sound(c)
      /\ c.maxRetries \in Nat /\ c.interval \in Nat \ {0} /\ c.maxDelay \in Nat \ {0}
      /\ c.jitter \in 0..100 /\ c.retryStrategy \in {"simple", "exponential", "jittered"}
      /\ c.backoff.num \in Nat \ {0} /\ c.backoff.den \in Nat \ {0}
      /\ c.backoff.num >= c.backoff.den
  BY <1>1, ConfigNumbers
<1>3. /\ p.max = c.maxRetries /\ p.interval = c.interval /\ p.cap = c.maxDelay
      /\ p.num = c.backoff.num /\ p.den = c.backoff.den /\ p.jitter = c.jitter
      /\ p.strategy = c.retryStrategy /\ p.outer = outer
  BY DEF ContextBased, NewRetryPolicy
<1> HIDE DEF p
<1>4. GoodPolicy(p)
  <2> DEFINE j == c.jitter
  <2>0. j \in 0..100
    BY <1>2
  <2> HIDE DEF j
  <2>1. j \in Nat /\ j <= 100
    BY <2>0
  <2> QED
    BY <1>2, <1>3, <2>1, Zenon DEF GoodPolicy, j
<1>5. WaitsBounded(p, errs)
  BY <1>4, GoodPolicyWaits
<1> QED
  BY <1>2, <1>5 DEF c, p

-----------------------------------------------------------------------------
(***************************************************************************)
(* Monitors: rates and averages.                                           *)
(***************************************************************************)
\* The reports of calls.
Reports == [ok : BOOLEAN, duration : Nat]

\* A detector's counters.
Rate == [window : Seq(BOOLEAN), requests : Int, errors : Int,
         status : {"unknown", "healthy", "suspect", "unhealthy"}]

\* A window has room for one result at least.
LEMMA WindowSizePositive == \A size \in Int : WindowSize(size) \in Nat \ {0}
BY DEF WindowSize

\* Room is made by taking the oldest result away.
LEMMA DroppedRate ==
    ASSUME NEW size \in Int, NEW d \in Rate
    PROVE  DroppedOldest(d, size) \in Rate
<1>1. CASE Len(d.window) < WindowSize(size)
  BY <1>1 DEF DroppedOldest
<1>2. CASE ~(Len(d.window) < WindowSize(size))
  <2>1. d.window \in Seq(BOOLEAN) /\ d.window # <<>>
    BY <1>2, WindowSizePositive, EmptySeq DEF Rate
  <2>2. Tail(d.window) \in Seq(BOOLEAN)
    BY <2>1, HeadTailProperties
  <2> DEFINE first == Head(d.window)
             e == IF first THEN d.errors ELSE d.errors - 1
  <2>3. DroppedOldest(d, size) =
           [window |-> Tail(d.window), requests |-> d.requests - 1, errors |-> e,
            status |-> d.status]
    BY <1>2 DEF DroppedOldest, Rate
  <2> HIDE DEF first
  <2>4. e \in Int /\ d.requests - 1 \in Int
    BY DEF Rate
  <2> HIDE DEF e
  <2> QED
    BY <2>2, <2>3, <2>4 DEF Rate
<1> QED
  BY <1>1, <1>2

\* So does one report.
LEMMA ReportRate ==
    ASSUME NEW size \in Int, NEW d \in Rate, NEW ok \in BOOLEAN
    PROVE  ReportRequest(d, size, ok) \in Rate
<1> DEFINE e == DroppedOldest(d, size)
<1>1. e \in Rate
  BY DroppedRate
<1> HIDE DEF e
<1>2. Append(e.window, ok) \in Seq(BOOLEAN)
  BY <1>1, AppendProperties DEF Rate
<1> DEFINE bad == e.errors + IF ok THEN 0 ELSE 1
           requests == e.requests + 1
<1>3. bad \in Int /\ requests \in Int
  BY <1>1 DEF Rate
<1>4. RateStatus(bad, requests, e.status) \in {"unknown", "healthy", "suspect", "unhealthy"}
  <2> HIDE DEF bad, requests
  <2> QED
    BY <1>1, <1>3 DEF Rate, RateStatus
<1> QED
  BY <1>2, <1>3, <1>4 DEF ReportRequest, Rate, e

\* What a detector's counters are on their way through the reports.
LEMMA RateHistory ==
    ASSUME NEW size \in Int, NEW reports \in Seq(Reports)
    PROVE  \E d \in [0..Len(reports) -> Rate] :
              /\ d[0] = NewRate
              /\ \A n \in 1..Len(reports) : d[n] = ReportRequest(d[n - 1], size, reports[n].ok)
              /\ RateAfter(size, reports) = d[Len(reports)]
<1> DEFINE N == Len(reports)
           F == [p \in Rate \X (1..N) |-> ReportRequest(p[1], size, reports[p[2]].ok)]
           body(g) == [n \in 0..N |->
                         IF n = 0 THEN NewRate ELSE ReportRequest(g[n - 1], size, reports[n].ok)]
           d == CHOOSE g : g = body(g)
<1>0. N \in Nat
  BY LenProperties
<1>1. NewRate \in Rate
  BY EmptySeq DEF NewRate, Rate
<1>2. \A n \in 1..N : reports[n].ok \in BOOLEAN
  <2>1. \A n \in 1..N : reports[n] \in Reports
    BY ElementOfSeq
  <2> QED
    BY <2>1 DEF Reports
<1>3. F \in [Rate \X (1..N) -> Rate]
  BY <1>2, ReportRate
<1>4. PICK g : g \in Histories(N, Rate, NewRate, F)
  <2> HIDE DEF F, N
  <2> QED
    BY <1>0, <1>1, <1>3, HistoryExists
<1>5. g \in [0..N -> Rate] /\ g[0] = NewRate /\ \A n \in 1..N : g[n] = F[<<g[n - 1], n>>]
  BY <1>4 DEF Histories
<1>6. g = body(g)
  <2>1. \A n \in 1..N : n - 1 \in 0..N
    BY <1>0
  <2> HIDE DEF N
  <2>2. \A n \in 1..N : g[n] = ReportRequest(g[n - 1], size, reports[n].ok)
    BY <1>5, <2>1
  <2> QED
    BY <1>0, <1>5, <2>2
<1>7. d = body(d)
  <2> HIDE DEF body
  <2> QED
    BY <1>6
<1>8. RateAfter(size, reports) = d[N]
  BY DEF RateAfter
<1> HIDE DEF d
<1>9. d[0] = NewRate /\ \A n \in 1..N : d[n] = ReportRequest(d[n - 1], size, reports[n].ok)
  <2> HIDE DEF N
  <2> QED
  BY <1>0, <1>7
<1>10. \A n \in 0..N : n \in {k \in 0..N : d[k] \in Rate}
  <2>1. 0 \in {k \in 0..N : d[k] \in Rate}
    BY <1>0, <1>1, <1>9
  <2>2. \A n \in 1..N : n - 1 \in {k \in 0..N : d[k] \in Rate} => n \in {k \in 0..N : d[k] \in Rate}
    BY <1>0, <1>2, <1>9, ReportRate
  <2> QED
    BY <1>0, <2>1, <2>2, BoundedInduction
<1>11. d \in [0..N -> Rate]
  BY <1>7, <1>10
<1> QED
  BY <1>8, <1>9, <1>11

\* An empty window has no failures.
LEMMA FailuresEmpty == Failures(<<>>) = 0
<1>1. {n \in DOMAIN <<>> : ~<<>>[n]} = {}
  BY EmptySeq
<1> QED
  BY <1>1, FS_EmptySet DEF Failures

\* The failures of a window can be counted.
LEMMA FailuresFinite ==
    ASSUME NEW w \in Seq(BOOLEAN)
    PROVE  /\ IsFiniteSet({n \in DOMAIN w : ~w[n]})
           /\ Failures(w) \in Nat
<1>1. DOMAIN w = 1..Len(w) /\ Len(w) \in Nat
  BY LenProperties
<1>2. IsFiniteSet(1..Len(w))
  BY <1>1, FS_Interval
<1>3. IsFiniteSet({n \in DOMAIN w : ~w[n]})
  BY <1>1, <1>2, FS_Subset
<1> QED
  BY <1>3, FS_CardinalityType DEF Failures

\* A result at the end of a window adds one failure, or none.
LEMMA FailuresAppend ==
    ASSUME NEW w \in Seq(BOOLEAN), NEW ok \in BOOLEAN
    PROVE  Failures(Append(w, ok)) = Failures(w) + IF ok THEN 0 ELSE 1
<1> DEFINE v == Append(w, ok)
           m == Len(w)
           F == {n \in 1..m : ~w[n]}
           G == {n \in 1..(m + 1) : ~v[n]}
<1>1. m \in Nat /\ DOMAIN w = 1..m
  BY LenProperties
<1>2. v \in Seq(BOOLEAN) /\ Len(v) = m + 1 /\ v[m + 1] = ok /\ \A n \in 1..m : v[n] = w[n]
  BY AppendProperties
<1>3. DOMAIN v = 1..(m + 1)
  BY <1>2, LenProperties
<1>4. Failures(w) = Cardinality(F) /\ Failures(v) = Cardinality(G)
  BY <1>1, <1>3 DEF Failures
<1>5. IsFiniteSet(F) /\ Cardinality(F) \in Nat
  BY <1>1, FailuresFinite, FS_CardinalityType
<1> HIDE DEF v, m
<1>8. (v[m + 1] <=> ok) /\ \A n \in 1..m : (v[n] <=> w[n])
  BY <1>2, Zenon
<1>6. CASE ok
  <2>1. G = F
    BY <1>1, <1>6, <1>8
  <2> HIDE DEF F, G
  <2>2. Cardinality(G) = Cardinality(F) + 0
    BY <1>5, <2>1
  <2> QED
    BY <1>4, <1>6, <2>2 DEF v
<1>7. CASE ~ok
  <2>1. G = F \union {m + 1} /\ m + 1 \notin F
    BY <1>1, <1>7, <1>8
  <2>2. Cardinality(G) = Cardinality(F) + 1
    BY <1>5, <2>1, FS_AddElement
  <2> QED
    BY <1>4, <1>7, <2>2 DEF v
<1> QED
  BY <1>6, <1>7

\* Without its first result a window has one failure less, or as many.
LEMMA FailuresTail ==
    ASSUME NEW w \in Seq(BOOLEAN), w # <<>>
    PROVE  /\ Head(w) \in BOOLEAN
           /\ Failures(Tail(w)) = IF Head(w) THEN Failures(w) ELSE Failures(w) - 1
<1> DEFINE v == Tail(w)
           m == Len(w)
           F == {n \in 1..m : ~w[n]}
           G == {n \in 1..(m - 1) : ~v[n]}
           H == {n \in 2..m : ~w[n]}
           shift == [n \in G |-> n + 1]
<1>1. m \in Nat \ {0} /\ DOMAIN w = 1..m /\ w[1] \in BOOLEAN
  BY LenProperties, EmptySeq, ElementOfSeq
<1>2. v \in Seq(BOOLEAN) /\ Len(v) = m - 1 /\ \A n \in 1..(m - 1) : v[n] = w[n + 1]
  BY HeadTailProperties
<1>3. DOMAIN v = 1..(m - 1)
  BY <1>2, LenProperties
<1>4. Head(w) = w[1]
  OBVIOUS
<1>5. Failures(w) = Cardinality(F) /\ Failures(v) = Cardinality(G)
  BY <1>1, <1>3 DEF Failures
<1>6. IsFiniteSet(F) /\ IsFiniteSet(G) /\ Cardinality(F) \in Nat
  BY <1>1, <1>2, <1>3, FailuresFinite, FS_CardinalityType
<1> HIDE DEF v, m
<1>7. shift \in Bijection(G, H)
  <2>1. shift \in [G -> H]
    BY <1>1, <1>2
  <2>2. \A a, b \in G : shift[a] = shift[b] => a = b
    BY <1>1
  <2>3. \A h \in H : h - 1 \in G /\ shift[h - 1] = h
    BY <1>1, <1>2
  <2> QED
    BY <2>1, <2>2, <2>3, Fun_IsBij
<1>8. Cardinality(G) = Cardinality(H)
  BY <1>6, <1>7, FS_Bijection DEF ExistsBijection
<1>9. CASE w[1]
  <2>1. H = F
    BY <1>1, <1>9
  <2> QED
    BY <1>4, <1>5, <1>8, <1>9, <2>1 DEF v
<1>10. CASE ~w[1]
  <2>1. H = F \ {1} /\ 1 \in F
    BY <1>1, <1>10
  <2>2. Cardinality(H) = Cardinality(F) - 1
    BY <1>6, <2>1, FS_RemoveElement
  <2> QED
    BY <1>1, <1>4, <1>5, <1>8, <1>10, <2>2 DEF v
<1> QED
  BY <1>9, <1>10

\* The status that a window of m results with e errors among them calls for.
StatusFits(status, e, m) ==
    status = IF m < 5 THEN "unknown"
             ELSE IF e * 2 > m /\ m >= 10 THEN "unhealthy"
             ELSE IF e * 5 > m THEN "suspect" ELSE "healthy"

\* What the detector knows after n reports: its counters and its status are
\* those of its window, and the window holds the last m results.
RateFacts(d, n, size, reports) ==
    LET m == IF n > WindowSize(size) THEN WindowSize(size) ELSE n
    IN  /\ d.window \in Seq(BOOLEAN)
        /\ Len(d.window) = m
        /\ \A k \in 1..m : d.window[k] = reports[n - m + k].ok
        /\ d.requests = m
        /\ d.errors = Failures(d.window)
        /\ StatusFits(d.status, d.errors, m)

\* One report keeps it.
LEMMA RateStep ==
    ASSUME NEW size \in Int, NEW reports \in Seq(Reports), NEW n \in 1..Len(reports),
           NEW d \in Rate, RateFacts(d, n - 1, size, reports)
    PROVE  RateFacts(ReportRequest(d, size, reports[n].ok), n, size, reports)
<1> DEFINE W == WindowSize(size)
           m == IF n - 1 > W THEN W ELSE n - 1
           m2 == IF n > W THEN W ELSE n
           e == DroppedOldest(d, size)
           ok == reports[n].ok
           c == IF m < W THEN m ELSE m - 1
<1>1. W \in Nat \ {0} /\ n \in Nat \ {0} /\ n <= Len(reports)
  BY WindowSizePositive, LenProperties
<1> HIDE DEF W
<1>2. m \in Nat /\ m2 \in Nat /\ c \in Nat /\ m2 = c + 1 /\ m <= c + 1 /\ m <= m2
      /\ m <= n - 1 /\ m2 <= n
  BY <1>1
<1>3. /\ d.window \in Seq(BOOLEAN)
      /\ Len(d.window) = m
      /\ \A k \in 1..m : d.window[k] = reports[n - 1 - m + k].ok
      /\ d.requests = m
      /\ d.errors = Failures(d.window)
      /\ StatusFits(d.status, d.errors, m)
  BY DEF RateFacts, W
<1>4. ok \in BOOLEAN
  <2>1. reports[n] \in Reports
    BY <1>1, ElementOfSeq
  <2> QED
    BY <2>1 DEF Reports
<1>5. /\ e.window \in Seq(BOOLEAN)
      /\ Len(e.window) = c
      /\ \A k \in 1..c : e.window[k] = reports[n - 1 - c + k].ok
      /\ e.requests = c
      /\ e.errors = Failures(e.window)
      /\ e.status = d.status
  <2>1. CASE m < W
    <3>1. e = d /\ c = m
      BY <1>3, <2>1 DEF DroppedOldest, W
    <3> HIDE DEF e, c, m
    <3> QED
      BY <1>3, <3>1
  <2>2. CASE ~(m < W)
    <3>1. c = m - 1 /\ d.window # <<>> /\ ~(Len(d.window) < WindowSize(size))
      BY <1>1, <1>2, <1>3, <2>2, EmptySeq DEF W
    <3> DEFINE first == Head(d.window)
               v == Tail(d.window)
    <3>2. e = [window |-> v, requests |-> d.requests - 1,
               errors |-> IF first THEN d.errors ELSE d.errors - 1, status |-> d.status]
      BY <3>1 DEF DroppedOldest, Rate
    <3>3. first \in BOOLEAN
          /\ Failures(v) = IF first THEN Failures(d.window) ELSE Failures(d.window) - 1
      BY <1>3, <3>1, FailuresTail
    <3>4. v \in Seq(BOOLEAN) /\ Len(v) = Len(d.window) - 1
          /\ \A k \in 1..Len(v) : v[k] = d.window[k + 1]
      BY <1>3, <3>1, HeadTailProperties
    <3> HIDE DEF e, c, m, first, v
    <3>5. Len(v) = c
      BY <1>2, <1>3, <3>1, <3>4
    <3>6. \A k \in 1..c : v[k] = reports[n - 1 - c + k].ok
      <4>1. TAKE k \in 1..c
      <4>2. k + 1 \in 1..m /\ n - 1 - m + (k + 1) = n - 1 - c + k
        BY <1>1, <1>2, <3>1
      <4>3. v[k] = d.window[k + 1]
        BY <3>4, <3>5
      <4>4. d.window[k + 1] = reports[n - 1 - m + (k + 1)].ok
        BY <1>3, <4>2
      <4> QED
        BY <4>2, <4>3, <4>4
    <3>7. e.window = v /\ e.requests = d.requests - 1 /\ e.status = d.status
          /\ e.errors = IF first THEN d.errors ELSE d.errors - 1
      BY <3>2
    <3> QED
      BY <1>2, <1>3, <3>1, <3>3, <3>4, <3>5, <3>6, <3>7
  <2> QED
    BY <2>1, <2>2
<1> DEFINE w == Append(e.window, ok)
           bad == e.errors + IF ok THEN 0 ELSE 1
           status == RateStatus(bad, e.requests + 1, e.status)
           r == ReportRequest(d, size, ok)
<1>6. r = [window |-> w, requests |-> e.requests + 1, errors |-> bad, status |-> status]
  BY DEF ReportRequest
<1> HIDE DEF m, m2, c, e, ok
<1>7. w \in Seq(BOOLEAN) /\ Len(w) = c + 1 /\ w[c + 1] = ok /\ \A k \in 1..c : w[k] = e.window[k]
  <2>1. /\ w \in Seq(BOOLEAN) /\ Len(w) = Len(e.window) + 1 /\ w[Len(e.window) + 1] = ok
        /\ \A k \in 1..Len(e.window) : w[k] = e.window[k]
    BY <1>4, <1>5, AppendProperties
  <2> HIDE DEF w
  <2> QED
    BY <1>5, <2>1
<1>8. Failures(w) = bad /\ Failures(w) \in Nat
  BY <1>4, <1>5, <1>7, FailuresAppend, FailuresFinite
<1>9. \A k \in 1..m2 : w[k] = reports[n - m2 + k].ok
  <2>1. TAKE k \in 1..m2
  <2>2. CASE k = c + 1
    <3>1. n - m2 + k = n
      BY <1>1, <1>2, <2>2
    <3> QED
      BY <1>7, <2>2, <3>1 DEF ok
  <2>3. CASE k # c + 1
    <3>1. k \in 1..c /\ n - m2 + k = n - 1 - c + k
      BY <1>1, <1>2, <2>3
    <3> QED
      BY <1>5, <1>7, <3>1
  <2> QED
    BY <2>2, <2>3
<1> HIDE DEF w, bad
<1>10. bad \in Nat /\ status = RateStatus(bad, m2, d.status)
  BY <1>2, <1>5, <1>8
<1>11. StatusFits(status, bad, m2)
  <2> HIDE DEF status
  <2>1. m < 5 => d.status = "unknown"
    BY <1>3 DEF StatusFits
  <2>2. CASE m2 < 5
    BY <1>2, <1>10, <2>1, <2>2 DEF StatusFits, RateStatus
  <2>3. CASE ~(m2 < 5)
    BY <1>2, <1>10, <2>3 DEF StatusFits, RateStatus
  <2> QED
    BY <2>2, <2>3
<1>12. r.window = w /\ r.requests = m2 /\ r.errors = bad /\ r.status = status
  BY <1>2, <1>5, <1>6
<1> HIDE DEF r, status
<1>13. /\ r.window \in Seq(BOOLEAN)
       /\ Len(r.window) = m2
       /\ \A k \in 1..m2 : r.window[k] = reports[n - m2 + k].ok
       /\ r.requests = m2
       /\ r.errors = Failures(r.window)
       /\ StatusFits(r.status, r.errors, m2)
  BY <1>2, <1>7, <1>8, <1>9, <1>11, <1>12
<1> QED
  BY <1>13 DEF RateFacts, m2, W, r, ok


\* So it is true at the end.
LEMMA RateKnown ==
    ASSUME NEW size \in Int, NEW reports \in Seq(Reports)
    PROVE  RateFacts(RateAfter(size, reports), Len(reports), size, reports)
<1> DEFINE N == Len(reports)
<1>1. PICK d \in [0..N -> Rate] :
         /\ d[0] = NewRate
         /\ \A n \in 1..N : d[n] = ReportRequest(d[n - 1], size, reports[n].ok)
         /\ RateAfter(size, reports) = d[N]
  BY RateHistory
<1> DEFINE S == {n \in 0..N : RateFacts(d[n], n, size, reports)}
<1>2. N \in Nat /\ WindowSize(size) \in Nat \ {0}
  BY LenProperties, WindowSizePositive
<1>3. 0 \in S
  <2>1. RateFacts(NewRate, 0, size, reports)
    BY <1>2, EmptySeq, FailuresEmpty DEF RateFacts, NewRate, StatusFits
  <2> QED
    BY <1>1, <1>2, <2>1
<1>4. ASSUME NEW n \in 1..N, n - 1 \in S
      PROVE  n \in S
  <2>1. d[n - 1] \in Rate /\ RateFacts(d[n - 1], n - 1, size, reports)
    BY <1>1, <1>2, <1>4
  <2>2. RateFacts(ReportRequest(d[n - 1], size, reports[n].ok), n, size, reports)
    BY <2>1, RateStep
  <2> QED
    BY <1>1, <1>2, <2>2
<1>5. N \in S
  <2> HIDE DEF S, N
  <2>1. \A n \in 0..N : n \in S
    BY <1>2, <1>3, <1>4, BoundedInduction
  <2> QED
    BY <1>2, <2>1
<1> QED
  BY <1>1, <1>5

\* The latest results, as a sequence.
LEMMA LatestResults ==
    ASSUME NEW X, NEW s \in Seq(X), NEW n \in Nat
    PROVE  LET m == IF Len(s) > n THEN n ELSE Len(s)
           IN  /\ Latest(n, s) \in Seq(X)
               /\ Len(Latest(n, s)) = m
               /\ \A k \in 1..m : Latest(n, s)[k] = s[Len(s) - m + k]
<1> DEFINE N == Len(s)
           a == IF N > n THEN N - n + 1 ELSE 1
           m == IF N > n THEN n ELSE N
<1>1. N \in Nat /\ a \in Int /\ m \in Nat /\ a >= 1
      /\ N - a + 1 = m
  BY LenProperties
<1>2. \A i \in a..N : s[i] \in X
  BY <1>1, ElementOfSeq
<1>3. /\ SubSeq(s, a, N) \in Seq(X)
      /\ Len(SubSeq(s, a, N)) = IF a <= N THEN N - a + 1 ELSE 0
      /\ \A k \in 1..(N - a + 1) : SubSeq(s, a, N)[k] = s[a + k - 1]
  <2> HIDE DEF a
  <2> QED
    BY <1>1, <1>2, SubSeqProperties
<1>4. Latest(n, s) = SubSeq(s, a, N)
  BY DEF Latest
<1>5. \A k \in 1..m : a + k - 1 = N - m + k
  BY <1>1
<1>6. Len(SubSeq(s, a, N)) = m
  <2> HIDE DEF N, a
  <2> QED
    BY <1>1, <1>3
<1>7. \A k \in 1..m : SubSeq(s, a, N)[k] = s[N - m + k]
  <2> HIDE DEF N, a, m
  <2> QED
    BY <1>1, <1>3, <1>5
<1> QED
  BY <1>3, <1>4, <1>6, <1>7

\* However often the window has turned over, the detector's counters and its
\* status are those of the latest results.
THEOREM RateOfWindow ==
    \A size \in Int, reports \in Seq(Reports) : RateIsOfWindow(size, reports)
<1> SUFFICES ASSUME NEW size \in Int, NEW reports \in Seq(Reports)
             PROVE  RateIsOfWindow(size, reports)
  OBVIOUS
<1> DEFINE d == RateAfter(size, reports)
           W == WindowSize(size)
           N == Len(reports)
           m == IF N > W THEN W ELSE N
           oks == [n \in DOMAIN reports |-> reports[n].ok]
           latest == Latest(W, oks)
           bad == Failures(latest)
<1>1. N \in Nat /\ W \in Nat \ {0} /\ DOMAIN reports = 1..N
  BY LenProperties, WindowSizePositive
<1>2. \A n \in 1..N : reports[n].ok \in BOOLEAN
  <2>1. \A n \in 1..N : reports[n] \in Reports
    BY ElementOfSeq
  <2> QED
    BY <2>1 DEF Reports
<1>3. oks \in Seq(BOOLEAN) /\ Len(oks) = N /\ \A n \in 1..N : oks[n] = reports[n].ok
  <2>1. oks \in [1..N -> BOOLEAN]
    BY <1>1, <1>2
  <2> QED
    BY <1>1, <2>1, SeqDef, LenProperties
<1> HIDE DEF W, N, oks
<1>4. /\ latest \in Seq(BOOLEAN) /\ Len(latest) = m
      /\ \A k \in 1..m : latest[k] = oks[N - m + k]
  BY <1>1, <1>3, LatestResults
<1>5. RateFacts(d, N, size, reports)
  BY RateKnown DEF N
<1>6. /\ d.window \in Seq(BOOLEAN)
      /\ Len(d.window) = m
      /\ \A k \in 1..m : d.window[k] = reports[N - m + k].ok
      /\ d.requests = m
      /\ d.errors = Failures(d.window)
      /\ StatusFits(d.status, d.errors, m)
  BY <1>5 DEF RateFacts, W
<1> HIDE DEF d, latest
<1>7. d.window = latest
  <2>1. \A k \in 1..m : d.window[k] = latest[k]
    <3>1. \A k \in 1..m : N - m + k \in 1..N
      BY <1>1
    <3> HIDE DEF m
    <3> QED
      BY <1>3, <1>4, <1>6, <3>1
  <2> HIDE DEF m
  <2> QED
    BY <1>4, <1>6, <2>1, SeqEqual
<1>8. m \in Nat /\ bad \in Nat
  BY <1>1, <1>4, FailuresFinite
<1> HIDE DEF m, bad
<1>9. d.requests = Len(latest) /\ d.errors = bad /\ Len(latest) = m
      /\ StatusFits(d.status, bad, m)
  BY <1>4, <1>6, <1>7 DEF bad
<1>10. /\ DetectRate(d, FALSE) = "unhealthy" <=> m >= 10 /\ 2 * bad > m
       /\ m >= 5 => (DetectRate(d, FALSE) = "healthy" <=> 5 * bad <= m)
       /\ m < 5 => DetectRate(d, FALSE) = "healthy"
  BY <1>8, <1>9 DEF StatusFits, DetectRate
<1> QED
  BY <1>7, <1>9, <1>10 DEF RateIsOfWindow, d, latest, oks, W, bad


-----------------------------------------------------------------------------
\* A finite set of numbers has a least and a greatest member.
LEMMA Extremes ==
    ASSUME NEW N \in Nat, NEW f \in [1..N -> Int], NEW I \in SUBSET (1..N), I # {}
    PROVE  LET S == {f[i] : i \in I}
           IN  /\ Min(S) \in S /\ \A x \in S : Min(S) <= x
               /\ Max(S) \in S /\ \A x \in S : Max(S) >= x
<1> DEFINE S == {f[i] : i \in I}
           Upto(n) == I \cap (1..n)
           Bounds(J) == \E a, b \in J : \A i \in J : f[a] <= f[i] /\ f[i] <= f[b]
           P == {n \in 0..N : Upto(n) = {} \/ Bounds(Upto(n))}
<1>1. 0 \in P
  <2>1. Upto(0) = {}
    OBVIOUS
  <2> HIDE DEF Bounds, Upto
  <2> QED
    BY <2>1
<1>2. ASSUME NEW n \in 1..N, n - 1 \in P
      PROVE  n \in P
  <2>1. CASE n \notin I
    <3>1. Upto(n) = Upto(n - 1) /\ n \in 0..N
      BY <2>1
    <3> HIDE DEF Bounds, Upto
    <3> QED
      BY <1>2, <3>1
  <2>2. CASE n \in I /\ I \cap (1..(n - 1)) = {}
    <3>1. I \cap (1..n) = {n} /\ f[n] \in Int
      BY <2>2
    <3>2. Bounds({n})
      BY <3>1
    <3>3. Upto(n) = {n} /\ n \in 0..N
      BY <3>1
    <3> HIDE DEF Bounds, Upto
    <3> QED
      BY <3>2, <3>3
  <2>3. CASE n \in I /\ I \cap (1..(n - 1)) # {}
    <3>1. I \cap (1..n) = (I \cap (1..(n - 1))) \union {n}
      BY <2>3
    <3>2. PICK a, b \in I \cap (1..(n - 1)) :
             \A i \in I \cap (1..(n - 1)) : f[a] <= f[i] /\ f[i] <= f[b]
      BY <1>2, <2>3
    <3>3. a \in I \cap (1..n) /\ b \in I \cap (1..n) /\ n \in I \cap (1..n)
      BY <2>3, <3>1
    <3> DEFINE c == IF f[n] < f[a] THEN n ELSE a
               d == IF f[n] > f[b] THEN n ELSE b
    <3>4. f[a] \in Int /\ f[b] \in Int /\ f[n] \in Int
      OBVIOUS
    <3>5. c \in I \cap (1..n) /\ d \in I \cap (1..n)
      BY <3>3
    <3>6. f[c] <= f[a] /\ f[c] <= f[n] /\ f[d] >= f[b] /\ f[d] >= f[n]
          /\ f[c] \in Int /\ f[d] \in Int
      BY <3>4
    <3>7. \A i \in I \cap (1..n) : f[c] <= f[i] /\ f[i] <= f[d]
      <4> HIDE DEF c, d
      <4>1. TAKE i \in I \cap (1..n)
      <4>2. CASE i = n
        BY <3>6, <4>2
      <4>3. CASE i \in I \cap (1..(n - 1))
        <5>1. f[i] \in Int /\ f[a] <= f[i] /\ f[i] <= f[b]
          BY <3>2, <4>3
        <5> QED
          BY <3>4, <3>6, <5>1
      <4> QED
        BY <3>1, <4>2, <4>3
    <3> HIDE DEF c, d
    <3> DEFINE J == I \cap (1..n)
    <3>8. c \in J /\ d \in J /\ \A i \in J : f[c] <= f[i] /\ f[i] <= f[d]
      BY <3>5, <3>7
    <3> HIDE DEF J
    <3>9. Bounds(J)
      BY <3>8
    <3>10. Upto(n) = J /\ n \in 0..N
      BY DEF J
    <3> HIDE DEF Bounds, Upto
    <3> QED
      BY <3>9, <3>10
  <2> QED
    BY <2>1, <2>2, <2>3
<1>3. N \in P
  <2> HIDE DEF P
  <2>1. \A n \in 0..N : n \in P
    BY <1>1, <1>2, BoundedInduction
  <2> QED
    BY <2>1
<1>4. PICK a, b \in I : \A i \in I : f[a] <= f[i] /\ f[i] <= f[b]
  <2>1. I \cap (1..N) = I
    OBVIOUS
  <2> QED
    BY <1>3, <2>1
<1>5. f[a] \in S /\ f[b] \in S /\ \A x \in S : f[a] <= x /\ f[b] >= x
  BY <1>4
<1> HIDE DEF S
<1>6. \E m \in S : \A x \in S : m <= x
  BY <1>5
<1>7. \E m \in S : \A x \in S : m >= x
  BY <1>5
<1>8. Min(S) \in S /\ \A x \in S : Min(S) <= x
  BY <1>6 DEF Min
<1>9. Max(S) \in S /\ \A x \in S : Max(S) >= x
  BY <1>7 DEF Max
<1> QED
  BY <1>8, <1>9 DEF S

-----------------------------------------------------------------------------
\* Truncating division moves the average no further than the new value.
LEMMA QuotientBetween ==
    ASSUME NEW a \in Int, NEW n \in Nat \ {0}
    PROVE  /\ Quotient(a, n) \in Int
           /\ a >= 0 => 0 <= Quotient(a, n) /\ Quotient(a, n) <= a
           /\ a < 0 => a <= Quotient(a, n) /\ Quotient(a, n) <= 0
<1>1. \A k \in Nat : k \div n \in Nat /\ k \div n <= k
  <2>1. TAKE k \in Nat
  <2>2. k \div n \in Nat /\ n * (k \div n) <= k
    OBVIOUS
  <2> DEFINE q == k \div n
  <2> HIDE DEF q
  <2>3. q <= n * q
    BY <2>2 DEF q
  <2> QED
    BY <2>2, <2>3 DEF q
<1>2. CASE a >= 0
  BY <1>1, <1>2 DEF Quotient
<1>3. CASE a < 0
  <2>1. -a \in Nat
    BY <1>3
  <2>2. (-a) \div n \in Nat /\ (-a) \div n <= -a
    BY <1>1, <2>1
  <2>3. Quotient(a, n) = -((-a) \div n)
    BY <1>3 DEF Quotient
  <2> DEFINE q == (-a) \div n
  <2> HIDE DEF q
  <2> QED
    BY <1>3, <2>2, <2>3 DEF q
<1> QED
  BY <1>2, <1>3

\* An average moves towards the new value, and not past it.
LEMMA AverageMoves ==
    ASSUME NEW old \in Int, NEW v \in Int, NEW n \in Nat \ {0}, old # 0
    PROVE  /\ NewAverage(old, v, n) \in Int
           /\ v >= old => old <= NewAverage(old, v, n) /\ NewAverage(old, v, n) <= v
           /\ v < old => v <= NewAverage(old, v, n) /\ NewAverage(old, v, n) <= old
<1> DEFINE a == v - old
           move == Quotient(a, n)
<1>1. NewAverage(old, v, n) = old + move
  BY DEF NewAverage
<1>2. a \in Int
  OBVIOUS
<1> HIDE DEF a
<1>3. /\ move \in Int
      /\ a >= 0 => 0 <= move /\ move <= a
      /\ a < 0 => a <= move /\ move <= 0
  BY <1>2, QuotientBetween
<1> HIDE DEF move
<1> QED
  BY <1>1, <1>3 DEF a

\* A monitor's statistics.
Stats == [total : Nat, good : Nat, bad : Nat, average : Int, streak : Nat]

\* One report keeps their types.
LEMMA ReportedStats ==
    ASSUME NEW s \in Stats, NEW r \in Reports
    PROVE  Reported(s, r) \in Stats
<1>1. s.total + 1 \in Nat \ {0} /\ s.average \in Int /\ r.duration \in Int
  BY DEF Stats, Reports
<1>2. NewAverage(s.average, r.duration, s.total + 1) \in Int
  <2>1. Quotient(r.duration - s.average, s.total + 1) \in Int
    BY <1>1, QuotientBetween
  <2> QED
    BY <1>1, <2>1 DEF NewAverage
<1> DEFINE a == NewAverage(s.average, r.duration, s.total + 1)
           t == s.total + 1
           g == s.good + 1
           f == s.bad + 1
           k == s.streak + 1
<1>3. /\ t \in Nat /\ g \in Nat /\ f \in Nat /\ k \in Nat /\ a \in Int
      /\ s.good \in Nat /\ s.bad \in Nat /\ s.average \in Int
  BY <1>2 DEF Stats
<1>4. ReportSuccess(s, r.duration) = [s EXCEPT !.total = t, !.good = g, !.streak = 0, !.average = a]
  BY DEF ReportSuccess
<1>5. ReportFailure(s) = [s EXCEPT !.total = t, !.bad = f, !.streak = k]
  BY DEF ReportFailure
<1> HIDE DEF a, t, g, f, k
<1>6. [s EXCEPT !.total = t, !.good = g, !.streak = 0, !.average = a] \in Stats
  BY <1>3 DEF Stats
<1>7. [s EXCEPT !.total = t, !.bad = f, !.streak = k] \in Stats
  BY <1>3 DEF Stats
<1> QED
  BY <1>4, <1>5, <1>6, <1>7 DEF Reported

\* What they are on their way through the reports.
LEMMA StatsHistory ==
    ASSUME NEW reports \in Seq(Reports)
    PROVE  \E d \in [0..Len(reports) -> Stats] :
              /\ d[0] = NewStats
              /\ \A n \in 1..Len(reports) : d[n] = Reported(d[n - 1], reports[n])
              /\ StatsAfter(reports) = d[Len(reports)]
<1> DEFINE N == Len(reports)
           F == [p \in Stats \X (1..N) |-> Reported(p[1], reports[p[2]])]
           body(g) == [n \in 0..N |-> IF n = 0 THEN NewStats ELSE Reported(g[n - 1], reports[n])]
           d == CHOOSE g : g = body(g)
<1>1. N \in Nat /\ NewStats \in Stats
  BY LenProperties DEF NewStats, Stats
<1>2. \A n \in 1..N : reports[n] \in Reports
  BY ElementOfSeq
<1>3. F \in [Stats \X (1..N) -> Stats]
  BY <1>2, ReportedStats
<1>4. PICK g : g \in Histories(N, Stats, NewStats, F)
  <2> HIDE DEF F, N
  <2> QED
    BY <1>1, <1>3, HistoryExists
<1>5. g \in [0..N -> Stats] /\ g[0] = NewStats /\ \A n \in 1..N : g[n] = F[<<g[n - 1], n>>]
  BY <1>4 DEF Histories
<1>6. g = body(g)
  <2>1. \A n \in 1..N : n - 1 \in 0..N
    BY <1>1
  <2> HIDE DEF N
  <2>2. \A n \in 1..N : g[n] = Reported(g[n - 1], reports[n])
    BY <1>5, <2>1
  <2> QED
    BY <1>1, <1>5, <2>2
<1>7. d = body(d)
  <2> HIDE DEF body
  <2> QED
    BY <1>6
<1>8. StatsAfter(reports) = d[N]
  BY DEF StatsAfter
<1> HIDE DEF d
<1>9. d[0] = NewStats /\ \A n \in 1..N : d[n] = Reported(d[n - 1], reports[n])
  <2> HIDE DEF N
  <2> QED
    BY <1>1, <1>7
<1> DEFINE S == {n \in 0..N : d[n] \in Stats}
<1>10. \A n \in 0..N : n \in S
  <2>1. 0 \in S
    BY <1>1, <1>9
  <2>2. \A n \in 1..N : n - 1 \in S => n \in S
    BY <1>1, <1>2, <1>9, ReportedStats
  <2> HIDE DEF S
  <2> QED
    BY <1>1, <2>1, <2>2, BoundedInduction
<1>11. d \in [0..N -> Stats]
  BY <1>7, <1>10
<1> QED
  BY <1>8, <1>9, <1>11


\* Which of the first n reports are of successes.
Good(reports, n) == {k \in 1..n : reports[k].ok}

\* What the monitor knows after n reports: an average between two durations it was
\* told of, and how many requests have failed in a row.
StatsFacts(s, n, reports) ==
    /\ s.total = s.good + s.bad
    /\ \/ Good(reports, n) = {} /\ s.average = 0
       \/ \E a, b \in Good(reports, n) :
             reports[a].duration <= s.average /\ s.average <= reports[b].duration
    /\ s.streak \in 0..n
    /\ \A k \in (n - s.streak + 1)..n : ~reports[k].ok
    /\ s.streak < n => reports[n - s.streak].ok

\* One report keeps it.
LEMMA StatsStep ==
    ASSUME NEW reports \in Seq(Reports), NEW n \in 1..Len(reports),
           NEW s \in Stats, StatsFacts(s, n - 1, reports)
    PROVE  StatsFacts(Reported(s, reports[n]), n, reports)
<1> DEFINE r == reports[n]
           v == r.duration
           q == Reported(s, r)
<1>1. n \in Nat \ {0} /\ n - 1 \in Nat /\ r \in Reports
  BY LenProperties, ElementOfSeq
<1>2. \A k \in 1..n : reports[k].duration \in Int
  <2>1. \A k \in 1..n : reports[k] \in Reports
    BY LenProperties, ElementOfSeq
  <2> QED
    BY <2>1 DEF Reports
<1>3. /\ s.total = s.good + s.bad /\ s.good \in Nat /\ s.bad \in Nat
      /\ s.streak \in 0..(n - 1) /\ s.average \in Int
      /\ \A k \in (n - 1 - s.streak + 1)..(n - 1) : ~reports[k].ok
      /\ s.streak < n - 1 => reports[n - 1 - s.streak].ok
  BY DEF StatsFacts, Stats
<1>4. \/ Good(reports, n - 1) = {} /\ s.average = 0
      \/ \E a, b \in Good(reports, n - 1) :
            reports[a].duration <= s.average /\ s.average <= reports[b].duration
  BY DEF StatsFacts
<1>5. CASE r.ok
  <2> DEFINE c == NewAverage(s.average, v, s.total + 1)
  <2>1. /\ q.total = s.total + 1 /\ q.good = s.good + 1 /\ q.bad = s.bad
        /\ q.streak = 0 /\ q.average = c
    <3>1. q = ReportSuccess(s, v)
      BY <1>5 DEF Reported
    <3> HIDE DEF c, q, r
    <3> QED
      BY <3>1 DEF ReportSuccess, Stats, c
  <2>2. Good(reports, n) = Good(reports, n - 1) \union {n}
    BY <1>1, <1>5 DEF Good
  <2>3. v \in Int /\ s.total + 1 \in Nat \ {0}
    BY <1>1, <1>2, <1>3
  <2>4. \E a, b \in Good(reports, n) : reports[a].duration <= c /\ c <= reports[b].duration
    <3>1. CASE s.average = 0
      <4>1. c = v
        BY <3>1 DEF NewAverage
      <4>2. n \in Good(reports, n) /\ reports[n].duration <= c /\ c <= reports[n].duration
        BY <2>2, <2>3, <4>1
      <4> QED
        BY <4>2
    <3>2. CASE s.average # 0
      <4>1. PICK a, b \in Good(reports, n - 1) :
               reports[a].duration <= s.average /\ s.average <= reports[b].duration
        BY <1>4, <3>2
      <4>2. a \in 1..n /\ b \in 1..n
        BY <1>1 DEF Good
      <4>3. reports[a].duration \in Int /\ reports[b].duration \in Int
        BY <1>2, <4>2
      <4> DEFINE old == s.average
                 x == reports[a].duration
                 y == reports[b].duration
      <4>4. old \in Int /\ x \in Int /\ y \in Int /\ x <= old /\ old <= y
        BY <1>3, <4>1, <4>3
      <4>5. c = NewAverage(old, v, s.total + 1) /\ old # 0
        BY <3>2
      <4> HIDE DEF c, v, old, x, y
      <4>6. CASE v >= old
        <5>1. old <= c /\ c <= v /\ c \in Int
          BY <2>3, <4>4, <4>5, <4>6, AverageMoves
        <5>2. x <= c
          BY <4>4, <5>1
        <5> QED
          BY <2>2, <5>1, <5>2 DEF v, x
      <4>7. CASE v < old
        <5>1. v <= c /\ c <= old /\ c \in Int
          BY <2>3, <4>4, <4>5, <4>7, AverageMoves
        <5>2. c <= y
          BY <4>4, <5>1
        <5> QED
          BY <2>2, <5>1, <5>2 DEF v, y
      <4> QED
        BY <2>3, <4>4, <4>6, <4>7
    <3> QED
      BY <3>1, <3>2
  <2> HIDE DEF c, q
  <2>5. q.total = q.good + q.bad
    BY <1>3, <2>1
  <2>6. /\ q.streak \in 0..n
        /\ \A k \in (n - q.streak + 1)..n : ~reports[k].ok
        /\ q.streak < n => reports[n - q.streak].ok
    BY <1>1, <1>5, <2>1
  <2> QED
    BY <2>1, <2>4, <2>5, <2>6 DEF StatsFacts, q, r
<1>6. CASE ~r.ok
  <2>1. /\ q.total = s.total + 1 /\ q.good = s.good /\ q.bad = s.bad + 1
        /\ q.streak = s.streak + 1 /\ q.average = s.average
    <3>1. q = ReportFailure(s)
      BY <1>6 DEF Reported
    <3> HIDE DEF q, r
    <3> QED
      BY <3>1 DEF ReportFailure, Stats
  <2>2. Good(reports, n) = Good(reports, n - 1)
    BY <1>1, <1>6 DEF Good
  <2> HIDE DEF q
  <2>3. q.total = q.good + q.bad
    BY <1>3, <2>1
  <2>4. q.streak \in 0..n /\ q.streak = s.streak + 1
    BY <1>1, <1>3, <2>1
  <2>5. \A k \in (n - q.streak + 1)..n : ~reports[k].ok
    <3>1. TAKE k \in (n - q.streak + 1)..n
    <3>2. k = n \/ k \in (n - 1 - s.streak + 1)..(n - 1)
      BY <1>1, <1>3, <2>4
    <3> QED
      BY <1>3, <1>6, <3>2
  <2>6. q.streak < n => reports[n - q.streak].ok
    <3>1. n - q.streak = n - 1 - s.streak
      BY <1>1, <1>3, <2>4
    <3> QED
      BY <1>1, <1>3, <2>4, <3>1
  <2> QED
    BY <1>4, <2>1, <2>2, <2>3, <2>4, <2>5, <2>6 DEF StatsFacts, q, r
<1> QED
  BY <1>5, <1>6

\* So it is true at the end.
LEMMA StatsKnown ==
    ASSUME NEW reports \in Seq(Reports)
    PROVE  StatsAfter(reports) \in Stats /\ StatsFacts(StatsAfter(reports), Len(reports), reports)
<1> DEFINE N == Len(reports)
<1>1. PICK d \in [0..N -> Stats] :
         /\ d[0] = NewStats
         /\ \A n \in 1..N : d[n] = Reported(d[n - 1], reports[n])
         /\ StatsAfter(reports) = d[N]
  BY StatsHistory
<1> DEFINE S == {n \in 0..N : StatsFacts(d[n], n, reports)}
<1>2. N \in Nat
  BY LenProperties
<1>3. 0 \in S
  <2>1. StatsFacts(NewStats, 0, reports)
    BY DEF StatsFacts, NewStats, Good
  <2> QED
    BY <1>1, <1>2, <2>1
<1>4. ASSUME NEW n \in 1..N, n - 1 \in S
      PROVE  n \in S
  <2>1. d[n - 1] \in Stats /\ StatsFacts(d[n - 1], n - 1, reports)
    BY <1>1, <1>2, <1>4
  <2>2. StatsFacts(Reported(d[n - 1], reports[n]), n, reports)
    BY <2>1, StatsStep
  <2> QED
    BY <1>1, <1>2, <2>2
<1>5. N \in S
  <2> HIDE DEF S, N
  <2>1. \A n \in 0..N : n \in S
    BY <1>2, <1>3, <1>4, BoundedInduction
  <2> QED
    BY <1>2, <2>1
<1> QED
  BY <1>1, <1>2, <1>5


\* The collector's window holds the latencies of the last m reports.
LatencyFacts(l, n, samples, reports) ==
    LET m == IF n > WindowSize(samples) THEN WindowSize(samples) ELSE n
    IN  /\ l \in Seq(Nat)
        /\ Len(l) = m
        /\ \A k \in 1..m : l[k] = reports[n - m + k].duration

\* A latency is added at the end, for the oldest if there is no room.
LEMMA RecordedLatencies ==
    ASSUME NEW samples \in Int, NEW l \in Seq(Nat), NEW v \in Nat
    PROVE  LET c == IF Len(l) >= WindowSize(samples) THEN Len(l) - 1 ELSE Len(l)
               r == RecordLatency(l, samples, v)
           IN  /\ r \in Seq(Nat) /\ Len(r) = c + 1 /\ r[c + 1] = v
               /\ \A k \in 1..c : r[k] = l[Len(l) - c + k]
<1> DEFINE kept == IF Len(l) >= WindowSize(samples) THEN Tail(l) ELSE l
           c == IF Len(l) >= WindowSize(samples) THEN Len(l) - 1 ELSE Len(l)
           r == RecordLatency(l, samples, v)
<1>1. WindowSize(samples) \in Nat \ {0} /\ Len(l) \in Nat
  BY WindowSizePositive, LenProperties
<1>2. /\ kept \in Seq(Nat) /\ Len(kept) = c
      /\ \A k \in 1..c : kept[k] = l[Len(l) - c + k]
  <2>1. CASE Len(l) >= WindowSize(samples)
    <3>1. l # <<>>
      BY <1>1, <2>1, EmptySeq
    <3>2. Tail(l) \in Seq(Nat) /\ Len(Tail(l)) = Len(l) - 1
          /\ \A k \in 1..Len(Tail(l)) : Tail(l)[k] = l[k + 1]
      BY <3>1, HeadTailProperties
    <3>3. kept = Tail(l) /\ c = Len(l) - 1
      BY <2>1
    <3> HIDE DEF kept, c
    <3>4. \A k \in 1..c : Len(l) - c + k = k + 1
      BY <1>1, <3>3
    <3> QED
      BY <3>2, <3>3, <3>4
  <2>2. CASE ~(Len(l) >= WindowSize(samples))
    <3>1. kept = l /\ c = Len(l)
      BY <2>2
    <3> HIDE DEF kept, c
    <3> QED
      BY <1>1, <3>1
  <2> QED
    BY <2>1, <2>2
<1>3. r = Append(kept, v)
  BY DEF RecordLatency
<1> HIDE DEF kept, r, c
<1>4. /\ r \in Seq(Nat) /\ Len(r) = Len(kept) + 1 /\ r[Len(kept) + 1] = v
      /\ \A k \in 1..Len(kept) : r[k] = kept[k]
  BY <1>2, <1>3, AppendProperties
<1>5. r \in Seq(Nat) /\ Len(r) = c + 1 /\ r[c + 1] = v /\ \A k \in 1..c : r[k] = l[Len(l) - c + k]
  BY <1>2, <1>4
<1> QED
  BY <1>5 DEF r, c

\* One report keeps it.
LEMMA LatencyStep ==
    ASSUME NEW samples \in Int, NEW reports \in Seq(Reports), NEW n \in 1..Len(reports),
           NEW l \in Seq(Nat), LatencyFacts(l, n - 1, samples, reports)
    PROVE  LatencyFacts(RecordLatency(l, samples, reports[n].duration), n, samples, reports)
<1> DEFINE W == WindowSize(samples)
           m == IF n - 1 > W THEN W ELSE n - 1
           m2 == IF n > W THEN W ELSE n
           c == IF m >= W THEN m - 1 ELSE m
           v == reports[n].duration
           r == RecordLatency(l, samples, v)
<1>1. W \in Nat \ {0} /\ n \in Nat \ {0}
  BY WindowSizePositive, LenProperties
<1>2. v \in Nat
  <2>1. reports[n] \in Reports
    BY ElementOfSeq
  <2> QED
    BY <2>1 DEF Reports
<1>3. Len(l) = m /\ \A k \in 1..m : l[k] = reports[n - 1 - m + k].duration
  BY DEF LatencyFacts
<1>4. /\ r \in Seq(Nat) /\ Len(r) = c + 1 /\ r[c + 1] = v
      /\ \A k \in 1..c : r[k] = l[m - c + k]
  <2> DEFINE e == IF Len(l) >= WindowSize(samples) THEN Len(l) - 1 ELSE Len(l)
  <2>1. /\ r \in Seq(Nat) /\ Len(r) = e + 1 /\ r[e + 1] = v
        /\ \A k \in 1..e : r[k] = l[Len(l) - e + k]
    <3> HIDE DEF v
    <3> QED
      BY <1>2, RecordedLatencies
  <2>2. e = c /\ Len(l) = m
    BY <1>3
  <2> HIDE DEF v, r, e, c, m
  <2> QED
    BY <2>1, <2>2
<1> HIDE DEF W
<1>5. m \in Nat /\ c \in Nat /\ m2 = c + 1 /\ m2 <= n /\ c <= m /\ m <= n - 1
  BY <1>1
<1> HIDE DEF m, c, m2, r, v
<1>6. \A k \in 1..m2 : r[k] = reports[n - m2 + k].duration
  <2>1. TAKE k \in 1..m2
  <2>2. CASE k = c + 1
    <3>1. n - m2 + k = n
      BY <1>1, <1>5, <2>2
    <3> QED
      BY <1>4, <2>2, <3>1 DEF v
  <2>3. CASE k # c + 1
    <3>1. k \in 1..c /\ m - c + k \in 1..m /\ n - 1 - m + (m - c + k) = n - m2 + k
      BY <1>1, <1>5, <2>3
    <3> QED
      BY <1>3, <1>4, <3>1
  <2> QED
    BY <2>2, <2>3
<1> QED
  BY <1>4, <1>5, <1>6 DEF LatencyFacts, m2, W, r, v

\* So it is true at the end.
LEMMA LatenciesKnown ==
    ASSUME NEW samples \in Int, NEW reports \in Seq(Reports)
    PROVE  LatencyFacts(LatenciesAfter(samples, reports), Len(reports), samples, reports)
<1> DEFINE N == Len(reports)
           X == Seq(Nat)
           F == [p \in X \X (1..N) |-> RecordLatency(p[1], samples, reports[p[2]].duration)]
           body(g) == [n \in 0..N |->
                         IF n = 0 THEN <<>> ELSE RecordLatency(g[n - 1], samples, reports[n].duration)]
           d == CHOOSE g : g = body(g)
<1>1. N \in Nat /\ <<>> \in X /\ WindowSize(samples) \in Nat \ {0}
  BY LenProperties, EmptySeq, WindowSizePositive
<1>2. \A n \in 1..N : reports[n].duration \in Nat
  <2>1. \A n \in 1..N : reports[n] \in Reports
    BY ElementOfSeq
  <2> QED
    BY <2>1 DEF Reports
<1>3. \A l \in X, n \in 1..N : RecordLatency(l, samples, reports[n].duration) \in X
  BY <1>2, RecordedLatencies
<1>4. F \in [X \X (1..N) -> X]
  <2> HIDE DEF X, N
  <2> QED
    BY <1>3
<1>5. PICK g : g \in Histories(N, X, <<>>, F)
  <2> HIDE DEF F, N, X
  <2> QED
    BY <1>1, <1>4, HistoryExists
<1>6. g \in [0..N -> X] /\ g[0] = <<>> /\ \A n \in 1..N : g[n] = F[<<g[n - 1], n>>]
  BY <1>5 DEF Histories
<1>7. g = body(g)
  <2>1. \A n \in 1..N : n - 1 \in 0..N
    BY <1>1
  <2> HIDE DEF N, X
  <2>2. \A n \in 1..N : g[n] = RecordLatency(g[n - 1], samples, reports[n].duration)
    BY <1>6, <2>1
  <2> QED
    BY <1>1, <1>6, <2>2
<1>8. d = body(d)
  <2> HIDE DEF body
  <2> QED
    BY <1>7
<1>9. LatenciesAfter(samples, reports) = d[N]
  BY DEF LatenciesAfter
<1> HIDE DEF d
<1>10. d[0] = <<>> /\ \A n \in 1..N : d[n] = RecordLatency(d[n - 1], samples, reports[n].duration)
  <2> HIDE DEF N
  <2> QED
    BY <1>1, <1>8
<1> DEFINE S == {n \in 0..N : LatencyFacts(d[n], n, samples, reports)}
<1>11. 0 \in S
  <2>1. LatencyFacts(<<>>, 0, samples, reports)
    BY <1>1, EmptySeq DEF LatencyFacts
  <2> QED
    BY <1>1, <1>10, <2>1
<1>12. ASSUME NEW n \in 1..N, n - 1 \in S
       PROVE  n \in S
  <2>1. LatencyFacts(d[n - 1], n - 1, samples, reports) /\ d[n - 1] \in Seq(Nat)
    BY <1>12 DEF LatencyFacts
  <2>2. LatencyFacts(d[n], n, samples, reports)
    BY <1>10, <2>1, LatencyStep
  <2> QED
    BY <1>1, <2>2
<1>13. N \in S
  <2> HIDE DEF S, N
  <2>1. \A n \in 0..N : n \in S
    BY <1>1, <1>11, <1>12, BoundedInduction
  <2> QED
    BY <1>1, <2>1
<1> QED
  BY <1>9, <1>13

\* A sum lies between as many times a lower bound and as many times an upper one.
LEMMA TotalBounds ==
    ASSUME NEW l \in Seq(Nat), NEW lo \in Nat, NEW hi \in Nat,
           \A k \in 1..Len(l) : lo <= l[k] /\ l[k] <= hi
    PROVE  Total(l) \in Nat /\ lo * Len(l) <= Total(l) /\ Total(l) <= hi * Len(l)
<1> DEFINE N == Len(l)
           F == [p \in Nat \X (1..N) |-> p[1] + l[p[2]]]
           body(g) == [n \in 0..N |-> IF n = 0 THEN 0 ELSE g[n - 1] + l[n]]
           d == CHOOSE g : g = body(g)
<1>1. N \in Nat /\ \A n \in 1..N : l[n] \in Nat
  BY LenProperties, ElementOfSeq
<1>2. F \in [Nat \X (1..N) -> Nat]
  BY <1>1
<1>3. PICK g : g \in Histories(N, Nat, 0, F)
  <2> HIDE DEF F, N
  <2> QED
    BY <1>1, <1>2, HistoryExists
<1>4. g \in [0..N -> Nat] /\ g[0] = 0 /\ \A n \in 1..N : g[n] = F[<<g[n - 1], n>>]
  BY <1>3 DEF Histories
<1>5. g = body(g)
  <2>1. \A n \in 1..N : n - 1 \in 0..N
    BY <1>1
  <2> HIDE DEF N
  <2>2. \A n \in 1..N : g[n] = g[n - 1] + l[n]
    BY <1>4, <2>1
  <2> QED
    BY <1>1, <1>4, <2>2
<1>6. d = body(d)
  <2> HIDE DEF body
  <2> QED
    BY <1>5
<1>7. Total(l) = d[N]
  BY DEF Total
<1> HIDE DEF d
<1>8. d[0] = 0 /\ \A n \in 1..N : d[n] = d[n - 1] + l[n]
  <2> HIDE DEF N
  <2> QED
    BY <1>1, <1>6
<1> DEFINE S == {n \in 0..N : d[n] \in Nat /\ lo * n <= d[n] /\ d[n] <= hi * n}
<1>9. 0 \in S
  BY <1>1, <1>8
<1>10. ASSUME NEW n \in 1..N, n - 1 \in S
       PROVE  n \in S
  <2>1. d[n - 1] \in Nat /\ lo * (n - 1) <= d[n - 1] /\ d[n - 1] <= hi * (n - 1)
    BY <1>10
  <2>2. l[n] \in Nat /\ lo <= l[n] /\ l[n] <= hi /\ d[n] = d[n - 1] + l[n]
    BY <1>1, <1>8
  <2>3. lo * n = lo * (n - 1) + lo /\ hi * n = hi * (n - 1) + hi
        /\ lo * (n - 1) \in Int /\ hi * (n - 1) \in Int
    BY <1>1
  <2> DEFINE a == lo * (n - 1)
             b == hi * (n - 1)
             before == d[n - 1]
  <2> HIDE DEF a, b, before
  <2>4. d[n] \in Nat /\ a + lo <= d[n] /\ d[n] <= b + hi
    BY <2>1, <2>2, <2>3 DEF a, b, before
  <2>5. lo * n <= d[n] /\ d[n] <= hi * n
    BY <2>3, <2>4 DEF a, b
  <2> QED
    BY <1>1, <2>4, <2>5
<1>11. N \in S
  <2> HIDE DEF S, N
  <2>1. \A n \in 0..N : n \in S
    BY <1>1, <1>9, <1>10, BoundedInduction
  <2> QED
    BY <1>1, <2>1
<1> QED
  BY <1>7, <1>11


\* How many requests have failed in a row.
LEMMA StreakIsLongest ==
    ASSUME NEW reports \in Seq(Reports), NEW k \in 0..Len(reports),
           \A i \in (Len(reports) - k + 1)..Len(reports) : ~reports[i].ok,
           k < Len(reports) => reports[Len(reports) - k].ok
    PROVE  k = Max({n \in 0..Len(reports) :
                      \A i \in (Len(reports) - n + 1)..Len(reports) : ~reports[i].ok})
<1> DEFINE N == Len(reports)
           S == {n \in 0..N : \A i \in (N - n + 1)..N : ~reports[i].ok}
<1>1. N \in Nat
  BY LenProperties
<1>2. k \in S
  OBVIOUS
<1>3. ASSUME NEW n \in S, n > k
      PROVE  FALSE
  <2>1. N - k \in (N - n + 1)..N /\ k < N
    BY <1>1, <1>3
  <2> QED
    BY <1>3, <2>1
<1>4. \A n \in S : n \in Int /\ k \in Int /\ k >= n
  BY <1>1, <1>3
<1>5. \A x \in S : (\A n \in S : x >= n) => x = k
  <2> HIDE DEF S
  <2> QED
    BY <1>2, <1>4
<1> HIDE DEF S
<1>6. Max(S) = k
  BY <1>2, <1>4, <1>5 DEF Max
<1> QED
  BY <1>6 DEF S

\* Averages computed in place, with truncating division and a divisor that counts
\* failures too, stay among the durations they are averages of, and the status
\* shows the failures since the last success.
THEOREM AveragesAmongSamples ==
    \A samples \in Int, reports \in Seq(Reports) : AveragesWithinSamples(samples, reports)
<1> SUFFICES ASSUME NEW samples \in Int, NEW reports \in Seq(Reports)
             PROVE  AveragesWithinSamples(samples, reports)
  OBVIOUS
<1> DEFINE N == Len(reports)
           W == WindowSize(samples)
           good == {n \in DOMAIN reports : reports[n].ok}
           durations == {reports[n].duration : n \in good}
           kept == Latest(W, reports)
           latencies == {kept[n].duration : n \in DOMAIN kept}
           s == StatsAfter(reports)
           failing == {n \in 0..N : \A k \in (N - n + 1)..N : ~reports[k].ok}
           m == IF N > W THEN W ELSE N
<1>1. N \in Nat /\ W \in Nat \ {0} /\ DOMAIN reports = 1..N
  BY LenProperties, WindowSizePositive
<1>2. \A n \in 1..N : reports[n] \in Reports /\ reports[n].duration \in Nat
  <2>1. \A n \in 1..N : reports[n] \in Reports
    BY ElementOfSeq
  <2> QED
    BY <2>1 DEF Reports
<1>3. s \in Stats /\ StatsFacts(s, N, reports)
  BY StatsKnown
<1> DEFINE of == [n \in 1..N |-> reports[n].duration]
<1>4. of \in [1..N -> Int] /\ of \in [1..N -> Nat]
  BY <1>2
<1>5. good # {} => s.average \in Min(durations)..Max(durations)
  <2>1. SUFFICES ASSUME good # {} PROVE s.average \in Min(durations)..Max(durations)
    OBVIOUS
  <2>2. good = Good(reports, N)
    BY <1>1 DEF Good
  <2>3. good \in SUBSET (1..N)
    BY <1>1
  <2> HIDE DEF N, good, s
  <2>4. PICK a, b \in good : of[a] <= s.average /\ s.average <= of[b]
    BY <1>3, <2>1, <2>2, <2>3 DEF StatsFacts
  <2>5. durations = {of[n] : n \in good}
    BY <2>3
  <2> HIDE DEF of
  <2> DEFINE D == {of[n] : n \in good}
  <2>6. Min(D) \in D /\ (\A x \in D : Min(D) <= x) /\ Max(D) \in D /\ (\A x \in D : Max(D) >= x)
    BY <1>1, <1>4, <2>1, <2>3, Extremes
  <2>7. of[a] \in D /\ of[b] \in D /\ D \subseteq Int
    BY <1>4, <2>3
  <2> HIDE DEF D, durations
  <2>8. durations = D
    BY <2>5 DEF D
  <2>9. Min(D) <= s.average /\ s.average <= Max(D) /\ Min(D) \in Int /\ Max(D) \in Int
        /\ s.average \in Int
    <3>1. s.average \in Int
      BY <1>3 DEF Stats
    <3> DEFINE x == of[a]
               y == of[b]
               z == s.average
    <3>2. x \in D /\ y \in D /\ z \in Int /\ x <= z /\ z <= y
      BY <2>4, <2>7, <3>1
    <3> HIDE DEF x, y, z
    <3>3. Min(D) <= x /\ y <= Max(D) /\ Min(D) \in Int /\ Max(D) \in Int /\ x \in Int /\ y \in Int
      BY <2>6, <2>7, <3>2
    <3>4. Min(D) <= z /\ z <= Max(D)
      BY <3>2, <3>3
    <3> QED
      BY <3>1, <3>3, <3>4 DEF z
  <2> QED
    BY <2>8, <2>9
<1>6. /\ kept \in Seq(Reports) /\ Len(kept) = m /\ m \in Nat
      /\ \A k \in 1..m : kept[k] = reports[N - m + k]
  <2>1. m \in Nat
    BY <1>1
  <2> HIDE DEF W
  <2> QED
    BY <1>1, <2>1, LatestResults
<1>7. kept # <<>> => GetAverageLatency(LatenciesAfter(samples, reports))
                        \in Min(latencies)..Max(latencies)
  <2>1. SUFFICES ASSUME kept # <<>>
                 PROVE  GetAverageLatency(LatenciesAfter(samples, reports))
                           \in Min(latencies)..Max(latencies)
    OBVIOUS
  <2> DEFINE l == LatenciesAfter(samples, reports)
  <2>2. l \in Seq(Nat) /\ Len(l) = m /\ \A k \in 1..m : l[k] = reports[N - m + k].duration
    BY LatenciesKnown DEF LatencyFacts
  <2>3. m \in Nat \ {0}
    BY <1>6, <2>1, EmptySeq
  <2>4. DOMAIN kept = 1..m
    BY <1>6, LenProperties
  <2> HIDE DEF l, m, kept, N
  <2>5. latencies = {l[k] : k \in 1..m}
    BY <1>6, <2>2, <2>4
  <2> DEFINE D == {l[k] : k \in 1..m}
  <2>6. l \in [1..m -> Int] /\ l \in [1..m -> Nat]
    BY <2>2, LenProperties
  <2>7. Min(D) \in D /\ (\A x \in D : Min(D) <= x) /\ Max(D) \in D /\ (\A x \in D : Max(D) >= x)
    <3>1. 1 \in 1..m /\ 1..m \in SUBSET (1..m)
      BY <2>3
    <3> QED
      BY <2>3, <2>6, <3>1, Extremes
  <2>8. D \subseteq Nat /\ \A k \in 1..m : l[k] \in D
    BY <2>6
  <2> DEFINE lo == Min(D)
             hi == Max(D)
  <2> HIDE DEF D
  <2>9. lo \in Nat /\ hi \in Nat /\ \A k \in 1..Len(l) : lo <= l[k] /\ l[k] <= hi
    BY <2>2, <2>7, <2>8
  <2> HIDE DEF lo, hi
  <2>10. Total(l) \in Nat /\ lo * m <= Total(l) /\ Total(l) <= hi * m
    BY <2>2, <2>9, TotalBounds
  <2> DEFINE t == Total(l)
             q == t \div m
  <2> HIDE DEF t
  <2>11. t \in Nat /\ lo * m <= t /\ t <= hi * m
    BY <2>10 DEF t
  <2>12. q \in Nat /\ m * q <= t /\ t < m * q + m
    BY <2>3, <2>11, DivBounds
  <2> HIDE DEF q
  <2>13. lo <= q
    <3>1. SUFFICES ASSUME q + 1 <= lo PROVE FALSE
      BY <2>9, <2>12
    <3>2. m * (q + 1) <= m * lo
      BY <2>3, <2>9, <2>12, <3>1
    <3>3. m * (q + 1) = m * q + m /\ m * lo = lo * m
      BY <2>3, <2>9, <2>12
    <3> QED
      BY <2>3, <2>9, <2>11, <2>12, <3>2, <3>3
  <2>14. q <= hi
    <3>1. SUFFICES ASSUME hi + 1 <= q PROVE FALSE
      BY <2>9, <2>12
    <3>2. m * (hi + 1) <= m * q
      BY <2>3, <2>9, <2>12, <3>1
    <3>3. m * (hi + 1) = hi * m + m
      BY <2>3, <2>9
    <3> QED
      BY <2>3, <2>9, <2>11, <2>12, <3>2, <3>3
  <2>15. l # <<>> /\ GetAverageLatency(l) = q
    <3>1. l # <<>>
      BY <2>2, <2>3, EmptySeq
    <3> QED
      BY <2>2, <3>1 DEF GetAverageLatency, q, t
  <2>16. GetAverageLatency(l) \in lo..hi
    BY <2>9, <2>12, <2>13, <2>14, <2>15
  <2>17. latencies = D
    BY <2>5 DEF D
  <2> QED
    BY <2>16, <2>17 DEF lo, hi, l
<1>8. s.total = s.good + s.bad
  BY <1>3 DEF StatsFacts
<1>9. s.streak = Max(failing) /\ s.streak \in Nat
  <2>1. /\ s.streak \in 0..N
        /\ \A k \in (N - s.streak + 1)..N : ~reports[k].ok
        /\ s.streak < N => reports[N - s.streak].ok
    BY <1>3 DEF StatsFacts
  <2> DEFINE k == s.streak
  <2>2. k \in 0..N
    BY <2>1
  <2> HIDE DEF s
  <2>3. k = Max(failing)
    BY <2>1, <2>2, StreakIsLongest
  <2> QED
    BY <2>2, <2>3
<1> DEFINE f == Max(failing)
<1>10. GetStatus(s, TRUE) = CASE f >= 3 -> "unhealthy"
                              [] f \in 1..2 -> "suspect"
                              [] f = 0 -> "healthy"
  <2> HIDE DEF f, s, failing
  <2>1. s.streak = f /\ f \in Nat
    BY <1>9 DEF f
  <2>2. CASE f >= 3
    BY <2>1, <2>2 DEF GetStatus
  <2>3. CASE f \in 1..2
    BY <2>1, <2>3 DEF GetStatus
  <2>4. CASE f = 0
    BY <2>1, <2>4 DEF GetStatus
  <2>5. f >= 3 \/ f \in 1..2 \/ f = 0
    BY <2>1
  <2> QED
    BY <2>2, <2>3, <2>4, <2>5
<1> QED
  BY <1>5, <1>7, <1>8, <1>10 DEF AveragesWithinSamples

-----------------------------------------------------------------------------
(***************************************************************************)
(* Selection: lists that are filtered, chained and sorted.                 *)
(***************************************************************************)
\* What Keep builds on its way.
KeepRuns(X, list, S) ==
    {d \in [0..Len(list) -> Seq(X)] :
        /\ d[0] = <<>>
        /\ \A n \in 1..Len(list) :
              d[n] = IF list[n] \in S THEN Append(d[n - 1], list[n]) ELSE d[n - 1]
        /\ Keep(list, S) = d[Len(list)]}

\* They exist.
LEMMA KeepHistory ==
    ASSUME NEW X, NEW list \in Seq(X), NEW S
    PROVE  KeepRuns(X, list, S) # {}
<1> DEFINE N == Len(list)
           Y == Seq(X)
           step(x, n) == IF list[n] \in S THEN Append(x, list[n]) ELSE x
           F == [p \in Y \X (1..N) |-> step(p[1], p[2])]
           body(g) == [n \in 0..N |-> IF n = 0 THEN <<>> ELSE step(g[n - 1], n)]
           d == CHOOSE g : g = body(g)
<1>1. N \in Nat /\ \A n \in 1..N : list[n] \in X
  BY LenProperties, ElementOfSeq
<1>2. \A x \in Y, n \in 1..N : step(x, n) \in Y
  BY <1>1, AppendProperties
<1>3. <<>> \in Y
  BY EmptySeq
<1> HIDE DEF N, Y, step
<1>4. F \in [Y \X (1..N) -> Y]
  BY <1>2
<1>5. PICK g : g \in Histories(N, Y, <<>>, F)
  <2> HIDE DEF F
  <2> QED
    BY <1>1, <1>3, <1>4, HistoryExists
<1>6. g \in [0..N -> Y] /\ g[0] = <<>> /\ \A n \in 1..N : g[n] = F[<<g[n - 1], n>>]
  BY <1>5 DEF Histories
<1>7. \A n \in 1..N : n - 1 \in 0..N
  BY <1>1
<1>8. \A n \in 1..N : g[n] = step(g[n - 1], n)
  BY <1>6, <1>7
<1>9. g = body(g)
  BY <1>1, <1>6, <1>8
<1>10. d = body(d)
  <2> HIDE DEF body
  <2> QED
    BY <1>9
<1>11. Keep(list, S) = d[N]
  BY DEF Keep, N, step
<1> HIDE DEF d
<1>12. d[0] = <<>> /\ \A n \in 1..N : d[n] = step(d[n - 1], n)
  BY <1>1, <1>10
<1> DEFINE T == {n \in 0..N : d[n] \in Y}
<1>13. \A n \in 0..N : n \in T
  <2>1. 0 \in T
    BY <1>1, <1>3, <1>12
  <2>2. \A n \in 1..N : n - 1 \in T => n \in T
    BY <1>1, <1>2, <1>12
  <2> HIDE DEF T
  <2> QED
    BY <1>1, <2>1, <2>2, BoundedInduction
<1>14. d \in [0..N -> Y]
  BY <1>10, <1>13
<1> QED
  BY <1>11, <1>12, <1>14 DEF N, Y, step, KeepRuns

\* What is kept of a list is a list of the same elements.
LEMMA KeepType ==
    ASSUME NEW X, NEW list \in Seq(X), NEW S
    PROVE  Keep(list, S) \in Seq(X)
<1>1. PICK d \in [0..Len(list) -> Seq(X)] : Keep(list, S) = d[Len(list)]
  BY KeepHistory DEF KeepRuns
<1>2. Len(list) \in 0..Len(list)
  BY LenProperties
<1> QED
  BY <1>1, <1>2

\* Nothing is kept of nothing.
LEMMA KeepEmpty == \A S : Keep(<<>>, S) = <<>>
<1> TAKE S
<1>1. <<>> \in Seq({}) /\ Len(<<>>) = 0
  BY EmptySeq
<1> DEFINE empty == <<>>
<1>2. empty \in Seq({}) /\ Len(empty) = 0
  BY <1>1
<1> HIDE DEF empty
<1>3. PICK d : d \in KeepRuns({}, empty, S)
  BY <1>2, KeepHistory
<1>4. d[0] = <<>> /\ Keep(empty, S) = d[Len(empty)]
  BY <1>3 DEF KeepRuns
<1> QED
  BY <1>2, <1>4 DEF empty

\* The last element is kept if it is accepted.
LEMMA KeepAppend ==
    ASSUME NEW X, NEW list \in Seq(X), NEW x \in X, NEW S
    PROVE  /\ x \in S => Keep(Append(list, x), S) = Append(Keep(list, S), x)
           /\ x \notin S => Keep(Append(list, x), S) = Keep(list, S)
<1> DEFINE more == Append(list, x)
           N == Len(list)
<1>1. /\ more \in Seq(X) /\ Len(more) = N + 1 /\ N \in Nat
      /\ more[N + 1] = x /\ \A n \in 1..N : more[n] = list[n]
  BY AppendProperties, LenProperties
<1> HIDE DEF more
<1>2. PICK d : d \in KeepRuns(X, list, S)
  BY KeepHistory
<1>3. PICK e : e \in KeepRuns(X, more, S)
  BY <1>1, KeepHistory
<1>8. /\ d[0] = <<>> /\ Keep(list, S) = d[N]
      /\ \A n \in 1..N : d[n] = IF list[n] \in S THEN Append(d[n - 1], list[n]) ELSE d[n - 1]
  BY <1>2 DEF KeepRuns
<1>9. /\ e[0] = <<>> /\ Keep(more, S) = e[N + 1]
      /\ \A n \in 1..(N + 1) :
            e[n] = IF more[n] \in S THEN Append(e[n - 1], more[n]) ELSE e[n - 1]
  BY <1>1, <1>3 DEF KeepRuns
<1> HIDE DEF N
<1> DEFINE T == {n \in 0..N : d[n] = e[n]}
<1>4. \A n \in 0..N : n \in T
  <2>1. 0 \in T
    BY <1>1, <1>8, <1>9
  <2>2. ASSUME NEW n \in 1..N, n - 1 \in T
        PROVE  n \in T
    <3>1. n \in 0..N /\ n \in 1..(N + 1) /\ d[n - 1] = e[n - 1] /\ more[n] = list[n]
      BY <1>1, <2>2
    <3>2. e[n] = IF more[n] \in S THEN Append(e[n - 1], more[n]) ELSE e[n - 1]
      BY <1>9, <3>1
    <3>3. d[n] = IF list[n] \in S THEN Append(d[n - 1], list[n]) ELSE d[n - 1]
      BY <1>8
    <3> QED
      BY <3>1, <3>2, <3>3
  <2> HIDE DEF T
  <2> QED
    BY <1>1, <2>1, <2>2, BoundedInduction
<1>5. N \in 0..N /\ N + 1 \in 1..(N + 1) /\ (N + 1) - 1 = N
  BY <1>1
<1>6. Keep(list, S) = e[N]
  BY <1>8, <1>4, <1>5
<1>7. e[N + 1] = IF x \in S THEN Append(e[N], x) ELSE e[N]
  BY <1>1, <1>9, <1>5
<1>10. x \in S => Keep(more, S) = Append(Keep(list, S), x)
  BY <1>9, <1>6, <1>7
<1>11. x \notin S => Keep(more, S) = Keep(list, S)
  BY <1>9, <1>6, <1>7
<1> QED
  BY <1>10, <1>11 DEF more

\* The set of a sequence, one element at a time.
LEMMA ToSetAppend ==
    ASSUME NEW X, NEW s \in Seq(X), NEW x \in X
    PROVE  /\ ToSet(<<>>) = {} /\ ToSet(s) \subseteq X
           /\ ToSet(Append(s, x)) = ToSet(s) \union {x}
<1>1. ToSet(<<>>) = {}
  BY DEF ToSet
<1>2. ToSet(s) \subseteq X
  BY LenProperties, ElementOfSeq DEF ToSet
<1>3. ToSet(Append(s, x)) = ToSet(s) \union {x}
  <2> DEFINE t == Append(s, x)
             N == Len(s)
  <2>1. /\ N \in Nat /\ DOMAIN s = 1..N /\ DOMAIN t = 1..(N + 1)
        /\ t[N + 1] = x /\ \A n \in 1..N : t[n] = s[n]
    BY AppendProperties, LenProperties
  <2> HIDE DEF t, N
  <2>2. 1..(N + 1) = (1..N) \union {N + 1}
    BY <2>1
  <2>3. ToSet(t) = {t[i] : i \in (1..N) \union {N + 1}} /\ ToSet(s) = {s[i] : i \in 1..N}
    BY <2>1, <2>2 DEF ToSet
  <2> QED
    BY <2>1, <2>3 DEF t
<1> QED
  BY <1>1, <1>2, <1>3

\* Only the elements of the list matter.
LEMMA KeepSame ==
    ASSUME NEW X, NEW S, NEW T
    PROVE  \A s \in Seq(X) : S \cap ToSet(s) = T \cap ToSet(s) => Keep(s, S) = Keep(s, T)
<1> DEFINE Q == {s \in Seq(X) : S \cap ToSet(s) = T \cap ToSet(s) => Keep(s, S) = Keep(s, T)}
<1>1. <<>> \in Q
  BY KeepEmpty, EmptySeq
<1>2. ASSUME NEW s \in Seq(X), NEW x \in X, s \in Q
      PROVE  Append(s, x) \in Q
  <2>1. Append(s, x) \in Seq(X)
    BY AppendProperties
  <2>2. SUFFICES ASSUME S \cap ToSet(Append(s, x)) = T \cap ToSet(Append(s, x))
                 PROVE  Keep(Append(s, x), S) = Keep(Append(s, x), T)
    BY <2>1
  <2>3. ToSet(Append(s, x)) = ToSet(s) \union {x}
    BY ToSetAppend
  <2>4. (x \in S <=> x \in T) /\ S \cap ToSet(s) = T \cap ToSet(s)
    BY <2>2, <2>3
  <2>5. Keep(s, S) = Keep(s, T)
    BY <1>2, <2>4
  <2>6. CASE x \in S
    <3>1. Keep(Append(s, x), S) = Append(Keep(s, S), x)
      BY <2>6, KeepAppend, Zenon
    <3>2. Keep(Append(s, x), T) = Append(Keep(s, T), x)
      BY <2>4, <2>6, KeepAppend, Zenon
    <3> QED
      BY <2>5, <3>1, <3>2, Zenon
  <2>7. CASE x \notin S
    BY <2>4, <2>5, <2>7, KeepAppend, Zenon
  <2> QED
    BY <2>6, <2>7
<1>3. \A s \in Seq(X) : s \in Q
  <2> HIDE DEF Q
  <2> QED
    BY <1>1, <1>2, SequenceInduction
<1> QED
  BY <1>3

\* What is kept twice is what both keep.
LEMMA KeepTwice ==
    ASSUME NEW X, NEW S, NEW T
    PROVE  \A s \in Seq(X) : Keep(Keep(s, S), T) = Keep(s, S \cap T)
<1> DEFINE Q == {s \in Seq(X) : Keep(Keep(s, S), T) = Keep(s, S \cap T)}
<1>1. <<>> \in Q
  BY KeepEmpty, EmptySeq
<1>2. ASSUME NEW s \in Seq(X), NEW x \in X, s \in Q
      PROVE  Append(s, x) \in Q
  <2>1. Append(s, x) \in Seq(X) /\ Keep(s, S) \in Seq(X)
    BY AppendProperties, KeepType
  <2>2. Keep(Keep(s, S), T) = Keep(s, S \cap T)
    BY <1>2
  <2>6. SUFFICES Keep(Keep(Append(s, x), S), T) = Keep(Append(s, x), S \cap T)
    BY <2>1
  <2> HIDE DEF Q
  <2>3. CASE x \notin S
    <3>1. x \notin S \cap T
      BY <2>3
    <3>2. Keep(Append(s, x), S) = Keep(s, S)
      BY <2>3, KeepAppend, Zenon
    <3>3. Keep(Append(s, x), S \cap T) = Keep(s, S \cap T)
      BY <3>1, KeepAppend, Zenon
    <3> QED
      BY <2>2, <3>2, <3>3, Zenon
  <2>4. CASE x \in S /\ x \notin T
    <3>1. x \notin S \cap T
      BY <2>4
    <3>2. Keep(Append(Keep(s, S), x), T) = Keep(Keep(s, S), T)
      BY <2>1, <2>4, KeepAppend, Zenon
    <3>3. Keep(Append(s, x), S) = Append(Keep(s, S), x)
      BY <2>4, KeepAppend, Zenon
    <3>4. Keep(Append(s, x), S \cap T) = Keep(s, S \cap T)
      BY <3>1, KeepAppend, Zenon
    <3> QED
      BY <2>2, <3>2, <3>3, <3>4, Zenon
  <2>5. CASE x \in S /\ x \in T
    <3>1. x \in S \cap T
      BY <2>5
    <3>2. Keep(Append(Keep(s, S), x), T) = Append(Keep(Keep(s, S), T), x)
      BY <2>1, <2>5, KeepAppend, Zenon
    <3>3. Keep(Append(s, x), S) = Append(Keep(s, S), x)
      BY <2>5, KeepAppend, Zenon
    <3>4. Keep(Append(s, x), S \cap T) = Append(Keep(s, S \cap T), x)
      BY <3>1, KeepAppend, Zenon
    <3> QED
      BY <2>2, <3>2, <3>3, <3>4, Zenon
  <2> QED
    BY <2>3, <2>4, <2>5
<1>3. \A s \in Seq(X) : s \in Q
  <2> HIDE DEF Q
  <2> QED
    BY <1>1, <1>2, SequenceInduction
<1> QED
  BY <1>3

\* What is kept of the elements of a list, and when that is nothing.
LEMMA KeepSet ==
    ASSUME NEW X, NEW S
    PROVE  \A s \in Seq(X) : /\ ToSet(Keep(s, S)) = ToSet(s) \cap S
                             /\ Keep(s, S) = <<>> <=> ToSet(s) \cap S = {}
<1> DEFINE Q == {s \in Seq(X) : /\ ToSet(Keep(s, S)) = ToSet(s) \cap S
                                /\ Keep(s, S) = <<>> <=> ToSet(s) \cap S = {}}
<1>1. <<>> \in Q
  BY KeepEmpty, EmptySeq, ToSetAppend DEF ToSet
<1>2. ASSUME NEW s \in Seq(X), NEW x \in X, s \in Q
      PROVE  Append(s, x) \in Q
  <2>1. Append(s, x) \in Seq(X) /\ Keep(s, S) \in Seq(X)
    BY AppendProperties, KeepType
  <2>3. ToSet(Append(s, x)) = ToSet(s) \union {x}
    BY ToSetAppend
  <2>4. ToSet(Append(Keep(s, S), x)) = ToSet(Keep(s, S)) \union {x}
    BY <2>1, ToSetAppend
  <2>5. Append(Keep(s, S), x) # <<>>
    BY <2>1, AppendProperties
  <2>6. CASE x \in S
    <3>1. Keep(Append(s, x), S) = Append(Keep(s, S), x)
      BY <2>6, KeepAppend
    <3>2. ToSet(Keep(Append(s, x), S)) = ToSet(Append(s, x)) \cap S
      BY <1>2, <2>3, <2>4, <2>6, <3>1
    <3>3. ToSet(Append(s, x)) \cap S # {}
      BY <2>3, <2>6
    <3> QED
      BY <2>1, <2>5, <3>1, <3>2, <3>3
  <2>7. CASE x \notin S
    <3>1. Keep(Append(s, x), S) = Keep(s, S)
      BY <2>7, KeepAppend
    <3>2. ToSet(Append(s, x)) \cap S = ToSet(s) \cap S
      BY <2>3, <2>7
    <3> QED
      BY <1>2, <2>1, <3>1, <3>2
  <2> QED
    BY <2>6, <2>7
<1>3. \A s \in Seq(X) : s \in Q
  <2> HIDE DEF Q
  <2> QED
    BY <1>1, <1>2, SequenceInduction
<1> QED
  BY <1>3

\* A list of accepted elements is kept as it is.
LEMMA KeepAll ==
    ASSUME NEW X, NEW S
    PROVE  \A s \in Seq(X) : ToSet(s) \subseteq S => Keep(s, S) = s
<1> DEFINE Q == {s \in Seq(X) : ToSet(s) \subseteq S => Keep(s, S) = s}
<1>1. <<>> \in Q
  BY KeepEmpty, EmptySeq
<1>2. ASSUME NEW s \in Seq(X), NEW x \in X, s \in Q
      PROVE  Append(s, x) \in Q
  <2>1. Append(s, x) \in Seq(X) /\ ToSet(Append(s, x)) = ToSet(s) \union {x}
    BY AppendProperties, ToSetAppend
  <2>2. SUFFICES ASSUME ToSet(Append(s, x)) \subseteq S
                 PROVE  Keep(Append(s, x), S) = Append(s, x)
    BY <2>1
  <2>3. x \in S /\ Keep(s, S) = s
    BY <1>2, <2>1, <2>2
  <2> HIDE DEF Q
  <2>4. Keep(Append(s, x), S) = Append(Keep(s, S), x)
    BY <2>3, KeepAppend, Zenon
  <2> QED
    BY <2>3, <2>4, Zenon
<1>3. \A s \in Seq(X) : s \in Q
  <2> HIDE DEF Q
  <2> QED
    BY <1>1, <1>2, SequenceInduction
<1> QED
  BY <1>3

-----------------------------------------------------------------------------
\* The routers of router.go.
RouterKinds == {"default", "tag", "weight", "version"}

\* The group the routers of a sample know, and its last good configuration.
Groups(config, update) == [n \in {"canary"} |-> UpdateConfig(NewGroup(config), update)]
Configs(config, update) ==
    [c \in {"canary"} |-> IF CreateMatcher(update) = None THEN config ELSE update]

\* An update that fails leaves the group's configuration and matcher together.
LEMMA GroupAnswers ==
    ASSUME NEW config, NEW update
    PROVE  /\ UpdateConfig(NewGroup(config), update).config = Configs(config, update)["canary"]
           /\ UpdateConfig(NewGroup(config), update).matcher =
                 CreateMatcher(Configs(config, update)["canary"])
<1>1. CASE CreateMatcher(update) = None
  BY <1>1 DEF UpdateConfig, NewGroup, Configs
<1>2. CASE CreateMatcher(update) # None
  BY <1>2 DEF UpdateConfig, NewGroup, Configs
<1> QED
  BY <1>1, <1>2

\* One router is a filter.
LEMMA RouteIsFilter ==
    ASSUME NEW X, NEW list \in Seq(X), NEW r, r.kind \in RouterKinds,
           NEW config, NEW update, NEW wanted
    PROVE  Route(r, Groups(config, update), wanted, list) =
             Keep(list, {i \in ToSet(list) : Accepts(r, Configs(config, update), wanted, i)})
<1> DEFINE groups == Groups(config, update)
           configs == Configs(config, update)
           S == {i \in ToSet(list) : Accepts(r, configs, wanted, i)}
<1>0. /\ DOMAIN groups = {"canary"} /\ DOMAIN configs = {"canary"}
      /\ groups["canary"].matcher = CreateMatcher(configs["canary"])
  BY GroupAnswers DEF Groups, Configs
<1> HIDE DEF groups, configs
<1>1. CASE r.kind = "tag"
  <2>1. \A i : Accepts(r, configs, wanted, i) <=> HasValue(i, r.key, r.value)
    BY <1>1 DEF Accepts
  <2>2. Route(r, groups, wanted, list) =
          Keep(list, {i \in ToSet(list) : HasValue(i, r.key, r.value)})
    BY <1>1 DEF Route
  <2>3. S = {i \in ToSet(list) : HasValue(i, r.key, r.value)}
    BY <2>1
  <2> QED
    BY <2>2, <2>3 DEF groups, configs
<1>2. CASE r.kind = "weight"
  <2>1. \A i : Accepts(r, configs, wanted, i) <=> HeavyEnough(r, i)
    BY <1>2 DEF Accepts
  <2>2. Route(r, groups, wanted, list) = Keep(list, {i \in ToSet(list) : HeavyEnough(r, i)})
    BY <1>2 DEF Route
  <2>3. S = {i \in ToSet(list) : HeavyEnough(r, i)}
    BY <2>1
  <2> QED
    BY <2>2, <2>3 DEF groups, configs
<1>3. CASE r.kind = "version"
  <2>1. \A i : Accepts(r, configs, wanted, i) <=> i.version = r.version
    BY <1>3 DEF Accepts
  <2>2. Route(r, groups, wanted, list) = Keep(list, {i \in ToSet(list) : i.version = r.version})
    BY <1>3 DEF Route
  <2>3. S = {i \in ToSet(list) : i.version = r.version}
    BY <2>1
  <2> QED
    BY <2>2, <2>3 DEF groups, configs
<1>4. CASE r.kind = "default"
  <2>1. \A i : Accepts(r, configs, wanted, i) <=>
                  \/ wanted = None
                  \/ wanted \in DOMAIN configs /\ Match(CreateMatcher(configs[wanted]), i)
    BY <1>4 DEF Accepts
  <2>2. Route(r, groups, wanted, list) = DefaultRoute(groups, wanted, list)
    BY <1>4 DEF Route
  <2>3. DefaultRoute(groups, wanted, list) = Keep(list, S)
    <3>1. CASE wanted = None
      <4>1. DefaultRoute(groups, wanted, list) = list
        BY <3>1 DEF DefaultRoute
      <4>2. ToSet(list) \subseteq S
        BY <2>1, <3>1
      <4> HIDE DEF S
      <4> QED
        BY <4>1, <4>2, KeepAll
    <3>2. CASE wanted # None /\ wanted \notin DOMAIN groups
      <4>1. DefaultRoute(groups, wanted, list) = <<>>
        BY <3>2 DEF DefaultRoute
      <4>2. ToSet(list) \cap S = {}
        BY <1>0, <2>1, <3>2
      <4> HIDE DEF S
      <4> QED
        BY <4>1, <4>2, KeepSet
    <3>3. CASE wanted # None /\ wanted \in DOMAIN groups
      <4>1. DefaultRoute(groups, wanted, list) = GroupSelect(groups[wanted], list)
        BY <3>3 DEF DefaultRoute
      <4>2. wanted = "canary"
        BY <1>0, <3>3
      <4>3. S = {i \in ToSet(list) : Match(groups[wanted].matcher, i)}
        BY <1>0, <2>1, <3>3, <4>2
      <4> QED
        BY <4>1, <4>3 DEF GroupSelect
    <3> QED
      BY <3>1, <3>2, <3>3
  <2> QED
    BY <2>2, <2>3 DEF groups, configs
<1> QED
  BY <1>1, <1>2, <1>3, <1>4 DEF RouterKinds

\* What RouteChain leaves on its way.
ChainRuns(X, routers, groups, wanted, list) ==
    {d \in [0..Len(routers) -> Seq(X)] :
        /\ d[0] = list
        /\ \A n \in 1..Len(routers) :
              d[n] = IF d[n - 1] = <<>> THEN <<>> ELSE Route(routers[n], groups, wanted, d[n - 1])
        /\ RouteChain(routers, groups, wanted, list) = d[Len(routers)]}

\* It exists when every router gives a list.
LEMMA ChainHistory ==
    ASSUME NEW X, NEW list \in Seq(X), NEW routers, Len(routers) \in Nat, NEW groups, NEW wanted,
           \A n \in 1..Len(routers), now \in Seq(X) :
              Route(routers[n], groups, wanted, now) \in Seq(X)
    PROVE  ChainRuns(X, routers, groups, wanted, list) # {}
<1> DEFINE N == Len(routers)
           Y == Seq(X)
           step(x, n) == IF x = <<>> THEN <<>> ELSE Route(routers[n], groups, wanted, x)
           F == [p \in Y \X (1..N) |-> step(p[1], p[2])]
           body(g) == [n \in 0..N |-> IF n = 0 THEN list ELSE step(g[n - 1], n)]
           d == CHOOSE g : g = body(g)
<1>2. \A x \in Y, n \in 1..N : step(x, n) \in Y
  BY EmptySeq
<1> HIDE DEF step
<1>11. RouteChain(routers, groups, wanted, list) = d[N]
  BY DEF RouteChain, step
<1>1. N \in Nat /\ list \in Y
  OBVIOUS
<1> HIDE DEF N, Y
<1>4. F \in [Y \X (1..N) -> Y]
  BY <1>2
<1>5. PICK g : g \in Histories(N, Y, list, F)
  <2> HIDE DEF F
  <2> QED
    BY <1>1, <1>4, HistoryExists
<1>6. g \in [0..N -> Y] /\ g[0] = list /\ \A n \in 1..N : g[n] = F[<<g[n - 1], n>>]
  BY <1>5 DEF Histories
<1>7. \A n \in 1..N : n - 1 \in 0..N
  BY <1>1
<1>8. \A n \in 1..N : g[n] = step(g[n - 1], n)
  BY <1>6, <1>7
<1>9. g = body(g)
  BY <1>1, <1>6, <1>8
<1>10. d = body(d)
  <2> HIDE DEF body
  <2> QED
    BY <1>9
<1> HIDE DEF d
<1>12. d[0] = list /\ \A n \in 1..N : d[n] = step(d[n - 1], n)
  BY <1>1, <1>10
<1> DEFINE T == {n \in 0..N : d[n] \in Y}
<1>13. \A n \in 0..N : n \in T
  <2>1. 0 \in T
    BY <1>1, <1>12
  <2>2. \A n \in 1..N : n - 1 \in T => n \in T
    BY <1>1, <1>2, <1>12
  <2> HIDE DEF T
  <2> QED
    BY <1>1, <2>1, <2>2, BoundedInduction
<1>14. d \in [0..N -> Y]
  BY <1>10, <1>13
<1> QED
  BY <1>11, <1>12, <1>14 DEF N, Y, step, ChainRuns

\* A chain is the filter of all its routers.
LEMMA ChainIsFilter ==
    ASSUME NEW X, NEW list \in Seq(X), NEW R, NEW routers \in Seq(R),
           \A r \in R : r.kind \in RouterKinds,
           NEW config, NEW update, NEW wanted
    PROVE  RouteChain(routers, Groups(config, update), wanted, list) =
             Keep(list, {i \in ToSet(list) : \A n \in 1..Len(routers) :
                           Accepts(routers[n], Configs(config, update), wanted, i)})
<1> DEFINE N == Len(routers)
           groups == Groups(config, update)
           configs == Configs(config, update)
           taken(n) == {i \in ToSet(list) : \A m \in 1..n : Accepts(routers[m], configs, wanted, i)}
           one(n, now) == {i \in ToSet(now) : Accepts(routers[n], configs, wanted, i)}
<1>1. N \in Nat /\ \A n \in 1..N : routers[n].kind \in RouterKinds
  BY LenProperties, ElementOfSeq
<1>2. \A n \in 1..N, now \in Seq(X) :
         Route(routers[n], groups, wanted, now) = Keep(now, one(n, now))
  <2>1. TAKE n \in 1..N, now \in Seq(X)
  <2> DEFINE r == routers[n]
  <2>2. r.kind \in RouterKinds
    BY <1>1
  <2> HIDE DEF r
  <2>3. Route(r, groups, wanted, now) =
          Keep(now, {i \in ToSet(now) : Accepts(r, configs, wanted, i)})
    BY <2>2, RouteIsFilter
  <2> QED
    BY <2>3 DEF r
<1>3. \A n \in 1..N, now \in Seq(X) : Route(routers[n], groups, wanted, now) \in Seq(X)
  <2> HIDE DEF one, groups, N
  <2> QED
    BY <1>2, KeepType
<1>4. PICK d : d \in ChainRuns(X, routers, groups, wanted, list)
  <2> HIDE DEF groups
  <2> QED
    BY <1>1, <1>3, ChainHistory
<1>5. /\ d \in [0..N -> Seq(X)] /\ d[0] = list
      /\ \A n \in 1..N :
            d[n] = IF d[n - 1] = <<>> THEN <<>> ELSE Route(routers[n], groups, wanted, d[n - 1])
      /\ RouteChain(routers, groups, wanted, list) = d[N]
  BY <1>4 DEF ChainRuns
<1> DEFINE T == {n \in 0..N : d[n] = Keep(list, taken(n))}
<1>6. \A n \in 0..N : n \in T
  <2>1. 0 \in T
    <3>1. 0 \in 0..N
      BY <1>1
    <3>2. taken(0) = ToSet(list)
      OBVIOUS
    <3> DEFINE S == taken(0)
    <3>3. S = ToSet(list)
      BY <3>2
    <3> HIDE DEF S
    <3>4. Keep(list, S) = list
      BY <3>3, KeepAll
    <3> QED
      BY <1>5, <3>1, <3>4 DEF S
  <2>2. ASSUME NEW n \in 1..N, n - 1 \in T
        PROVE  n \in T
    <3> DEFINE now == d[n - 1]
               S == taken(n - 1)
               A == one(n, now)
               U == taken(n)
    <3>1. n \in 0..N /\ n - 1 \in 0..N
      BY <1>1
    <3>2. now = Keep(list, S) /\ now \in Seq(X)
      BY <1>5, <2>2, <3>1
    <3>3. d[n] = Keep(now, A)
      <4> HIDE DEF A
      <4>1. Keep(<<>>, A) = <<>>
        BY KeepEmpty
      <4>2. Route(routers[n], groups, wanted, now) = Keep(now, A)
        BY <1>2, <3>2 DEF A
      <4>3. d[n] = IF now = <<>> THEN <<>> ELSE Route(routers[n], groups, wanted, now)
        BY <1>5
      <4> HIDE DEF now
      <4> QED
        BY <4>1, <4>2, <4>3
    <3>4. Keep(now, A) = Keep(list, S \cap A)
      <4> HIDE DEF A, S, now
      <4> QED
        BY <3>2, KeepTwice
    <3>5. S \cap A = U
      <4>1. ToSet(now) = ToSet(list) \cap S
        <5> HIDE DEF S, now
        <5> QED
          BY <3>2, KeepSet
      <4>2. 1..n = (1..(n - 1)) \union {n}
        BY <1>1
      <4> QED
        BY <4>1, <4>2
    <3> QED
      BY <3>1, <3>3, <3>4, <3>5
  <2> HIDE DEF T
  <2> QED
    BY <1>1, <2>1, <2>2, BoundedInduction
<1>7. N \in T
  <2>1. N \in 0..N
    BY <1>1
  <2> QED
    BY <1>6, <2>1
<1>8. d[N] = Keep(list, taken(N))
  BY <1>7
<1> QED
  BY <1>5, <1>8

\* A chain of routers is a filter whatever its routers, the group's configurations
\* and the list.
LEMMA RoutersFilter ==
    ASSUME NEW R, \A r \in R : r.kind \in RouterKinds, NEW X,
           NEW routers \in Seq(R), NEW list \in Seq(X), NEW config, NEW update, NEW wanted
    PROVE  RoutesAreFilters(routers, config, update, wanted, list)
<1>1. DOMAIN routers = 1..Len(routers)
  BY LenProperties
<1>2. RouteChain(routers, Groups(config, update), wanted, list) =
        Keep(list, {i \in ToSet(list) : \A n \in DOMAIN routers :
                      Accepts(routers[n], Configs(config, update), wanted, i)})
  BY <1>1, ChainIsFilter
<1>3. UpdateConfig(NewGroup(config), update).config =
        IF CreateMatcher(update) = None THEN config ELSE update
  BY GroupAnswers DEF Configs
<1> QED
  BY <1>2, <1>3, Zenon DEF RoutesAreFilters, Groups, Configs

-----------------------------------------------------------------------------
\* The selectors of cluster/selector.
SelectorKinds == {"group", "ab", "base", "custom"}

\* The instances of a group.
LEMMA OfGroupSet ==
    ASSUME NEW X, NEW list \in Seq(X), NEW name
    PROVE  /\ OfGroup(name, list) \in Seq(X)
           /\ \A i \in ToSet(OfGroup(name, list)) : GroupOf(i) = name
           /\ OfGroup(name, <<>>) = <<>>
<1> DEFINE S == {i \in ToSet(list) : GroupOf(i) = name}
           T == {i \in ToSet(<<>>) : GroupOf(i) = name}
<1>1. OfGroup(name, list) = Keep(list, S) /\ OfGroup(name, <<>>) = Keep(<<>>, T)
  BY DEF OfGroup
<1>2. \A i \in S : GroupOf(i) = name
  OBVIOUS
<1> HIDE DEF S, T
<1>3. Keep(list, S) \in Seq(X) /\ ToSet(Keep(list, S)) = ToSet(list) \cap S
  BY KeepType, KeepSet
<1>4. Keep(<<>>, T) = <<>>
  BY KeepEmpty
<1> QED
  BY <1>1, <1>2, <1>3, <1>4

\* A selector gives a list of the instances it is given.
LEMMA SelectType ==
    ASSUME NEW X, NEW list \in Seq(X), NEW s, s.kind \in SelectorKinds, NEW target, NEW forced
    PROVE  Select(s, target, forced, list) \in Seq(X)
<1>1. CASE s.kind = "group"
  <2> DEFINE group == IF target = None THEN s.group ELSE target
             S == {i \in ToSet(list) : HasValue(i, s.key, group)}
  <2>1. Select(s, target, forced, list) = Keep(list, S)
    BY <1>1 DEF Select, GroupSelector
  <2> HIDE DEF S
  <2> QED
    BY <2>1, KeepType
<1>2. CASE s.kind = "base"
  BY <1>2 DEF Select
<1>3. CASE s.kind = "ab"
  <2>1. Select(s, target, forced, list) = ABSelector(s, forced, list)
    BY <1>3 DEF Select
  <2>2. ABSelector(s, forced, list) \in
          {OfGroup(forced, list), OfGroup(s.a, list), OfGroup(s.b, list), <<>>}
    BY DEF ABSelector
  <2>3. \A name : OfGroup(name, list) \in Seq(X)
    BY OfGroupSet
  <2>4. <<>> \in Seq(X)
    BY EmptySeq
  <2> QED
    BY <2>1, <2>2, <2>3, <2>4
<1>4. CASE s.kind = "custom"
  <2>1. Select(s, target, forced, list) = Keep(list, s.accepts)
    BY <1>4 DEF Select
  <2> QED
    BY <2>1, KeepType
<1> QED
  BY <1>1, <1>2, <1>3, <1>4 DEF SelectorKinds

\* What SelectChain leaves on its way.
SelectRuns(X, selectors, target, forced, list) ==
    {d \in [0..Len(selectors) -> Seq(X)] :
        /\ d[0] = list
        /\ \A n \in 1..Len(selectors) :
              d[n] = IF d[n - 1] = <<>> THEN <<>>
                     ELSE Select(selectors[n], target, forced, d[n - 1])
        /\ SelectChain(selectors, target, forced, list) = d[Len(selectors)]}

\* It exists.
LEMMA SelectHistory ==
    ASSUME NEW X, NEW list \in Seq(X), NEW selectors, Len(selectors) \in Nat,
           NEW target, NEW forced,
           \A n \in 1..Len(selectors) : selectors[n].kind \in SelectorKinds
    PROVE  SelectRuns(X, selectors, target, forced, list) # {}
<1> DEFINE N == Len(selectors)
           Y == Seq(X)
           step(x, n) == IF x = <<>> THEN <<>> ELSE Select(selectors[n], target, forced, x)
           F == [p \in Y \X (1..N) |-> step(p[1], p[2])]
           body(g) == [n \in 0..N |-> IF n = 0 THEN list ELSE step(g[n - 1], n)]
           d == CHOOSE g : g = body(g)
<1>2. \A x \in Y, n \in 1..N : step(x, n) \in Y
  <2>1. TAKE x \in Y, n \in 1..N
  <2> DEFINE s == selectors[n]
  <2>2. s.kind \in SelectorKinds
    OBVIOUS
  <2> HIDE DEF s
  <2>3. Select(s, target, forced, x) \in Y
    BY <2>2, SelectType
  <2> QED
    BY <2>3, EmptySeq DEF s
<1> HIDE DEF step
<1>11. SelectChain(selectors, target, forced, list) = d[N]
  BY DEF SelectChain, step
<1>1. N \in Nat /\ list \in Y
  OBVIOUS
<1> HIDE DEF N, Y
<1>4. F \in [Y \X (1..N) -> Y]
  BY <1>2
<1>5. PICK g : g \in Histories(N, Y, list, F)
  <2> HIDE DEF F
  <2> QED
    BY <1>1, <1>4, HistoryExists
<1>6. g \in [0..N -> Y] /\ g[0] = list /\ \A n \in 1..N : g[n] = F[<<g[n - 1], n>>]
  BY <1>5 DEF Histories
<1>7. \A n \in 1..N : n - 1 \in 0..N
  BY <1>1
<1>8. \A n \in 1..N : g[n] = step(g[n - 1], n)
  BY <1>6, <1>7
<1>9. g = body(g)
  BY <1>1, <1>6, <1>8
<1>10. d = body(d)
  <2> HIDE DEF body
  <2> QED
    BY <1>9
<1> HIDE DEF d
<1>12. d[0] = list /\ \A n \in 1..N : d[n] = step(d[n - 1], n)
  BY <1>1, <1>10
<1> DEFINE T == {n \in 0..N : d[n] \in Y}
<1>13. \A n \in 0..N : n \in T
  <2>1. 0 \in T
    BY <1>1, <1>12
  <2>2. \A n \in 1..N : n - 1 \in T => n \in T
    BY <1>1, <1>2, <1>12
  <2> HIDE DEF T
  <2> QED
    BY <1>1, <2>1, <2>2, BoundedInduction
<1>14. d \in [0..N -> Y]
  BY <1>10, <1>13
<1> QED
  BY <1>11, <1>12, <1>14 DEF N, Y, step, SelectRuns

\* A chain of selectors gives such a list too.
LEMMA SelectChainType ==
    ASSUME NEW X, NEW list \in Seq(X), NEW selectors, Len(selectors) \in Nat,
           NEW target, NEW forced,
           \A n \in 1..Len(selectors) : selectors[n].kind \in SelectorKinds
    PROVE  SelectChain(selectors, target, forced, list) \in Seq(X)
<1>1. PICK d : d \in SelectRuns(X, selectors, target, forced, list)
  BY SelectHistory
<1>2. Len(selectors) \in 0..Len(selectors)
  OBVIOUS
<1> QED
  BY <1>1, <1>2 DEF SelectRuns

\* The last selector works on what the others leave.
LEMMA SelectLast ==
    ASSUME NEW X, NEW list \in Seq(X), NEW R, NEW selectors \in Seq(R), NEW s,
           s.kind \in SelectorKinds, \A r \in R : r.kind \in SelectorKinds,
           NEW target, NEW forced
    PROVE  SelectChain(selectors \o <<s>>, target, forced, list) =
             IF SelectChain(selectors, target, forced, list) = <<>> THEN <<>>
             ELSE Select(s, target, forced, SelectChain(selectors, target, forced, list))
<1> DEFINE N == Len(selectors)
           all == selectors \o <<s>>
<1>0. N \in Nat /\ \A n \in 1..N : selectors[n] \in R
  BY LenProperties, ElementOfSeq
<1>10. Len(all) = N + 1 /\ all[N + 1] = s /\ \A n \in 1..N : all[n] = selectors[n]
  OBVIOUS
<1> HIDE DEF all, N
<1>11. Len(selectors) = N
  BY DEF N
<1>12. \A n \in 1..(N + 1) : all[n].kind \in SelectorKinds
  <2>1. \A n \in 1..(N + 1) : n \in 1..N \/ n = N + 1
    BY <1>0
  <2> QED
    BY <1>0, <1>10, <2>1
<1>1. \A n \in 1..N : selectors[n].kind \in SelectorKinds
  BY <1>0
<1>2. PICK d : d \in SelectRuns(X, selectors, target, forced, list)
  BY <1>0, <1>1, <1>11, SelectHistory
<1>3. PICK e : e \in SelectRuns(X, all, target, forced, list)
  <2>1. N + 1 \in Nat
    BY <1>0
  <2> QED
    BY <1>10, <1>12, <2>1, SelectHistory
<1>4. /\ d[0] = list /\ SelectChain(selectors, target, forced, list) = d[N]
      /\ \A n \in 1..N : d[n] = IF d[n - 1] = <<>> THEN <<>>
                                ELSE Select(selectors[n], target, forced, d[n - 1])
  BY <1>2, <1>11 DEF SelectRuns
<1>5. /\ e[0] = list /\ SelectChain(all, target, forced, list) = e[N + 1]
      /\ \A n \in 1..(N + 1) : e[n] = IF e[n - 1] = <<>> THEN <<>>
                                      ELSE Select(all[n], target, forced, e[n - 1])
  BY <1>3, <1>10 DEF SelectRuns
<1> DEFINE T == {n \in 0..N : d[n] = e[n]}
<1>6. \A n \in 0..N : n \in T
  <2>1. 0 \in T
    BY <1>0, <1>4, <1>5
  <2>2. ASSUME NEW n \in 1..N, n - 1 \in T
        PROVE  n \in T
    <3>1. n \in 0..N /\ n \in 1..(N + 1) /\ d[n - 1] = e[n - 1] /\ all[n] = selectors[n]
      BY <1>0, <1>10, <2>2
    <3>2. e[n] = IF e[n - 1] = <<>> THEN <<>> ELSE Select(all[n], target, forced, e[n - 1])
      BY <1>5, <3>1
    <3>3. d[n] = IF d[n - 1] = <<>> THEN <<>> ELSE Select(selectors[n], target, forced, d[n - 1])
      BY <1>4
    <3>4. d[n] = e[n]
      BY <3>1, <3>2, <3>3
    <3> QED
      BY <3>1, <3>4
  <2> HIDE DEF T
  <2> QED
    BY <1>0, <2>1, <2>2, BoundedInduction
<1>7. N \in 0..N /\ N + 1 \in 1..(N + 1) /\ (N + 1) - 1 = N
  BY <1>0
<1>8. d[N] = e[N]
  BY <1>6, <1>7
<1>9. e[N + 1] = IF e[N] = <<>> THEN <<>> ELSE Select(all[N + 1], target, forced, e[N])
  BY <1>5, <1>7
<1> QED
  BY <1>4, <1>5, <1>8, <1>9, <1>10 DEF all

\* Remove takes out the last selector when no other has its name.
LEMMA RemoveLast ==
    ASSUME NEW X, NEW selectors \in Seq(X), NEW all, NEW s, NEW N,
           N = Len(selectors), all = selectors \o <<s>>,
           \A n \in 1..N : selectors[n].name # s.name
    PROVE  RemoveNamed(all, s.name) = selectors
<1> DEFINE Y == X \union {s}
<1>1. selectors \in Seq(Y) /\ <<s>> \in Seq(Y) /\ Len(<<s>>) = 1 /\ <<s>>[1] = s
  BY LenProperties, ElementOfSeq
<1> DEFINE one == <<s>>
<1>2. one \in Seq(Y) /\ Len(one) = 1 /\ one[1] = s /\ all = selectors \o one
  BY <1>1
<1> HIDE DEF one, Y
<1>3. /\ all \in Seq(Y) /\ Len(all) = N + 1 /\ N \in Nat
      /\ \A n \in 1..N : all[n] = selectors[n]
      /\ all[N + 1] = s
  <2>1. N \in Nat
    BY LenProperties
  <2>2. /\ all \in Seq(Y) /\ Len(all) = N + 1
        /\ \A n \in 1..Len(all) : all[n] = IF n <= N THEN selectors[n] ELSE one[n - N]
    BY <1>1, <1>2, ConcatProperties
  <2>3. N + 1 \in 1..Len(all) /\ ~(N + 1 <= N) /\ (N + 1) - N = 1
    BY <2>1, <2>2
  <2>4. \A n \in 1..N : n \in 1..Len(all) /\ n <= N
    BY <2>1, <2>2
  <2> QED
    BY <1>2, <2>1, <2>2, <2>3, <2>4
<1> DEFINE at == {n \in DOMAIN all : all[n].name = s.name}
           k == CHOOSE n \in at : \A m \in at : n <= m
<1>4. at = {N + 1}
  <2>1. DOMAIN all = 1..(N + 1)
    BY <1>3, LenProperties
  <2>2. \A n \in 1..(N + 1) : n \in 1..N \/ n = N + 1
    BY <1>3
  <2>3. N + 1 \in 1..(N + 1)
    BY <1>3
  <2>4. \A n \in 1..N : all[n].name # s.name
    BY <1>3
  <2> QED
    BY <1>3, <2>1, <2>2, <2>3, <2>4
<1>5. k = N + 1
  <2> HIDE DEF at
  <2> QED
    BY <1>3, <1>4
<1>6. RemoveNamed(all, s.name) = RemoveAt(all, k)
  BY <1>4 DEF RemoveNamed
<1> HIDE DEF k, at
<1>7. RemoveNamed(all, s.name) = SubSeq(all, 1, N) \o SubSeq(all, N + 2, N + 1)
  <2>1. (N + 1) - 1 = N /\ (N + 1) + 1 = N + 2
    BY <1>3
  <2> QED
    BY <1>3, <1>5, <1>6, <2>1 DEF RemoveAt
<1> DEFINE front == SubSeq(all, 1, N)
           back == SubSeq(all, N + 2, N + 1)
<1>8. /\ front \in Seq(Y) /\ Len(front) = N
      /\ \A n \in 1..N : front[n] = selectors[n]
  <2>1. \A n \in 1..N : n \in 1..Len(all)
    BY <1>3
  <2>2. \A n \in 1..N : all[n] \in Y
    BY <1>3, <2>1, ElementOfSeq
  <2>3. 1 \in Int /\ N \in Int
    BY <1>3
  <2>4. /\ front \in Seq(Y)
        /\ Len(front) = IF 1 <= N THEN (N - 1) + 1 ELSE 0
        /\ \A n \in 1..((N - 1) + 1) : front[n] = all[(1 + n) - 1]
    BY <1>3, <2>2, SubSeqProperties
  <2> HIDE DEF front
  <2>5. (N - 1) + 1 = N /\ \A n \in 1..N : (1 + n) - 1 = n
    BY <1>3
  <2>6. Len(front) = N
    BY <1>3, <2>4
  <2> QED
    BY <1>3, <2>4, <2>5, <2>6
<1>9. back = <<>>
  BY <1>3
<1> HIDE DEF front, back
<1>10. front \o back = front
  BY <1>8, <1>9, ConcatEmptySeq
<1>11. front = selectors
  BY <1>1, <1>8, SeqEqual
<1> QED
  BY <1>7, <1>10, <1>11 DEF front, back

\* A chain that ends in an A/B selector, whatever its selectors and the list.
LEMMA ABChainServes ==
    ASSUME NEW X, NEW list \in Seq(X), NEW R, NEW selectors \in Seq(R),
           NEW s, s.kind = "ab",
           \A r \in R : r.kind \in SelectorKinds /\ r.name # s.name,
           NEW target, NEW forced
    PROVE  ABServes(s, selectors, target, forced, list)
<1> DEFINE N == Len(selectors)
           all == selectors \o <<s>>
           chosen == SelectChain(all, target, forced, list)
           before == SelectChain(selectors, target, forced, list)
           forcedHere == forced # None /\ OfGroup(forced, before) # <<>>
           a == OfGroup(s.a, before)
           b == OfGroup(s.b, before)
           f == OfGroup(forced, before)
<1>1. N \in Nat /\ \A n \in 1..N : selectors[n] \in R
  BY LenProperties, ElementOfSeq
<1> HIDE DEF all, N
<1>4. before \in Seq(X)
  <2>1. \A n \in 1..N : selectors[n].kind \in SelectorKinds
    BY <1>1
  <2> QED
    BY <1>1, <2>1, SelectChainType DEF N
<1>5. chosen = IF before = <<>> THEN <<>> ELSE Select(s, target, forced, before)
  <2>1. "ab" \in SelectorKinds
    BY DEF SelectorKinds
  <2> QED
    BY <2>1, SelectLast DEF all
<1> HIDE DEF before, chosen
<1>6. Select(s, target, forced, before) = ABSelector(s, forced, before)
  BY DEF Select
<1>7. /\ \A i \in ToSet(a) : GroupOf(i) = s.a
      /\ \A i \in ToSet(b) : GroupOf(i) = s.b
      /\ \A i \in ToSet(f) : GroupOf(i) = forced
      /\ before = <<>> => a = <<>> /\ b = <<>> /\ f = <<>>
      /\ ToSet(<<>>) = {}
  <2>1. \A i \in ToSet(a) : GroupOf(i) = s.a
    BY <1>4, OfGroupSet
  <2>2. \A i \in ToSet(b) : GroupOf(i) = s.b
    BY <1>4, OfGroupSet
  <2>3. \A i \in ToSet(f) : GroupOf(i) = forced
    BY <1>4, OfGroupSet
  <2>4. before = <<>> => a = <<>> /\ b = <<>> /\ f = <<>>
    BY <1>4, OfGroupSet
  <2>5. ToSet(<<>>) = {}
    BY DEF ToSet
  <2> QED
    BY <2>1, <2>2, <2>3, <2>4, <2>5
<1>8. s.a = s.b => a = b
  OBVIOUS
<1>9. ABSelector(s, forced, before) =
        IF forcedHere THEN f
        ELSE IF a # <<>> /\ ((IF s.a = s.b THEN <<>> ELSE b) = <<>> \/ s.percent > 50) THEN a
        ELSE IF s.a = s.b THEN <<>> ELSE b
  BY DEF ABSelector
<1> HIDE DEF a, b, f
<1>10. forcedHere <=> forced # None /\ f # <<>>
  BY DEF f
<1> HIDE DEF forcedHere
<1>11. \/ forcedHere /\ chosen = f /\ f # <<>>
       \/ ~forcedHere /\ chosen = a /\ a # <<>>
       \/ ~forcedHere /\ chosen = b /\ (b = <<>> => a = <<>>)
  <2>1. CASE before = <<>>
    BY <1>5, <1>7, <1>10, <2>1
  <2>2. CASE before # <<>> /\ forcedHere
    BY <1>5, <1>6, <1>9, <1>10, <2>2
  <2>3. CASE before # <<>> /\ ~forcedHere /\ s.a = s.b
    BY <1>5, <1>6, <1>8, <1>9, <1>10, <2>3
  <2>4. CASE before # <<>> /\ ~forcedHere /\ s.a # s.b
    BY <1>5, <1>6, <1>8, <1>9, <1>10, <2>4
  <2> QED
    BY <2>1, <2>2, <2>3, <2>4
<1>12. \A i \in ToSet(chosen) : GroupOf(i) \in (IF forcedHere THEN {forced} ELSE {s.a, s.b})
  BY <1>7, <1>11
<1>13. \A i, j \in ToSet(chosen) : GroupOf(i) = GroupOf(j)
  BY <1>7, <1>11
<1>14. chosen = <<>> <=> ~forcedHere /\ a = <<>> /\ b = <<>>
  BY <1>11
<1>15. RemoveNamed(all, s.name) = selectors
  <2>1. \A n \in 1..N : selectors[n].name # s.name
    BY <1>1
  <2> QED
    BY <2>1, RemoveLast DEF N, all
<1>16. SelectChain(RemoveNamed(all, s.name), target, forced, list) = before
  BY <1>15 DEF before
<1> QED
  BY <1>12, <1>13, <1>14, <1>16, Zenon DEF ABServes, forcedHere, chosen, before, all, a, b

-----------------------------------------------------------------------------
\* A sorted list still has every instance.
LEMMA SortedKeepsAll ==
    ASSUME NEW X, NEW list \in Seq(X), NEW t \in Sorted(list)
    PROVE  /\ IsFiniteSet(ToSet(list))
           /\ t \in [1..Len(list) -> ToSet(list)] /\ IsInjective(t)
           /\ \A x \in ToSet(list) : \E n \in 1..Len(list) : t[n] = x
           /\ \A m, n \in 1..Len(list) : m < n => t[m].latency <= t[n].latency
<1> DEFINE N == Len(list)
           T == ToSet(list)
           D == 1..N
<1>1. N \in Nat /\ DOMAIN list = D
  BY LenProperties
<1>2. t \in [D -> T] /\ IsInjective(t) /\ DOMAIN t = D
  BY <1>1 DEF Sorted
<1>3. \A m, n \in D : m < n => t[m].latency <= t[n].latency
  BY <1>1, <1>2 DEF Sorted
<1>4. list \in Surjection(D, T)
  <2>1. list \in [D -> T]
    BY <1>1, LenProperties, ElementOfSeq DEF ToSet
  <2>2. \A x \in T : \E n \in D : list[n] = x
    BY <1>1 DEF ToSet
  <2> HIDE DEF D, T
  <2> QED
    BY <2>1, <2>2 DEF Surjection
<1>5. t \in Injection(D, T)
  BY <1>2 DEF Injection
<1>6. IsFiniteSet(D) /\ Cardinality(D) = N
  <2>1. 1 \in Int /\ N \in Int
    BY <1>1
  <2>2. IsFiniteSet(D) /\ Cardinality(D) = IF 1 > N THEN 0 ELSE N - 1 + 1
    BY <2>1, FS_Interval
  <2> HIDE DEF D, N
  <2> QED
    BY <1>1, <2>2
<1> HIDE DEF D, T, N
<1>7. IsFiniteSet(T) /\ Cardinality(T) <= N
  BY <1>4, <1>6, FS_Surjection
<1>8. N <= Cardinality(T) /\ (Cardinality(D) = Cardinality(T) <=> t \in Surjection(D, T))
  BY <1>5, <1>6, <1>7, FS_Injection
<1>9. Cardinality(T) \in Nat
  BY <1>7, FS_CardinalityType
<1>10. t \in Surjection(D, T)
  BY <1>1, <1>6, <1>7, <1>8, <1>9
<1>11. \A x \in T : \E n \in D : t[n] = x
  BY <1>10 DEF Surjection
<1> QED
  BY <1>2, <1>3, <1>7, <1>11 DEF D, T, N

\* A set of positions has a least one.
LEMMA LeastPosition ==
    ASSUME NEW S \in SUBSET Nat, S # {}
    PROVE  LET k == CHOOSE n \in S : \A m \in S : n <= m
           IN  k \in S /\ \A m \in S : k <= m
<1>1. PICK x \in S : \A y \in S : ~(<<y, x>> \in Below)
  BY BelowWellFounded, WFMin
<1>2. ASSUME NEW y \in S
      PROVE  x <= y
  <2>1. <<y, x>> \in Nat \X Nat /\ ~(<<y, x>> \in Below)
    BY <1>1
  <2>2. ~(y < x)
    BY <2>1 DEF Below
  <2> QED
    BY <2>2
<1> QED
  BY <1>2

\* The instance FastestBalancer chooses, for any list.
LEMMA FastestOfList ==
    ASSUME NEW X, None \notin X, \A x \in X : x.latency \in Int,
           NEW list \in Seq(X), NEW retryTimes \in Int
    PROVE  FastestIsBest(list, retryTimes)
<1> DEFINE T == ToSet(list)
           N == Len(list)
           enabled == {j \in T : j.enabled}
<1>1. SUFFICES ASSUME NEW t \in Sorted(list)
               PROVE  LET i == Pick(t, retryTimes)
                      IN  IF i = None
                          THEN \A j \in enabled :
                                  Cardinality({k \in T \ enabled : k.latency <= j.latency})
                                    >= retryTimes
                          ELSE i.enabled /\ \A j \in T : j.enabled => i.latency <= j.latency
  BY DEF FastestIsBest, Fastest
<1>2. /\ IsFiniteSet(T) /\ t \in [1..N -> T] /\ IsInjective(t)
      /\ \A x \in T : \E n \in 1..N : t[n] = x
      /\ \A m, n \in 1..N : m < n => t[m].latency <= t[n].latency
  BY SortedKeepsAll
<1>3. N \in Nat /\ T \subseteq X
  BY LenProperties, ElementOfSeq DEF ToSet
<1> HIDE DEF T, N
<1> DEFINE on == {n \in DOMAIN t : n <= retryTimes /\ t[n].enabled}
           k == CHOOSE n \in on : \A m \in on : n <= m
<1>4. DOMAIN t = 1..N /\ \A n \in 1..N : t[n] \in T /\ t[n].latency \in Int /\ t[n] # None
  BY <1>2, <1>3
<1>5. on = {n \in 1..N : n <= retryTimes /\ t[n].enabled}
  BY <1>4
<1>6. Pick(t, retryTimes) = IF on = {} THEN None ELSE t[k]
  BY DEF Pick
<1>7. CASE on = {}
  <2>1. Pick(t, retryTimes) = None
    BY <1>6, <1>7
  <2>2. ASSUME NEW j \in enabled
        PROVE  Cardinality({x \in T \ enabled : x.latency <= j.latency}) >= retryTimes
    <3> DEFINE K == {x \in T \ enabled : x.latency <= j.latency}
               r == retryTimes
    <3>1. PICK n \in 1..N : t[n] = j
      BY <1>2
    <3>2. n > r
      <4>1. j.enabled
        OBVIOUS
      <4>2. n \notin on
        BY <1>7
      <4>3. ~(n <= r)
        BY <1>5, <3>1, <4>1, <4>2
      <4> QED
        BY <1>3, <4>3
    <3>3. \A m \in 1..r : m \in 1..N /\ m < n
      BY <1>3, <3>2
    <3>4. \A m \in 1..r : t[m] \in K
      <4>1. TAKE m \in 1..r
      <4>2. m \in 1..N /\ m < n /\ m <= r
        BY <3>3
      <4>3. t[m].latency <= j.latency
        BY <1>2, <3>1, <4>2
      <4>4. ~t[m].enabled
        BY <1>5, <1>7, <4>2
      <4> QED
        BY <1>4, <4>2, <4>3, <4>4
    <3>5. IsFiniteSet(K) /\ Cardinality(K) \in Nat
      BY <1>2, FS_Subset, FS_CardinalityType
    <3> HIDE DEF K, r
    <3>6. CASE r <= 0
      BY <3>5, <3>6 DEF r, K
    <3>7. CASE r > 0
      <4> DEFINE g == [m \in 1..r |-> t[m]]
      <4>1. g \in Injection(1..r, K)
        <5>1. g \in [1..r -> K]
          BY <3>4
        <5>2. \A a, b \in 1..r : g[a] = g[b] => a = b
          BY <1>2, <1>4, <3>3 DEF IsInjective
        <5>3. DOMAIN g = 1..r
          OBVIOUS
        <5> HIDE DEF g
        <5> QED
          BY <5>1, <5>2, <5>3 DEF Injection, IsInjective
      <4> HIDE DEF g
      <4>2. Cardinality(1..r) <= Cardinality(K)
        BY <3>5, <4>1, FS_Injection
      <4>3. Cardinality(1..r) = r
        <5>1. r \in Int /\ 1 \in Int
          BY DEF r
        <5>2. Cardinality(1..r) = IF 1 > r THEN 0 ELSE r - 1 + 1
          BY <5>1, FS_Interval
        <5> QED
          BY <3>7, <5>1, <5>2
      <4>4. Cardinality(K) >= r
        BY <3>5, <4>2, <4>3 DEF r
      <4> QED
        BY <4>4 DEF r, K
    <3>8. r \in Int
      BY DEF r
    <3> QED
      BY <3>6, <3>7, <3>8
  <2> QED
    BY <2>1, <2>2
<1>8. CASE on # {}
  <2>1. k \in on /\ \A m \in on : k <= m
    <3>1. on \in SUBSET Nat
      BY <1>3, <1>5
    <3> HIDE DEF on
    <3> QED
      BY <1>8, <3>1, LeastPosition
  <2>2. Pick(t, retryTimes) = t[k]
    BY <1>6, <1>8
  <2> HIDE DEF k
  <2>3. k \in 1..N /\ k <= retryTimes /\ t[k].enabled
    BY <1>5, <2>1
  <2>4. ASSUME NEW j \in T, j.enabled
        PROVE  t[k].latency <= j.latency
    <3>1. PICK n \in 1..N : t[n] = j
      BY <1>2
    <3>2. k <= n
      <4>1. CASE n <= retryTimes
        <5>1. n \in on
          BY <1>5, <2>4, <3>1, <4>1
        <5> QED
          BY <2>1, <5>1
      <4>2. CASE ~(n <= retryTimes)
        BY <1>3, <2>3, <4>2
      <4> QED
        BY <4>1, <4>2
    <3>3. CASE k = n
      BY <1>4, <3>1, <3>3
    <3>4. CASE k # n
      <4>1. k < n
        BY <1>3, <2>3, <3>2, <3>4
      <4> QED
        BY <1>2, <2>3, <3>1, <4>1
    <3> QED
      BY <3>3, <3>4
  <2>5. t[k] # None
    BY <1>4, <2>3
  <2> HIDE DEF on
  <2> QED
    BY <2>2, <2>3, <2>4, <2>5
<1> QED
  BY <1>7, <1>8

-----------------------------------------------------------------------------
(***************************************************************************)
(* Wire: what is written is read again, wherever the connection breaks.    *)
(***************************************************************************)
\* A payload, or whatever else is a sequence.
IsSequence(s) == Len(s) \in Nat /\ s = [k \in 1..Len(s) |-> s[k]]

\* A message that can be given to Write.
IsMessage(m) ==
    /\ m = [type |-> m.type, serial |-> m.serial, id |-> m.id, meta |-> m.meta,
            payload |-> m.payload]
    /\ IsSequence(m.payload)

\* The parts of its metadata.
MetaParts(m) == IF m.meta = Nil THEN 0 ELSE 1

MetaPart(m) == [part |-> "meta", meta |-> m.meta]
PayloadPart(m, k) == [part |-> "payload", value |-> m.payload[k]]

\* The parts that EncodeMessage writes.
PartsOf(m) ==
    {Fixed(m), Sizes(MetaParts(m), Len(m.payload)), MetaPart(m)}
        \union {PayloadPart(m, k) : k \in 1..Len(m.payload)}

\* One sequence after another.
LEMMA ConcatParts ==
    ASSUME NEW X, NEW s \in Seq(X), NEW t \in Seq(X)
    PROVE  /\ s \o t \in Seq(X) /\ Len(s \o t) = Len(s) + Len(t)
           /\ \A k \in 1..Len(s) : (s \o t)[k] = s[k]
           /\ \A k \in 1..Len(t) : (s \o t)[Len(s) + k] = t[k]
<1>1. Len(s) \in Nat /\ Len(t) \in Nat
  BY LenProperties
<1>2. /\ s \o t \in Seq(X) /\ Len(s \o t) = Len(s) + Len(t)
      /\ \A i \in 1..(Len(s) + Len(t)) :
            (s \o t)[i] = IF i <= Len(s) THEN s[i] ELSE t[i - Len(s)]
  BY ConcatProperties
<1>3. ASSUME NEW k \in 1..Len(t)
      PROVE  (s \o t)[Len(s) + k] = t[k]
  <2>1. /\ Len(s) + k \in 1..(Len(s) + Len(t)) /\ ~(Len(s) + k <= Len(s))
        /\ (Len(s) + k) - Len(s) = k
    BY <1>1
  <2> QED
    BY <1>2, <2>1
<1> QED
  BY <1>1, <1>2, <1>3

\* What EncodeMessage writes, part by part.
LEMMA Encoded ==
    ASSUME NEW m, IsMessage(m)
    PROVE  /\ EncodeMessage(m) \in Seq(PartsOf(m))
           /\ Len(EncodeMessage(m)) \in Nat \ {0}
           /\ EncodeMessage(m)[1] = Fixed(m)
           /\ ~CanCode(m.serial, m.meta) => Len(EncodeMessage(m)) = 1
           /\ CanCode(m.serial, m.meta) =>
                 /\ Len(EncodeMessage(m)) = 2 + MetaParts(m) + Len(m.payload)
                 /\ EncodeMessage(m)[2] = Sizes(MetaParts(m), Len(m.payload))
                 /\ MetaParts(m) = 1 => EncodeMessage(m)[3] = MetaPart(m)
                 /\ \A k \in 1..Len(m.payload) :
                       EncodeMessage(m)[2 + MetaParts(m) + k] = PayloadPart(m, k)
<1> DEFINE X == PartsOf(m)
           L == Len(m.payload)
           q == MetaParts(m)
           head == << Fixed(m), Sizes(q, L) >>
           values == [k \in 1..L |-> PayloadPart(m, k)]
           body == Body(m)
<1>1. L \in Nat /\ m.payload = [k \in 1..L |-> m.payload[k]]
  BY DEF IsMessage, IsSequence
<1>2. DOMAIN m.payload = 1..L
  BY <1>1
<1>3. q \in {0, 1} /\ (q = 0 <=> m.meta = Nil)
  BY DEF MetaParts
<1>4. /\ Fixed(m) \in X /\ Sizes(q, L) \in X /\ MetaPart(m) \in X
      /\ \A k \in 1..L : PayloadPart(m, k) \in X
  BY DEF PartsOf
<1>5. Body(m) = (IF m.meta = Nil THEN <<>> ELSE << MetaPart(m) >>) \o values
  BY <1>2 DEF Body, MetaPart, PayloadPart
<1>6. /\ CanCode(m.serial, m.meta) => EncodeMessage(m) = head \o body
      /\ ~CanCode(m.serial, m.meta) => EncodeMessage(m) = << Fixed(m) >>
  BY DEF EncodeMessage, MetaParts
<1> HIDE DEF X, L, q
<1>7. head \in Seq(X) /\ Len(head) = 2 /\ head[1] = Fixed(m) /\ head[2] = Sizes(q, L)
  BY <1>4
<1>8. values \in Seq(X) /\ Len(values) = L /\ \A k \in 1..L : values[k] = PayloadPart(m, k)
  BY <1>1, <1>4
<1> HIDE DEF head, values
<1>9. /\ body \in Seq(X) /\ Len(body) = q + L
      /\ q = 1 => body[1] = MetaPart(m)
      /\ \A k \in 1..L : body[q + k] = PayloadPart(m, k)
  <2>1. CASE m.meta = Nil
    <3>1. body = values
      BY <1>5, <1>8, <2>1, ConcatEmptySeq
    <3> QED
      BY <1>1, <1>3, <1>8, <2>1, <3>1
  <2>2. CASE m.meta # Nil
    <3> DEFINE one == << MetaPart(m) >>
    <3>1. one \in Seq(X) /\ Len(one) = 1 /\ one[1] = MetaPart(m)
      BY <1>4
    <3>2. body = one \o values
      BY <1>5, <2>2
    <3> HIDE DEF one
    <3>3. /\ body \in Seq(X) /\ Len(body) = 1 + L
          /\ \A k \in 1..Len(one) : body[k] = one[k]
          /\ \A k \in 1..Len(values) : body[Len(one) + k] = values[k]
      <4>1. values \in Seq(X) /\ one \in Seq(X)
        BY <1>8, <3>1
      <4>2. /\ one \o values \in Seq(X) /\ Len(one \o values) = Len(one) + Len(values)
            /\ \A k \in 1..Len(one) : (one \o values)[k] = one[k]
            /\ \A k \in 1..Len(values) : (one \o values)[Len(one) + k] = values[k]
        BY <4>1, ConcatParts
      <4> HIDE DEF body
      <4> QED
        BY <1>8, <3>1, <3>2, <4>2
    <3>4. body[1] = MetaPart(m)
      BY <3>1, <3>3
    <3>5. ASSUME NEW k \in 1..L
          PROVE  body[1 + k] = PayloadPart(m, k)
      BY <1>8, <3>1, <3>3
    <3> QED
      BY <1>3, <2>2, <3>3, <3>4, <3>5
  <2> QED
    BY <2>1, <2>2
<1> HIDE DEF body
<1>10. CASE CanCode(m.serial, m.meta)
  <2> DEFINE e == head \o body
  <2>1. /\ e \in Seq(X) /\ Len(e) = 2 + (q + L)
        /\ \A k \in 1..Len(head) : e[k] = head[k]
        /\ \A k \in 1..Len(body) : e[Len(head) + k] = body[k]
    <3>1. head \in Seq(X) /\ body \in Seq(X)
      BY <1>7, <1>9
    <3>2. /\ e \in Seq(X) /\ Len(e) = Len(head) + Len(body)
          /\ \A k \in 1..Len(head) : e[k] = head[k]
          /\ \A k \in 1..Len(body) : e[Len(head) + k] = body[k]
      BY <3>1, ConcatParts
    <3> HIDE DEF e
    <3> QED
      BY <1>7, <1>9, <3>2
  <2>2. e = EncodeMessage(m)
    BY <1>6, <1>10
  <2> HIDE DEF e
  <2>3. e[1] = Fixed(m) /\ e[2] = Sizes(q, L)
    BY <1>7, <2>1
  <2>4. q = 1 => e[3] = MetaPart(m)
    BY <1>1, <1>7, <1>9, <2>1
  <2>5. ASSUME NEW k \in 1..L
        PROVE  e[2 + q + k] = PayloadPart(m, k)
    <3>1. 2 + q + k = Len(head) + (q + k) /\ q + k \in 1..Len(body)
      BY <1>1, <1>3, <1>7, <1>9
    <3> QED
      BY <1>9, <2>1, <3>1
  <2>6. 2 + (q + L) = 2 + q + L /\ 2 + q + L \in Nat \ {0}
    BY <1>1, <1>3
  <2> QED
    BY <1>10, <2>1, <2>2, <2>3, <2>4, <2>5, <2>6 DEF X, q, L
<1>11. CASE ~CanCode(m.serial, m.meta)
  <2>1. EncodeMessage(m) = << Fixed(m) >>
    BY <1>6, <1>11
  <2>2. << Fixed(m) >> \in Seq(X) /\ Len(<< Fixed(m) >>) = 1
    BY <1>4
  <2> QED
    BY <1>11, <2>1, <2>2 DEF X
<1> QED
  BY <1>10, <1>11

\* The stream goes on at n as EncodeMessage writes m, as far as it goes.
Goes(stream, n, m) ==
    \A j \in 1..Len(EncodeMessage(m)) :
        (n - 1) + j <= Len(stream) => stream[(n - 1) + j] = EncodeMessage(m)[j]

\* A message that is there is decoded.
LEMMA DecodedWhole ==
    ASSUME NEW T, NEW n \in Nat \ {0}, NEW m, IsMessage(m), CanCode(m.serial, m.meta),
           Len(T) \in Nat, Goes(T, n, m), (n - 1) + Len(EncodeMessage(m)) <= Len(T)
    PROVE  /\ DecodeMessage(T, n).ok
           /\ DecodeMessage(T, n).next = n + Len(EncodeMessage(m))
           /\ DecodeMessage(T, n).message = m
<1> DEFINE e == EncodeMessage(m)
           E == Len(e)
           L == Len(m.payload)
           q == MetaParts(m)
           body == n + 1 + q
<1>1. /\ E = 2 + q + L /\ e[1] = Fixed(m) /\ e[2] = Sizes(q, L)
      /\ q = 1 => e[3] = MetaPart(m)
      /\ \A k \in 1..L : e[2 + q + k] = PayloadPart(m, k)
  BY Encoded
<1>2. L \in Nat /\ m.payload = [k \in 1..L |-> m.payload[k]]
  BY DEF IsMessage, IsSequence
<1>3. q \in {0, 1} /\ (q = 0 <=> m.meta = Nil)
  BY DEF MetaParts
<1>4. (n - 1) + E <= Len(T) /\ \A j \in 1..E : T[(n - 1) + j] = e[j]
  <2>1. \A j \in 1..E : (n - 1) + j <= Len(T) => T[(n - 1) + j] = e[j]
    BY DEF Goes
  <2>2. E \in Nat
    BY <1>1, <1>2, <1>3
  <2> HIDE DEF E, e
  <2> QED
    BY <2>1, <2>2 DEF E, e
<1>5. CanCode(m.serial, m.meta)
  OBVIOUS
<1> HIDE DEF e, E, L, q
<1>6. T[n] = Fixed(m) /\ T[n + 1] = Sizes(q, L)
  <2>1. 1 \in 1..E /\ 2 \in 1..E /\ (n - 1) + 1 = n /\ (n - 1) + 2 = n + 1
    BY <1>1, <1>2, <1>3
  <2> QED
    BY <1>1, <1>4, <2>1
<1>7. q = 1 => T[n + 2] = MetaPart(m)
  <2>1. q = 1 => 3 \in 1..E /\ (n - 1) + 3 = n + 2
    BY <1>1, <1>2, <1>3
  <2> QED
    BY <1>1, <1>4, <2>1
<1>8. ASSUME NEW k \in 1..L
      PROVE  T[body + k] = PayloadPart(m, k)
  <2>1. 2 + q + k \in 1..E
    BY <1>1, <1>2, <1>3
  <2>2. (n - 1) + (2 + q + k) = body + k
    BY <1>2, <1>3
  <2> QED
    BY <1>1, <1>4, <2>1, <2>2
<1>9. n + 1 <= Len(T) /\ body + L <= Len(T)
  BY <1>1, <1>2, <1>3, <1>4
<1>10. /\ T[n].part = "fixed" /\ T[n].type = m.type /\ T[n].serial = m.serial /\ T[n].id = m.id
       /\ T[n + 1].part = "sizes" /\ T[n + 1].meta = q /\ T[n + 1].payload = L
  BY <1>6 DEF Fixed, Sizes
<1>11. q = 1 => T[n + 2].part = "meta" /\ T[n + 2].meta = m.meta
  BY <1>7 DEF MetaPart
<1>12. [k \in 1..L |-> T[body + k].value] = m.payload
  <2>1. ASSUME NEW k \in 1..L
        PROVE  T[body + k].value = m.payload[k]
    <3> HIDE DEF body
    <3>1. T[body + k] = PayloadPart(m, k)
      BY <1>8
    <3> QED
      BY <3>1 DEF PayloadPart
  <2> QED
    BY <1>2, <2>1
<1>13. (IF q = 0 THEN Nil ELSE T[n + 2].meta) = m.meta
  BY <1>3, <1>11
<1>14. ~(q # 0 /\ (T[n + 2].part # "meta" \/ ~CanCode(T[n].serial, T[n + 2].meta)))
  BY <1>3, <1>5, <1>10, <1>11
<1> DEFINE read == [type |-> T[n].type, serial |-> T[n].serial, id |-> T[n].id,
                    meta |-> IF q = 0 THEN Nil ELSE T[n + 2].meta,
                    payload |-> [k \in 1..L |-> T[body + k].value]]
<1>15. read = m
  BY <1>10, <1>12, <1>13 DEF IsMessage
<1>16. DecodeMessage(T, n) = [ok |-> TRUE, next |-> body + L + 1, message |-> read]
  BY <1>9, <1>10, <1>14 DEF DecodeMessage
<1> HIDE DEF read
<1>17. body + L + 1 = n + E
  BY <1>1, <1>2, <1>3
<1> QED
  BY <1>15, <1>16, <1>17 DEF E, e

\* One that is cut off is not.
LEMMA DecodedCut ==
    ASSUME NEW T, NEW n \in Nat \ {0}, NEW m, IsMessage(m), CanCode(m.serial, m.meta),
           Len(T) \in Nat, Goes(T, n, m), Len(T) < (n - 1) + Len(EncodeMessage(m))
    PROVE  ~DecodeMessage(T, n).ok
<1> DEFINE e == EncodeMessage(m)
           E == Len(e)
           L == Len(m.payload)
           q == MetaParts(m)
<1>1. E = 2 + q + L /\ e[2] = Sizes(q, L)
  BY Encoded
<1>2. L \in Nat /\ q \in Nat
  BY DEF IsMessage, IsSequence, MetaParts
<1>3. Len(T) < (n - 1) + E /\ \A j \in 1..E : (n - 1) + j <= Len(T) => T[(n - 1) + j] = e[j]
  BY DEF Goes
<1> HIDE DEF e, E, L, q
<1>4. CASE n + 1 <= Len(T)
  <2>1. 2 \in 1..E /\ (n - 1) + 2 = n + 1
    BY <1>1, <1>2
  <2>2. T[n + 1] = Sizes(q, L)
    BY <1>1, <1>3, <1>4, <2>1
  <2>3. T[n + 1].meta = q /\ T[n + 1].payload = L
    BY <2>2 DEF Sizes
  <2>4. ~(n + 1 + q + L <= Len(T))
    BY <1>1, <1>2, <1>3
  <2>5. DecodeMessage(T, n) = Failed
    BY <2>3, <2>4 DEF DecodeMessage
  <2> QED
    BY <2>5 DEF Failed
<1>5. CASE ~(n + 1 <= Len(T))
  <2>1. DecodeMessage(T, n) = Failed
    BY <1>5 DEF DecodeMessage
  <2> QED
    BY <2>1 DEF Failed
<1> QED
  BY <1>4, <1>5

\* Nor is one without sizes, of which EncodeMessage has written the fixed part.
LEMMA DecodedPartly ==
    ASSUME NEW T, NEW n, n + 1 <= Len(T) => T[n + 1].part = "fixed"
    PROVE  ~DecodeMessage(T, n).ok
<1>1. DecodeMessage(T, n) = Failed
  BY DEF DecodeMessage
<1> QED
  BY <1>1 DEF Failed

-----------------------------------------------------------------------------
\* The parts of the messages of a set.
PartsIn(M) == UNION {PartsOf(m) : m \in M}

\* What is written of them.
LEMMA EncodedIn ==
    ASSUME NEW M, NEW m \in M, IsMessage(m)
    PROVE  EncodeMessage(m) \in Seq(PartsIn(M)) /\ Len(EncodeMessage(m)) \in Nat \ {0}
<1>1. PartsOf(m) \subseteq PartsIn(M)
  BY DEF PartsIn
<1>2. EncodeMessage(m) \in Seq(PartsOf(m)) /\ Len(EncodeMessage(m)) \in Nat \ {0}
  BY Encoded
<1> QED
  BY <1>1, <1>2, SeqMonotonic

\* What WriteAll builds on its way.
WriteRuns(X, messages) ==
    {d \in [0..Len(messages) -> Seq(X)] :
        /\ d[0] = <<>>
        /\ \A n \in 1..Len(messages) : d[n] = d[n - 1] \o EncodeMessage(messages[n])
        /\ WriteAll(messages) = d[Len(messages)]}

\* They exist.
LEMMA WriteHistory ==
    ASSUME NEW M, \A m \in M : IsMessage(m), NEW messages \in Seq(M)
    PROVE  WriteRuns(PartsIn(M), messages) # {}
<1> DEFINE N == Len(messages)
           Y == Seq(PartsIn(M))
           step(x, n) == x \o EncodeMessage(messages[n])
           F == [p \in Y \X (1..N) |-> step(p[1], p[2])]
           body(g) == [n \in 0..N |-> IF n = 0 THEN <<>> ELSE step(g[n - 1], n)]
           d == CHOOSE g : g = body(g)
<1>1. N \in Nat /\ \A n \in 1..N : messages[n] \in M
  BY LenProperties, ElementOfSeq
<1>2. \A x \in Y, n \in 1..N : step(x, n) \in Y
  BY <1>1, EncodedIn, ConcatProperties
<1>3. <<>> \in Y
  BY EmptySeq
<1>11. WriteAll(messages) = d[N]
  BY DEF WriteAll
<1> HIDE DEF N, Y, step
<1>4. F \in [Y \X (1..N) -> Y]
  BY <1>2
<1>5. PICK g : g \in Histories(N, Y, <<>>, F)
  <2> HIDE DEF F
  <2> QED
    BY <1>1, <1>3, <1>4, HistoryExists
<1>6. g \in [0..N -> Y] /\ g[0] = <<>> /\ \A n \in 1..N : g[n] = F[<<g[n - 1], n>>]
  BY <1>5 DEF Histories
<1>7. \A n \in 1..N : n - 1 \in 0..N
  BY <1>1
<1>8. \A n \in 1..N : g[n] = step(g[n - 1], n)
  BY <1>6, <1>7
<1>9. g = body(g)
  BY <1>1, <1>6, <1>8
<1>10. d = body(d)
  <2> HIDE DEF body
  <2> QED
    BY <1>9
<1> HIDE DEF d
<1>12. d[0] = <<>> /\ \A n \in 1..N : d[n] = step(d[n - 1], n)
  BY <1>1, <1>10
<1> DEFINE T == {n \in 0..N : d[n] \in Y}
<1>13. \A n \in 0..N : n \in T
  <2>1. 0 \in T
    BY <1>1, <1>3, <1>12
  <2>2. \A n \in 1..N : n - 1 \in T => n \in T
    BY <1>1, <1>2, <1>12
  <2> HIDE DEF T
  <2> QED
    BY <1>1, <2>1, <2>2, BoundedInduction
<1>14. d \in [0..N -> Y]
  BY <1>10, <1>13
<1> QED
  BY <1>11, <1>12, <1>14 DEF N, Y, step, WriteRuns

\* What is written is a stream.
LEMMA WriteType ==
    ASSUME NEW M, \A m \in M : IsMessage(m), NEW messages \in Seq(M)
    PROVE  WriteAll(messages) \in Seq(PartsIn(M)) /\ Len(WriteAll(messages)) \in Nat
<1>1. PICK d \in [0..Len(messages) -> Seq(PartsIn(M))] : WriteAll(messages) = d[Len(messages)]
  BY WriteHistory DEF WriteRuns
<1>2. Len(messages) \in 0..Len(messages)
  BY LenProperties
<1>3. WriteAll(messages) \in Seq(PartsIn(M))
  BY <1>1, <1>2
<1> QED
  BY <1>3, LenProperties

\* Nothing is written of nothing.
LEMMA WriteEmpty == WriteAll(<<>>) = <<>>
<1> DEFINE empty == <<>>
<1>1. empty \in Seq({}) /\ Len(empty) = 0
  BY EmptySeq
<1> HIDE DEF empty
<1>2. PICK d : d \in WriteRuns(PartsIn({}), empty)
  BY <1>1, WriteHistory
<1>3. d[0] = <<>> /\ WriteAll(empty) = d[Len(empty)]
  BY <1>2 DEF WriteRuns
<1> QED
  BY <1>1, <1>3 DEF empty

\* The last message is written last.
LEMMA WriteAppend ==
    ASSUME NEW M, \A m \in M : IsMessage(m), NEW messages \in Seq(M), NEW m \in M
    PROVE  WriteAll(Append(messages, m)) = WriteAll(messages) \o EncodeMessage(m)
<1> DEFINE more == Append(messages, m)
           N == Len(messages)
<1>1. /\ more \in Seq(M) /\ Len(more) = N + 1 /\ N \in Nat
      /\ more[N + 1] = m /\ \A n \in 1..N : more[n] = messages[n]
  BY AppendProperties, LenProperties
<1> HIDE DEF more
<1>2. PICK d : d \in WriteRuns(PartsIn(M), messages)
  BY WriteHistory
<1>3. PICK e : e \in WriteRuns(PartsIn(M), more)
  BY <1>1, WriteHistory
<1>4. /\ d[0] = <<>> /\ WriteAll(messages) = d[N]
      /\ \A n \in 1..N : d[n] = d[n - 1] \o EncodeMessage(messages[n])
  BY <1>2 DEF WriteRuns
<1>5. /\ e[0] = <<>> /\ WriteAll(more) = e[N + 1]
      /\ \A n \in 1..(N + 1) : e[n] = e[n - 1] \o EncodeMessage(more[n])
  BY <1>1, <1>3 DEF WriteRuns
<1> HIDE DEF N
<1> DEFINE T == {n \in 0..N : d[n] = e[n]}
<1>6. \A n \in 0..N : n \in T
  <2>1. 0 \in T
    BY <1>1, <1>4, <1>5
  <2>2. ASSUME NEW n \in 1..N, n - 1 \in T
        PROVE  n \in T
    <3>1. n \in 0..N /\ n \in 1..(N + 1) /\ d[n - 1] = e[n - 1] /\ more[n] = messages[n]
      BY <1>1, <2>2
    <3>2. e[n] = e[n - 1] \o EncodeMessage(more[n])
      BY <1>5, <3>1
    <3>3. d[n] = d[n - 1] \o EncodeMessage(messages[n])
      BY <1>4
    <3> QED
      BY <3>1, <3>2, <3>3
  <2> HIDE DEF T
  <2> QED
    BY <1>1, <2>1, <2>2, BoundedInduction
<1>7. N \in 0..N /\ N + 1 \in 1..(N + 1) /\ (N + 1) - 1 = N
  BY <1>1
<1>8. d[N] = e[N]
  BY <1>6, <1>7
<1>9. e[N + 1] = e[N] \o EncodeMessage(m)
  BY <1>1, <1>5, <1>7
<1> QED
  BY <1>4, <1>5, <1>8, <1>9 DEF more

\* What has been written before and after the k-th message.
LEMMA WritePrefix ==
    ASSUME NEW M, \A m \in M : IsMessage(m), NEW messages \in Seq(M), NEW k \in 1..Len(messages)
    PROVE  /\ SubSeq(messages, 1, k) = Append(SubSeq(messages, 1, k - 1), messages[k])
           /\ WriteAll(SubSeq(messages, 1, k)) =
                 WriteAll(SubSeq(messages, 1, k - 1)) \o EncodeMessage(messages[k])
<1>1. Len(messages) \in Nat /\ messages[k] \in M
  BY LenProperties, ElementOfSeq
<1>2. 1 \in 1..Len(messages) /\ k \in 1..Len(messages) /\ k - 1 \in Int
  BY <1>1
<1>3. SubSeq(messages, 1, k) = SubSeq(messages, 1, k - 1) \o << messages[k] >>
  BY <1>2, SubSeqRecursiveSecond
<1> DEFINE s == SubSeq(messages, 1, k - 1)
           x == messages[k]
<1>4. s \in Seq(M)
  <2>1. \A i \in 1..(k - 1) : messages[i] \in M
    BY <1>1, ElementOfSeq
  <2> QED
    BY <1>2, <2>1, SubSeqProperties
<1>5. x \in M
  BY <1>1
<1>6. SubSeq(messages, 1, k) = s \o << x >>
  BY <1>3
<1> HIDE DEF s, x
<1>7. SubSeq(messages, 1, k) = Append(s, x)
  BY <1>4, <1>5, <1>6, AppendIsConcat
<1>8. WriteAll(Append(s, x)) = WriteAll(s) \o EncodeMessage(x)
  BY <1>4, <1>5, WriteAppend
<1> QED
  BY <1>7, <1>8 DEF s, x

\* The first messages.
LEMMA FirstMessages ==
    ASSUME NEW M, NEW messages \in Seq(M), NEW k \in 0..Len(messages)
    PROVE  /\ SubSeq(messages, 1, k) \in Seq(M) /\ Len(SubSeq(messages, 1, k)) = k
           /\ \A i \in 1..k : SubSeq(messages, 1, k)[i] = messages[i]
<1>1. Len(messages) \in Nat /\ \A i \in 1..Len(messages) : messages[i] \in M
  BY LenProperties, ElementOfSeq
<1>2. 1 \in Int /\ k \in Int /\ \A i \in 1..k : messages[i] \in M
  BY <1>1
<1>3. /\ SubSeq(messages, 1, k) \in Seq(M)
      /\ Len(SubSeq(messages, 1, k)) = IF 1 <= k THEN k - 1 + 1 ELSE 0
      /\ \A i \in 1..(k - 1 + 1) : SubSeq(messages, 1, k)[i] = messages[1 + i - 1]
  BY <1>2, SubSeqProperties
<1> DEFINE s == SubSeq(messages, 1, k)
<1> HIDE DEF s
<1>4. Len(s) = k
  BY <1>3 DEF s
<1>5. ASSUME NEW i \in 1..k
      PROVE  s[i] = messages[i]
  <2>1. i \in 1..(k - 1 + 1) /\ 1 + i - 1 = i
    OBVIOUS
  <2> QED
    BY <1>3, <2>1 DEF s
<1> QED
  BY <1>3, <1>4, <1>5 DEF s

\* How far the first k messages reach in the stream.
Reach(messages, k) == Len(WriteAll(SubSeq(messages, 1, k)))

\* Each reaches further.
LEMMA Reaches ==
    ASSUME NEW M, \A m \in M : IsMessage(m), NEW messages \in Seq(M)
    PROVE  /\ \A k \in 0..Len(messages) : Reach(messages, k) \in Nat
           /\ Reach(messages, 0) = 0
           /\ Reach(messages, Len(messages)) = Len(WriteAll(messages))
           /\ \A k \in 1..Len(messages) :
                 Reach(messages, k) = Reach(messages, k - 1) + Len(EncodeMessage(messages[k]))
<1>1. \A k \in 0..Len(messages) : Reach(messages, k) \in Nat
  <2> TAKE k \in 0..Len(messages)
  <2>1. SubSeq(messages, 1, k) \in Seq(M)
    BY FirstMessages
  <2> QED
    BY <2>1, WriteType DEF Reach
<1>2. Reach(messages, 0) = 0
  <2>1. SubSeq(messages, 1, 0) = <<>>
    BY SubSeqEmpty
  <2>2. WriteAll(SubSeq(messages, 1, 0)) = <<>>
    BY <2>1, WriteEmpty
  <2> QED
    BY <2>2, EmptySeq DEF Reach
<1>3. Reach(messages, Len(messages)) = Len(WriteAll(messages))
  BY SubSeqFull DEF Reach
<1>4. ASSUME NEW k \in 1..Len(messages)
      PROVE  Reach(messages, k) = Reach(messages, k - 1) + Len(EncodeMessage(messages[k]))
  <2> DEFINE s == SubSeq(messages, 1, k - 1)
             w == WriteAll(s)
             e == EncodeMessage(messages[k])
  <2>1. s \in Seq(M) /\ messages[k] \in M
    <3>1. k - 1 \in 0..Len(messages)
      BY LenProperties
    <3> QED
      BY <3>1, FirstMessages, ElementOfSeq
  <2>2. e \in Seq(PartsIn(M))
    BY <2>1, EncodedIn
  <2>3. w \in Seq(PartsIn(M))
    <3> HIDE DEF s
    <3> QED
      BY <2>1, WriteType
  <2>4. WriteAll(SubSeq(messages, 1, k)) = w \o e
    BY WritePrefix
  <2>5. Reach(messages, k - 1) = Len(w)
    BY DEF Reach
  <2> HIDE DEF w, e
  <2>6. Len(w \o e) = Len(w) + Len(e)
    BY <2>2, <2>3, ConcatParts
  <2> QED
    BY <2>4, <2>5, <2>6 DEF Reach, e
<1> QED
  BY <1>1, <1>2, <1>3, <1>4

\* Every message is in the stream where the ones before it have ended.
LEMMA Written ==
    ASSUME NEW M, \A m \in M : IsMessage(m), NEW messages \in Seq(M)
    PROVE  /\ \A i \in 0..Len(messages) :
                 /\ i <= Reach(messages, i)
                 /\ \A k \in 1..i : Reach(messages, k) <= Reach(messages, i)
           /\ \A k \in 1..Len(messages) :
                 \A j \in 1..Len(EncodeMessage(messages[k])) :
                    WriteAll(messages)[Reach(messages, k - 1) + j] = EncodeMessage(messages[k])[j]
<1> DEFINE N == Len(messages)
           R(k) == Reach(messages, k)
           w(k) == WriteAll(SubSeq(messages, 1, k))
           e(k) == EncodeMessage(messages[k])
           S == {i \in 0..N : /\ i <= R(i)
                              /\ \A k \in 1..i :
                                    /\ R(k) <= R(i)
                                    /\ \A j \in 1..Len(e(k)) : w(i)[R(k - 1) + j] = e(k)[j]}
<1>1. N \in Nat
  BY LenProperties
<1>2. \A i \in 0..N : w(i) \in Seq(PartsIn(M)) /\ Len(w(i)) = R(i) /\ R(i) \in Nat
  <2> TAKE i \in 0..N
  <2>1. SubSeq(messages, 1, i) \in Seq(M)
    BY FirstMessages
  <2> QED
    BY <2>1, WriteType DEF Reach
<1>3. \A i \in 1..N : e(i) \in Seq(PartsIn(M)) /\ Len(e(i)) \in Nat \ {0}
  BY ElementOfSeq, EncodedIn
<1>4. \A i \in 1..N : w(i) = w(i - 1) \o e(i)
  BY WritePrefix
<1>5. R(0) = 0 /\ \A i \in 1..N : R(i) = R(i - 1) + Len(e(i))
  BY Reaches
<1>6. w(N) = WriteAll(messages)
  BY SubSeqFull
<1> HIDE DEF N, R, w, e
<1>7. 0 \in S
  BY <1>1, <1>5
<1>8. ASSUME NEW i \in 1..N, i - 1 \in S
      PROVE  i \in S
  <2> DEFINE v == w(i - 1)
             x == e(i)
  <2>1. i - 1 \in 0..N /\ i \in 0..N
    BY <1>1
  <2>2. /\ v \in Seq(PartsIn(M)) /\ Len(v) = R(i - 1) /\ R(i - 1) \in Nat
        /\ x \in Seq(PartsIn(M)) /\ Len(x) \in Nat \ {0}
        /\ w(i) = v \o x /\ R(i) = R(i - 1) + Len(x)
    BY <1>2, <1>3, <1>4, <1>5, <2>1
  <2>3. /\ i - 1 <= R(i - 1)
        /\ \A k \in 1..(i - 1) :
              R(k) <= R(i - 1) /\ \A j \in 1..Len(e(k)) : v[R(k - 1) + j] = e(k)[j]
    BY <1>8
  <2> HIDE DEF v, S
  <2>4. /\ \A j \in 1..Len(v) : (v \o x)[j] = v[j]
        /\ \A j \in 1..Len(x) : (v \o x)[Len(v) + j] = x[j]
    <3>1. v \in Seq(PartsIn(M)) /\ x \in Seq(PartsIn(M))
      BY <2>2
    <3> HIDE DEF x
    <3> QED
      BY <3>1, ConcatParts
  <2>5. i <= R(i)
    BY <2>1, <2>2, <2>3
  <2>6. ASSUME NEW k \in 1..i
        PROVE  R(k) <= R(i) /\ \A j \in 1..Len(e(k)) : w(i)[R(k - 1) + j] = e(k)[j]
    <3>1. CASE k = i
      BY <2>2, <2>4, <3>1
    <3>2. CASE k # i
      <4>1. k \in 1..(i - 1) /\ k \in 1..N /\ k - 1 \in 0..N
        BY <1>1, <3>2
      <4>2. R(k) <= R(i - 1) /\ \A j \in 1..Len(e(k)) : v[R(k - 1) + j] = e(k)[j]
        BY <2>3, <4>1
      <4>3. R(k) = R(k - 1) + Len(e(k)) /\ Len(e(k)) \in Nat /\ R(k - 1) \in Nat
        BY <1>2, <1>3, <1>5, <4>1
      <4>4. ASSUME NEW j \in 1..Len(e(k))
            PROVE  w(i)[R(k - 1) + j] = e(k)[j]
        <5>1. R(k - 1) + j \in 1..Len(v)
          BY <2>2, <4>2, <4>3
        <5>2. w(i)[R(k - 1) + j] = v[R(k - 1) + j]
          BY <2>2, <2>4, <5>1
        <5> QED
          BY <4>2, <5>2
      <4> QED
        BY <2>2, <4>2, <4>3, <4>4
    <3> QED
      BY <3>1, <3>2
  <2> QED
    BY <2>1, <2>5, <2>6 DEF S
<1>9. \A i \in 0..N : i \in S
  <2> HIDE DEF S
  <2> QED
    BY <1>1, <1>7, <1>8, BoundedInduction
<1>10. \A i \in 0..N : i <= R(i) /\ \A k \in 1..i : R(k) <= R(i)
  BY <1>9
<1>11. \A k \in 1..N : \A j \in 1..Len(e(k)) : w(N)[R(k - 1) + j] = e(k)[j]
  <2>1. N \in S
    BY <1>1, <1>9
  <2> QED
    BY <2>1
<1> QED
  BY <1>6, <1>10, <1>11 DEF N, R, e

-----------------------------------------------------------------------------
\* Reading what was written of some messages returns the first of them: those that
\* have arrived, up to one that could not be encoded.
LEMMA ReadWritten ==
    ASSUME NEW M, \A m \in M : IsMessage(m), NEW messages \in Seq(M),
           NEW T, Len(T) \in Nat, Len(T) <= Len(WriteAll(messages)),
           \A i \in 1..Len(T) : T[i] = WriteAll(messages)[i],
           NEW K \in 0..Len(messages), Reach(messages, K) <= Len(T),
           \A k \in 1..K : CanCode(messages[k].serial, messages[k].meta),
           K < Len(messages) =>
              \/ ~CanCode(messages[K + 1].serial, messages[K + 1].meta)
              \/ Len(T) < Reach(messages, K + 1)
    PROVE  ReadAll(T) = SubSeq(messages, 1, K)
<1> DEFINE N == Len(messages)
           L == Len(T)
           R(k) == Reach(messages, k)
           e(k) == EncodeMessage(messages[k])
           codable(k) == CanCode(messages[k].serial, messages[k].meta)
           D(n) == DecodeMessage(T, n)
           first(k) == SubSeq(messages, 1, k)
<1>1. N \in Nat /\ L \in Nat /\ K \in 0..N /\ R(K) <= L /\ \A k \in 1..K : codable(k)
  BY LenProperties
<1>2. \A k \in 1..N :
         IsMessage(messages[k]) /\ Len(e(k)) \in Nat \ {0} /\ e(k)[1] = Fixed(messages[k])
  BY ElementOfSeq, Encoded
<1>3. /\ R(0) = 0 /\ (\A k \in 0..N : R(k) \in Nat) /\ L <= R(N)
      /\ \A k \in 1..N : R(k) = R(k - 1) + Len(e(k))
  BY Reaches
<1>4. /\ \A i \in 0..N : i <= R(i) /\ \A k \in 1..i : R(k) <= R(i)
      /\ \A k \in 1..N : \A j \in 1..Len(e(k)) : WriteAll(messages)[R(k - 1) + j] = e(k)[j]
  BY Written
<1>5. ASSUME NEW k \in 1..N
      PROVE  Goes(T, R(k - 1) + 1, messages[k])
  <2>1. k - 1 \in 0..N /\ R(k - 1) \in Nat
    BY <1>1, <1>3
  <2>2. ASSUME NEW j \in 1..Len(e(k)), R(k - 1) + j <= L
        PROVE  T[R(k - 1) + j] = e(k)[j]
    <3>1. R(k - 1) + j \in 1..L
      BY <1>1, <2>1, <2>2
    <3>2. T[R(k - 1) + j] = WriteAll(messages)[R(k - 1) + j]
      BY <3>1
    <3> QED
      BY <1>4, <3>2
  <2>3. (R(k - 1) + 1) - 1 = R(k - 1)
    BY <2>1
  <2> QED
    BY <2>2, <2>3 DEF Goes
<1>6. K < N => ~codable(K + 1) \/ L < R(K + 1)
  OBVIOUS
<1>7. \A k \in 1..N : first(k) = Append(first(k - 1), messages[k])
  BY WritePrefix
<1>8. first(0) = <<>>
  BY SubSeqEmpty
<1> HIDE DEF N, L, R, e, codable, first
<1>9. ASSUME NEW k \in 1..K
      PROVE  /\ D(R(k - 1) + 1).ok /\ D(R(k - 1) + 1).next = R(k) + 1
             /\ D(R(k - 1) + 1).message = messages[k]
  <2> DEFINE n == R(k - 1) + 1
             m == messages[k]
  <2>1. k \in 1..N /\ k - 1 \in 0..N
    BY <1>1
  <2>2. n \in Nat \ {0} /\ (n - 1) + Len(e(k)) = R(k) /\ R(k) <= L /\ n + Len(e(k)) = R(k) + 1
    <3>1. R(k) <= R(K)
      BY <1>1, <1>4
    <3>2. R(k) = R(k - 1) + Len(e(k)) /\ R(k - 1) \in Nat /\ Len(e(k)) \in Nat
      BY <1>2, <1>3, <2>1
    <3>3. R(k) \in Nat /\ R(K) \in Nat /\ R(K) <= L /\ L \in Nat
      <4>1. k \in 0..N /\ K \in 0..N
        BY <1>1, <2>1
      <4> QED
        BY <1>1, <1>3, <4>1
    <3> HIDE DEF n
    <3>4. n = R(k - 1) + 1
      BY DEF n
    <3>5. n \in Nat \ {0} /\ n - 1 = R(k - 1)
      <4> DEFINE r == R(k - 1)
      <4>1. r \in Nat /\ n = r + 1
        BY <3>2, <3>4
      <4> HIDE DEF r
      <4>2. n \in Nat \ {0} /\ n - 1 = r
        BY <4>1
      <4> QED
        BY <4>2 DEF r
    <3>6. (n - 1) + Len(e(k)) = R(k)
      BY <3>2, <3>5
    <3>7. n + Len(e(k)) = R(k) + 1
      BY <3>2, <3>4
    <3>8. R(k) <= L
      BY <3>1, <3>3
    <3> QED
      BY <3>5, <3>6, <3>7, <3>8
  <2>3. IsMessage(m) /\ CanCode(m.serial, m.meta) /\ Goes(T, n, m) /\ Len(T) \in Nat
    BY <1>1, <1>2, <1>5, <2>1 DEF codable, L
  <2>4. n \in Nat \ {0} /\ (n - 1) + Len(EncodeMessage(m)) <= Len(T)
    BY <2>2 DEF e, L
  <2> HIDE DEF n, m
  <2>5. /\ DecodeMessage(T, n).ok /\ DecodeMessage(T, n).message = m
        /\ DecodeMessage(T, n).next = n + Len(EncodeMessage(m))
    BY <2>3, <2>4, DecodedWhole
  <2> QED
    BY <2>2, <2>5 DEF n, m, e
<1>10. ~D(R(K) + 1).ok
  <2> DEFINE n == R(K) + 1
  <2>1. R(K) \in Nat
    BY <1>1, <1>3
  <2>2. CASE K = N
    <3>1. ~(n + 1 <= L)
      BY <1>1, <1>3, <2>1, <2>2
    <3> HIDE DEF n
    <3>2. n + 1 <= Len(T) => T[n + 1].part = "fixed"
      BY <3>1 DEF L
    <3>3. ~D(n).ok
      BY <3>2, DecodedPartly
    <3> QED
      BY <3>3 DEF n
  <2>3. CASE K < N /\ codable(K + 1)
    <3> DEFINE m == messages[K + 1]
    <3>1. K + 1 \in 1..N /\ (K + 1) - 1 = K
      BY <1>1, <2>3
    <3>2. n \in Nat \ {0} /\ L < (n - 1) + Len(e(K + 1))
      <4>1. R(K + 1) = R(K) + Len(e(K + 1)) /\ Len(e(K + 1)) \in Nat
        BY <1>2, <1>3, <3>1
      <4>2. L < R(K + 1)
        BY <1>6, <2>3
      <4> QED
        BY <1>1, <2>1, <4>1, <4>2
    <3>3. IsMessage(m) /\ CanCode(m.serial, m.meta) /\ Goes(T, n, m) /\ Len(T) \in Nat
      BY <1>1, <1>2, <1>5, <2>3, <3>1 DEF codable, L
    <3>4. n \in Nat \ {0} /\ Len(T) < (n - 1) + Len(EncodeMessage(m))
      BY <3>2 DEF L, e
    <3> HIDE DEF n, m
    <3>5. ~D(n).ok
      BY <3>3, <3>4, DecodedCut
    <3> QED
      BY <3>5 DEF n
  <2>4. CASE K < N /\ ~codable(K + 1)
    <3>1. K + 1 \in 1..N /\ (K + 1) - 1 = K
      BY <1>1, <2>4
    <3>2. Len(e(K + 1)) = 1
      BY <1>2, <2>4, <3>1, Encoded DEF codable, e
    <3>3. R(K + 1) = n
      BY <1>3, <3>1, <3>2
    <3>4. n + 1 <= L => T[n + 1].part = "fixed"
      <4>1. SUFFICES ASSUME n + 1 <= L
                     PROVE  T[n + 1].part = "fixed"
        OBVIOUS
      <4>2. K + 1 # N
        BY <1>1, <1>3, <2>1, <3>3, <4>1
      <4>3. K + 2 \in 1..N /\ (K + 2) - 1 = K + 1
        BY <1>1, <3>1, <4>2
      <4>4. Goes(T, n + 1, messages[K + 2])
        BY <1>5, <3>3, <4>3
      <4>5. /\ IsMessage(messages[K + 2]) /\ 1 \in 1..Len(e(K + 2))
            /\ e(K + 2)[1] = Fixed(messages[K + 2])
        BY <1>2, <4>3
      <4>6. ((n + 1) - 1) + 1 = n + 1
        BY <2>1
      <4>7. T[n + 1] = Fixed(messages[K + 2])
        <5> DEFINE j == 1
                   p == n + 1
                   m == messages[K + 2]
        <5>1. j \in 1..Len(EncodeMessage(m)) /\ (p - 1) + j = p /\ p <= Len(T)
          BY <4>1, <4>5, <4>6 DEF e, L
        <5>2. Goes(T, p, m) /\ EncodeMessage(m)[j] = Fixed(m)
          BY <4>4, <4>5 DEF e
        <5> HIDE DEF j, p, m
        <5>3. T[p] = Fixed(m)
          BY <5>1, <5>2 DEF Goes
        <5> QED
          BY <5>3 DEF p, m
      <4> QED
        BY <4>7 DEF Fixed
    <3> HIDE DEF n
    <3>5. ~D(n).ok
      BY <3>4, DecodedPartly DEF L
    <3> QED
      BY <3>5 DEF n
  <2> QED
    BY <1>1, <2>2, <2>3, <2>4
<1> DEFINE done(i) == IF i <= K THEN i ELSE K
           at(i) == [next |-> R(done(i)) + 1, messages |-> first(done(i))]
           next(x) == IF D(x.next).ok
                      THEN [next |-> D(x.next).next,
                            messages |-> Append(x.messages, D(x.next).message)]
                      ELSE x
           start == [next |-> 1, messages |-> <<>>]
           body(g) == [n \in 0..L |-> IF n = 0 THEN start ELSE next(g[n - 1])]
           g == [i \in 0..L |-> at(i)]
           d == CHOOSE h : h = body(h)
<1>11. ReadAll(T) = d[L].messages
  BY DEF ReadAll, L
<1>12. at(0) = start
  <2>1. done(0) = 0
    BY <1>1
  <2> QED
    BY <1>3, <1>8, <2>1
<1>13. ASSUME NEW i \in 1..L
       PROVE  at(i) = next(at(i - 1))
  <2>1. CASE i <= K
    <3>1. i \in 1..K /\ done(i) = i /\ done(i - 1) = i - 1
      BY <1>1, <2>1
    <3>2. at(i - 1) = [next |-> R(i - 1) + 1, messages |-> first(i - 1)]
      BY <3>1
    <3>3. at(i) = [next |-> R(i) + 1, messages |-> Append(first(i - 1), messages[i])]
      <4>1. i \in 1..N
        BY <1>1, <2>1
      <4>2. first(i) = Append(first(i - 1), messages[i])
        BY <1>7, <4>1
      <4>3. at(i) = [next |-> R(i) + 1, messages |-> first(i)]
        BY <3>1
      <4> QED
        BY <4>2, <4>3
    <3> DEFINE x == at(i - 1)
    <3>4. x.next = R(i - 1) + 1 /\ x.messages = first(i - 1)
      BY <3>2
    <3> HIDE DEF at, D, x
    <3>5. D(x.next).ok /\ D(x.next).next = R(i) + 1 /\ D(x.next).message = messages[i]
      BY <1>9, <3>1, <3>4
    <3>6. next(x) = [next |-> R(i) + 1, messages |-> Append(first(i - 1), messages[i])]
      BY <3>4, <3>5
    <3> QED
      BY <3>3, <3>6 DEF x
  <2>2. CASE ~(i <= K)
    <3>1. done(i) = K /\ done(i - 1) = K
      BY <1>1, <2>2
    <3>2. at(i - 1) = [next |-> R(K) + 1, messages |-> first(K)] /\ at(i) = at(i - 1)
      BY <3>1
    <3> HIDE DEF at, D
    <3> QED
      BY <1>10, <3>2
  <2> QED
    BY <2>1, <2>2
<1> HIDE DEF at, next, start
<1>14. g = body(g)
  <2>1. \A n \in 0..L : n # 0 => n \in 1..L /\ n - 1 \in 0..L
    BY <1>1
  <2> QED
    BY <1>12, <1>13, <2>1
<1>15. d = body(d)
  <2> HIDE DEF body
  <2> QED
    BY <1>14
<1> HIDE DEF d
<1>16. d[0] = start /\ \A n \in 1..L : d[n] = next(d[n - 1])
  BY <1>1, <1>15
<1> DEFINE S == {n \in 0..L : d[n] = at(n)}
<1>17. \A n \in 0..L : n \in S
  <2>1. 0 \in S
    BY <1>1, <1>12, <1>16
  <2>2. \A n \in 1..L : n - 1 \in S => n \in S
    BY <1>1, <1>13, <1>16
  <2> HIDE DEF S
  <2> QED
    BY <1>1, <2>1, <2>2, BoundedInduction
<1>18. d[L] = at(L)
  BY <1>1, <1>17
<1>19. K <= L
  BY <1>1, <1>3, <1>4
<1>20. done(L) = K
  BY <1>1, <1>19
<1>21. at(L).messages = first(K)
  BY <1>20 DEF at
<1> QED
  BY <1>11, <1>18, <1>21 DEF first

-----------------------------------------------------------------------------
\* The methods of a type that can be called.
MethodsOf(r) == [m \in GetServiceMethods(r.methods) |-> r.methods[m]]

\* The tables of services that registrations can make.
Tables(R) == UNION {[D -> {MethodsOf(r) : r \in R}] : D \in SUBSET {r.name : r \in R}}

\* RegisterService keeps to them.
LEMMA RegisterType ==
    ASSUME NEW R, NEW services \in Tables(R), NEW r \in R
    PROVE  RegisterService(services, r) \in Tables(R)
<1>1. PICK D \in SUBSET {x.name : x \in R} : services \in [D -> {MethodsOf(x) : x \in R}]
  BY DEF Tables
<1>2. CASE r.kind # "pointer" \/ GetServiceMethods(r.methods) = {}
  BY <1>2 DEF RegisterService
<1>3. CASE ~(r.kind # "pointer" \/ GetServiceMethods(r.methods) = {})
  <2> DEFINE E == D \union {r.name}
             G == {MethodsOf(x) : x \in R}
             f == [n \in E |-> IF n = r.name THEN MethodsOf(r) ELSE services[n]]
  <2>1. RegisterService(services, r) = f
    BY <1>1, <1>3 DEF RegisterService, MethodsOf
  <2>2. E \in SUBSET {x.name : x \in R}
    BY <1>1
  <2>3. \A n \in E : (IF n = r.name THEN MethodsOf(r) ELSE services[n]) \in G
    BY <1>1
  <2>4. f \in [E -> G]
    BY <2>3
  <2>5. \A x : x \in [E -> G] => x \in Tables(R)
    <3> HIDE DEF E
    <3> QED
      BY <2>2 DEF Tables
  <2> HIDE DEF E, G, f
  <2>6. f \in Tables(R)
    BY <2>4, <2>5
  <2> QED
    BY <2>1, <2>6
<1> QED
  BY <1>2, <1>3

\* What Registered builds on its way.
RegisterRuns(R, registrations) ==
    {d \in [0..Len(registrations) -> Tables(R)] :
        /\ d[0] = NoServices
        /\ \A n \in 1..Len(registrations) : d[n] = RegisterService(d[n - 1], registrations[n])
        /\ Registered(registrations) = d[Len(registrations)]}

\* They exist.
LEMMA RegisterHistory ==
    ASSUME NEW R, NEW registrations \in Seq(R)
    PROVE  RegisterRuns(R, registrations) # {}
<1> DEFINE N == Len(registrations)
           Y == Tables(R)
           step(x, n) == RegisterService(x, registrations[n])
           F == [p \in Y \X (1..N) |-> step(p[1], p[2])]
           body(g) == [n \in 0..N |-> IF n = 0 THEN NoServices ELSE step(g[n - 1], n)]
           d == CHOOSE g : g = body(g)
<1>1. N \in Nat /\ \A n \in 1..N : registrations[n] \in R
  BY LenProperties, ElementOfSeq
<1>2. \A x \in Y, n \in 1..N : step(x, n) \in Y
  BY <1>1, RegisterType
<1>3. NoServices \in Y
  <2>1. NoServices \in [{} -> {MethodsOf(r) : r \in R}]
    BY DEF NoServices
  <2> QED
    BY <2>1 DEF Tables
<1>11. Registered(registrations) = d[N]
  BY DEF Registered
<1> HIDE DEF N, Y, step
<1>4. F \in [Y \X (1..N) -> Y]
  BY <1>2
<1>5. PICK g : g \in Histories(N, Y, NoServices, F)
  <2> HIDE DEF F
  <2> QED
    BY <1>1, <1>3, <1>4, HistoryExists
<1>6. g \in [0..N -> Y] /\ g[0] = NoServices /\ \A n \in 1..N : g[n] = F[<<g[n - 1], n>>]
  BY <1>5 DEF Histories
<1>7. \A n \in 1..N : n - 1 \in 0..N
  BY <1>1
<1>8. \A n \in 1..N : g[n] = step(g[n - 1], n)
  BY <1>6, <1>7
<1>9. g = body(g)
  BY <1>1, <1>6, <1>8
<1>10. d = body(d)
  <2> HIDE DEF body
  <2> QED
    BY <1>9
<1> HIDE DEF d
<1>12. d[0] = NoServices /\ \A n \in 1..N : d[n] = step(d[n - 1], n)
  BY <1>1, <1>10
<1> DEFINE T == {n \in 0..N : d[n] \in Y}
<1>13. \A n \in 0..N : n \in T
  <2>1. 0 \in T
    BY <1>1, <1>3, <1>12
  <2>2. \A n \in 1..N : n - 1 \in T => n \in T
    BY <1>1, <1>2, <1>12
  <2> HIDE DEF T
  <2> QED
    BY <1>1, <2>1, <2>2, BoundedInduction
<1>14. d \in [0..N -> Y]
  BY <1>10, <1>13
<1> QED
  BY <1>11, <1>12, <1>14 DEF N, Y, step, RegisterRuns

\* Nothing is registered of nothing.
LEMMA RegisteredEmpty == Registered(<<>>) = NoServices
<1> DEFINE empty == <<>>
<1>1. empty \in Seq({}) /\ Len(empty) = 0
  BY EmptySeq
<1> HIDE DEF empty
<1>2. PICK d : d \in RegisterRuns({}, empty)
  BY <1>1, RegisterHistory
<1>3. d[0] = NoServices /\ Registered(empty) = d[Len(empty)]
  BY <1>2 DEF RegisterRuns
<1> QED
  BY <1>1, <1>3 DEF empty

\* The last registration comes last.
LEMMA RegisteredAppend ==
    ASSUME NEW R, NEW registrations \in Seq(R), NEW r \in R
    PROVE  /\ Registered(registrations) \in Tables(R)
           /\ Registered(Append(registrations, r)) = RegisterService(Registered(registrations), r)
<1> DEFINE more == Append(registrations, r)
           N == Len(registrations)
<1>1. /\ more \in Seq(R) /\ Len(more) = N + 1 /\ N \in Nat
      /\ more[N + 1] = r /\ \A n \in 1..N : more[n] = registrations[n]
  BY AppendProperties, LenProperties
<1> HIDE DEF more
<1>2. PICK d : d \in RegisterRuns(R, registrations)
  BY RegisterHistory
<1>3. PICK e : e \in RegisterRuns(R, more)
  BY <1>1, RegisterHistory
<1>4. /\ d[0] = NoServices /\ Registered(registrations) = d[N] /\ d \in [0..N -> Tables(R)]
      /\ \A n \in 1..N : d[n] = RegisterService(d[n - 1], registrations[n])
  BY <1>2 DEF RegisterRuns
<1>5. /\ e[0] = NoServices /\ Registered(more) = e[N + 1]
      /\ \A n \in 1..(N + 1) : e[n] = RegisterService(e[n - 1], more[n])
  BY <1>1, <1>3 DEF RegisterRuns
<1> HIDE DEF N
<1> DEFINE T == {n \in 0..N : d[n] = e[n]}
<1>6. \A n \in 0..N : n \in T
  <2>1. 0 \in T
    BY <1>1, <1>4, <1>5
  <2>2. ASSUME NEW n \in 1..N, n - 1 \in T
        PROVE  n \in T
    <3>1. n \in 0..N /\ n \in 1..(N + 1) /\ d[n - 1] = e[n - 1] /\ more[n] = registrations[n]
      BY <1>1, <2>2
    <3>2. e[n] = RegisterService(e[n - 1], more[n])
      BY <1>5, <3>1
    <3>3. d[n] = RegisterService(d[n - 1], registrations[n])
      BY <1>4
    <3> QED
      BY <3>1, <3>2, <3>3
  <2> HIDE DEF T
  <2> QED
    BY <1>1, <2>1, <2>2, BoundedInduction
<1>7. N \in 0..N /\ N + 1 \in 1..(N + 1) /\ (N + 1) - 1 = N
  BY <1>1
<1>8. d[N] = e[N] /\ d[N] \in Tables(R)
  BY <1>4, <1>6, <1>7
<1>9. e[N + 1] = RegisterService(e[N], r)
  BY <1>1, <1>5, <1>7
<1> QED
  BY <1>4, <1>5, <1>8, <1>9 DEF more

\* The registrations that can serve a name.
Offers(registrations, w) ==
    {n \in DOMAIN registrations :
        /\ registrations[n].kind = "pointer" /\ registrations[n].name = w
        /\ \E k \in DOMAIN registrations[n].methods : ValidateMethod(registrations[n].methods[k])}

\* The last of them serves it.
LEMMA LastServes ==
    ASSUME NEW R, NEW registrations \in Seq(R), NEW w
    PROVE  /\ w \in DOMAIN Registered(registrations) <=> Offers(registrations, w) # {}
           /\ Offers(registrations, w) # {} =>
                 \E n \in Offers(registrations, w) :
                    /\ n \in Nat /\ \A k \in Offers(registrations, w) : k \in Nat /\ k <= n
                    /\ Registered(registrations)[w] = MethodsOf(registrations[n])
<1> DEFINE Serves(s) ==
             \E n \in Offers(s, w) :
                /\ n \in Nat /\ \A k \in Offers(s, w) : k \in Nat /\ k <= n
                /\ Registered(s)[w] = MethodsOf(s[n])
           S == {s \in Seq(R) : /\ w \in DOMAIN Registered(s) <=> Offers(s, w) # {}
                                /\ Offers(s, w) # {} => Serves(s)}
<1>1. <<>> \in S
  <2>1. <<>> \in Seq(R) /\ DOMAIN <<>> = {}
    BY EmptySeq
  <2>2. Offers(<<>>, w) = {}
    BY <2>1 DEF Offers
  <2>3. DOMAIN Registered(<<>>) = {}
    BY RegisteredEmpty DEF NoServices
  <2> QED
    BY <2>1, <2>2, <2>3
<1>2. ASSUME NEW s \in Seq(R), NEW r \in R, s \in S
      PROVE  Append(s, r) \in S
  <2> DEFINE t == Append(s, r)
             N == Len(s)
  <2>1. /\ t \in Seq(R) /\ DOMAIN t = 1..(N + 1) /\ DOMAIN s = 1..N /\ N \in Nat
        /\ t[N + 1] = r /\ \A n \in 1..N : t[n] = s[n]
    BY AppendProperties, LenProperties
  <2>2. Registered(t) = RegisterService(Registered(s), r)
    BY RegisteredAppend
  <2>3. /\ w \in DOMAIN Registered(s) <=> Offers(s, w) # {}
        /\ Offers(s, w) # {} => Serves(s)
    BY <1>2
  <2> HIDE DEF t, N
  <2> DEFINE fits == r.kind = "pointer" /\ GetServiceMethods(r.methods) # {}
  <2>4. fits <=> r.kind = "pointer" /\ \E k \in DOMAIN r.methods : ValidateMethod(r.methods[k])
    BY DEF GetServiceMethods
  <2>5. Offers(s, w) \subseteq 1..N
    BY <2>1 DEF Offers
  <2>6. \A n \in 1..N : n \in Offers(t, w) <=> n \in Offers(s, w)
    BY <2>1 DEF Offers
  <2>7. N + 1 \in Offers(t, w) <=> fits /\ r.name = w
    <3>1. N + 1 \in DOMAIN t
      BY <2>1
    <3> QED
      BY <2>1, <2>4, <3>1 DEF Offers
  <2>8. Offers(t, w) \subseteq (1..N) \union {N + 1}
    BY <2>1 DEF Offers
  <2>9. CASE fits /\ r.name = w
    <3>1. RegisterService(Registered(s), r) =
             [n \in DOMAIN Registered(s) \union {r.name} |->
                 IF n = r.name THEN MethodsOf(r) ELSE Registered(s)[n]]
      BY <2>9 DEF RegisterService, MethodsOf
    <3>2. w \in DOMAIN Registered(t) /\ Registered(t)[w] = MethodsOf(r)
      BY <2>2, <2>9, <3>1
    <3>3. /\ N + 1 \in Offers(t, w) /\ N + 1 \in Nat
          /\ \A k \in Offers(t, w) : k \in Nat /\ k <= N + 1
      BY <2>1, <2>7, <2>8, <2>9
    <3>4. Registered(t)[w] = MethodsOf(t[N + 1])
      BY <2>1, <3>2
    <3>5. Serves(t)
      BY <3>3, <3>4
    <3> HIDE DEF Serves
    <3> QED
      BY <2>1, <3>2, <3>3, <3>5 DEF t
  <2>10. CASE ~(fits /\ r.name = w)
    <3>1. Offers(t, w) = Offers(s, w)
      BY <2>1, <2>5, <2>6, <2>7, <2>8, <2>10
    <3>2. /\ w \in DOMAIN Registered(t) <=> w \in DOMAIN Registered(s)
          /\ w \in DOMAIN Registered(s) => Registered(t)[w] = Registered(s)[w]
      <4>1. CASE fits
        <5>1. RegisterService(Registered(s), r) =
                 [n \in DOMAIN Registered(s) \union {r.name} |->
                     IF n = r.name THEN MethodsOf(r) ELSE Registered(s)[n]]
          BY <4>1 DEF RegisterService, MethodsOf
        <5>2. w # r.name
          BY <2>10, <4>1
        <5> QED
          BY <2>2, <5>1, <5>2
      <4>2. CASE ~fits
        <5>1. RegisterService(Registered(s), r) = Registered(s)
          BY <4>2 DEF RegisterService
        <5> QED
          BY <2>2, <5>1
      <4> QED
        BY <4>1, <4>2
    <3>3. ASSUME Offers(t, w) # {}
          PROVE  Serves(t)
      <4>1. PICK n \in Offers(s, w) : /\ n \in Nat /\ \A k \in Offers(s, w) : k \in Nat /\ k <= n
                                      /\ Registered(s)[w] = MethodsOf(s[n])
        BY <2>3, <3>1, <3>3
      <4>2. t[n] = s[n]
        BY <2>1, <2>5
      <4>3. Registered(t)[w] = MethodsOf(t[n])
        BY <2>3, <3>1, <3>2, <3>3, <4>1, <4>2
      <4> QED
        BY <3>1, <4>1, <4>3
    <3> HIDE DEF Serves
    <3> QED
      BY <2>1, <2>3, <3>1, <3>2, <3>3 DEF t
  <2> QED
    BY <2>9, <2>10
<1>3. \A s \in Seq(R) : s \in S
  <2> HIDE DEF S
  <2> QED
    BY <1>1, <1>2, SequenceInduction
<1> QED
  BY <1>3

\* A method that returns, returns a payload.
Returns(r) ==
    \A k \in DOMAIN r.methods : r.methods[k].result = Nil \/ IsSequence(r.methods[k].result)

\* An answer that can be written, to m, which says what was expected.
IsAnswer(a, m, expected) ==
    /\ IsMessage(a) /\ CanCode(a.serial, a.meta)
    /\ a.id = m.id /\ Result(a) = expected

\* An error is an answer.
LEMMA ErrorIsAnswer ==
    ASSUME NEW m, NEW why \in Reasons
    PROVE  IsAnswer(SendError(m, why), m, Nil)
<1> DEFINE a == SendError(m, why)
<1>1. [error |-> why] \in [error : Reasons]
  OBVIOUS
<1>2. [error |-> why] # Nil
  BY <1>1, NilIsNoError
<1>3. /\ a.type = "response" /\ a.serial = "json" /\ a.id = m.id
      /\ a.meta = [error |-> why] /\ a.payload = <<>>
  BY DEF SendError
<1>4. IsSequence(<<>>)
  BY DEF IsSequence
<1>5. a = [type |-> a.type, serial |-> a.serial, id |-> a.id, meta |-> a.meta,
           payload |-> a.payload]
  BY DEF SendError
<1> HIDE DEF a
<1>6. IsMessage(a)
  BY <1>3, <1>4, <1>5 DEF IsMessage
<1>7. CanCode(a.serial, a.meta) /\ Result(a) = Nil
  BY <1>2, <1>3 DEF CanCode, Result
<1> QED
  BY <1>3, <1>6, <1>7 DEF IsAnswer, a

\* So is a response.
LEMMA ResponseIsAnswer ==
    ASSUME NEW m, NEW payload, IsSequence(payload)
    PROVE  IsAnswer(SendResponse(m, payload), m, payload)
<1> DEFINE a == SendResponse(m, payload)
<1>1. /\ a.type = "response" /\ a.serial = m.serial /\ a.id = m.id
      /\ a.meta = Nil /\ a.payload = payload
  BY DEF SendResponse
<1>2. a = [type |-> a.type, serial |-> a.serial, id |-> a.id, meta |-> a.meta,
           payload |-> a.payload]
  BY DEF SendResponse
<1> HIDE DEF a
<1>3. IsMessage(a)
  BY <1>1, <1>2 DEF IsMessage
<1>4. CanCode(a.serial, a.meta) /\ Result(a) = payload
  BY <1>1 DEF CanCode, Result
<1> QED
  BY <1>1, <1>3, <1>4 DEF IsAnswer, a

\* A request that was decoded is answered by the method it names, or by an error.
LEMMA RequestIsAnswered ==
    ASSUME NEW R, \A r \in R : Returns(r), NEW registrations \in Seq(R),
           NEW m, m.meta # Nil, CanCode(m.serial, m.meta)
    PROVE  IsAnswer(Answer(Registered(registrations), m), m, Expected(registrations, m))
<1> DEFINE services == Registered(registrations)
           w == m.meta.service
           named == Offers(registrations, w)
           n == CHOOSE i \in named : \A k \in named : k <= i
           methods == registrations[n].methods
           call == m.meta.method
           expected == Expected(registrations, m)
<1>1. m.serial = "json" /\ m.serial \in Codecs
  BY DEF CanCode, Codecs
<1>2. /\ named = {} \/ call \notin DOMAIN methods => expected = Nil
      /\ ~(named = {} \/ call \notin DOMAIN methods) =>
            expected = IF /\ ValidateMethod(methods[call]) /\ methods[call].arg = m.payload
                          /\ methods[call].encodes
                       THEN methods[call].result ELSE Nil
  BY DEF Expected, Offers
<1>3. \A why \in Reasons : IsAnswer(SendError(m, why), m, Nil)
  BY ErrorIsAnswer
<1>4. {"service", "method", "serializer", "decode", "execution", "encode"} = Reasons
  BY DEF Reasons
<1> HIDE DEF expected
<1>5. CASE w \notin DOMAIN services
  <2>1. Answer(services, m) = SendError(m, "service")
    BY <1>5 DEF Answer
  <2>2. expected = Nil
    BY <1>2, <1>5, LastServes
  <2> QED
    BY <1>3, <1>4, <2>1, <2>2 DEF expected
<1>6. CASE w \in DOMAIN services
  <2>1. PICK i \in named : /\ i \in Nat /\ \A k \in named : k \in Nat /\ k <= i
                           /\ services[w] = MethodsOf(registrations[i])
    BY <1>6, LastServes
  <2>2. n \in named /\ \A k \in named : k <= n
    BY <2>1
  <2>3. n = i
    <3>1. n <= i /\ i <= n /\ n \in Nat /\ i \in Nat
      BY <2>1, <2>2
    <3> HIDE DEF n
    <3> QED
      BY <3>1
  <2>4. services[w] = MethodsOf(registrations[n]) /\ named # {}
    BY <2>1, <2>3
  <2>5. registrations[n] \in R
    <3>1. n \in 1..Len(registrations)
      BY <2>2, LenProperties DEF Offers
    <3> HIDE DEF n
    <3> QED
      BY <3>1, ElementOfSeq
  <2>6. Returns(registrations[n])
    BY <2>5
  <2> HIDE DEF n
  <2>7. /\ DOMAIN services[w] = GetServiceMethods(methods)
        /\ \A k \in GetServiceMethods(methods) : services[w][k] = methods[k]
    BY <2>4 DEF MethodsOf
  <2>8. \A k \in DOMAIN methods : methods[k].result = Nil \/ IsSequence(methods[k].result)
    BY <2>6 DEF Returns
  <2>9. GetServiceMethods(methods) = {k \in DOMAIN methods : ValidateMethod(methods[k])}
    BY DEF GetServiceMethods
  <2> HIDE DEF methods, named
  <2>10. CASE call \notin DOMAIN services[w]
    <3>1. Answer(services, m) = SendError(m, "method")
      BY <1>6, <2>10 DEF Answer
    <3>2. expected = Nil
      BY <1>2, <2>4, <2>7, <2>9, <2>10
    <3> QED
      BY <1>3, <1>4, <3>1, <3>2 DEF expected
  <2>11. CASE call \in DOMAIN services[w]
    <3> DEFINE method == methods[call]
    <3>1. /\ call \in DOMAIN methods /\ ValidateMethod(method) /\ services[w][call] = method
          /\ method.result = Nil \/ IsSequence(method.result)
      BY <2>7, <2>8, <2>9, <2>11
    <3>2. expected = IF method.arg = m.payload /\ method.encodes THEN method.result ELSE Nil
      BY <1>2, <2>4, <3>1
    <3>3. Answer(services, m) =
             IF m.payload # method.arg THEN SendError(m, "decode")
             ELSE IF method.result = Nil THEN SendError(m, "execution")
             ELSE IF ~method.encodes THEN SendError(m, "encode")
             ELSE SendResponse(m, method.result)
      BY <1>1, <1>6, <2>11, <3>1 DEF Answer, InvokeMethod
    <3> HIDE DEF method, services, call, w
    <3>4. CASE m.payload # method.arg
      <4>1. Answer(services, m) = SendError(m, "decode") /\ expected = Nil
        BY <3>2, <3>3, <3>4
      <4> QED
        BY <1>3, <1>4, <4>1 DEF expected, services
    <3>5. CASE m.payload = method.arg /\ method.result = Nil
      <4>1. Answer(services, m) = SendError(m, "execution") /\ expected = Nil
        BY <3>2, <3>3, <3>5
      <4> QED
        BY <1>3, <1>4, <4>1 DEF expected, services
    <3>6. CASE m.payload = method.arg /\ method.result # Nil /\ ~method.encodes
      <4>1. Answer(services, m) = SendError(m, "encode") /\ expected = Nil
        BY <3>2, <3>3, <3>6
      <4> QED
        BY <1>3, <1>4, <4>1 DEF expected, services
    <3>7. CASE m.payload = method.arg /\ method.result # Nil /\ method.encodes
      <4>1. /\ Answer(services, m) = SendResponse(m, method.result)
            /\ expected = method.result /\ IsSequence(method.result)
        BY <3>1, <3>2, <3>3, <3>7
      <4> QED
        BY <4>1, ResponseIsAnswer DEF expected, services
    <3> QED
      BY <3>4, <3>5, <3>6, <3>7
  <2> QED
    BY <2>10, <2>11
<1> QED
  BY <1>5, <1>6

\* A bounded set of numbers has a greatest one.
LEMMA Greatest ==
    ASSUME NEW N \in Nat, NEW S \in SUBSET (0..N), S # {}
    PROVE  \E k \in S : \A n \in S : n <= k
<1> DEFINE T == {n \in Nat : n <= N /\ N - n \in S}
<1>1. PICK s : s \in S
  OBVIOUS
<1>2. N - s \in T
  <2>1. s \in 0..N
    BY <1>1
  <2>2. N - s \in Nat /\ N - s <= N /\ N - (N - s) = s
    BY <2>1
  <2> QED
    BY <1>1, <2>2
<1>3. T \in SUBSET Nat
  OBVIOUS
<1> HIDE DEF T
<1>4. PICK x \in T : \A y \in T : ~(<<y, x>> \in Below)
  BY <1>2, <1>3, BelowWellFounded, WFMin
<1>5. x \in Nat /\ x <= N /\ N - x \in S
  BY <1>4 DEF T
<1>6. ASSUME NEW n \in S
      PROVE  n <= N - x
  <2>1. n \in 0..N
    OBVIOUS
  <2>2. N - n \in Nat /\ N - n <= N /\ N - (N - n) = n
    BY <2>1
  <2>3. N - n \in T
    BY <2>2 DEF T
  <2>4. ~(N - n < x)
    <3>1. ~(<<N - n, x>> \in Below)
      BY <1>4, <2>3
    <3> QED
      BY <1>5, <2>2, <3>1 DEF Below
  <2> QED
    BY <1>5, <2>1, <2>4
<1> QED
  BY <1>5, <1>6

\* Requests are answered in their order, each by what it asked for, and none is
\* passed over but for the break or the end of the server.
LEMMA RequestsAreAnswered ==
    ASSUME NEW R, \A r \in R : Returns(r), NEW registrations \in Seq(R),
           NEW Q, \A m \in Q : IsMessage(m), NEW requests \in Seq(Q),
           NEW cut \in Nat
    PROVE  AnswersMatch(registrations, requests, cut)
<1> DEFINE N == Len(requests)
           stream == WriteAll(requests)
           received == IF cut < Len(stream) THEN SubSeq(stream, 1, cut) ELSE stream
           services == Registered(registrations)
           answers == ReadAll(Serve(services, received))
           codable(k) == CanCode(requests[k].serial, requests[k].meta)
           fatal(k) == Panics(services, requests[k])
           whole == {n \in 0..N : (\A k \in 1..n : codable(k)) /\ Reach(requests, n) <= cut}
           served == {n \in 0..N : /\ \A k \in 1..n : codable(k) /\ ~fatal(k)
                                   /\ Reach(requests, n) <= cut}
<1>1. SUFFICES /\ Len(answers) \in served /\ \A n \in served : n <= Len(answers)
               /\ \A n \in DOMAIN answers :
                     /\ answers[n].id = requests[n].id
                     /\ Result(answers[n]) = Expected(registrations, requests[n])
  BY DEF AnswersMatch, Reach
<1>2. N \in Nat /\ \A n \in 1..N : requests[n] \in Q
  BY LenProperties, ElementOfSeq
<1>3. stream \in Seq(PartsIn(Q)) /\ Len(stream) \in Nat
  BY WriteType
<1> DEFINE L == Len(received)
<1>4. L \in Nat /\ L <= cut /\ L <= Len(stream) /\ \A i \in 1..L : received[i] = stream[i]
  <2>1. CASE cut < Len(stream)
    <3> HIDE DEF stream
    <3>1. cut \in 0..Len(stream)
      BY <1>3, <2>1
    <3>2. /\ Len(SubSeq(stream, 1, cut)) = cut
          /\ \A i \in 1..cut : SubSeq(stream, 1, cut)[i] = stream[i]
      BY <1>3, <3>1, FirstMessages
    <3> QED
      BY <1>3, <2>1, <3>2
  <2>2. CASE ~(cut < Len(stream))
    <3> HIDE DEF stream
    <3> QED
      BY <1>3, <2>2
  <2> QED
    BY <2>1, <2>2
<1>5. L = cut \/ L = Len(stream)
  <2>1. CASE cut < Len(stream)
    <3> HIDE DEF stream
    <3>1. cut \in 0..Len(stream)
      BY <1>3, <2>1
    <3>2. Len(SubSeq(stream, 1, cut)) = cut
      BY <1>3, <3>1, FirstMessages
    <3> QED
      BY <2>1, <3>2
  <2> QED
    BY <2>1
<1>6. /\ \A k \in 0..N : Reach(requests, k) \in Nat
      /\ Reach(requests, 0) = 0 /\ Reach(requests, N) = Len(stream)
  BY Reaches
<1>7. \A k \in 1..N : Reach(requests, k) <= Reach(requests, N)
  <2>1. N \in 0..N
    BY <1>2
  <2> QED
    BY <2>1, Written
<1> HIDE DEF N, L, stream, received, codable, fatal
<1>8. 0 \in whole
  BY <1>2, <1>6
<1>9. whole \in SUBSET (0..N)
  OBVIOUS
<1>10. PICK K \in whole : \A n \in whole : n <= K
  <2> HIDE DEF whole
  <2> QED
    BY <1>2, <1>8, <1>9, Greatest
<1>11. K \in 0..N /\ Reach(requests, K) <= cut /\ \A k \in 1..K : codable(k)
  BY <1>10
<1>12. Reach(requests, K) <= L
  <2>1. Reach(requests, K) <= Len(stream)
    <3>1. K = 0 \/ K \in 1..N
      BY <1>2, <1>11
    <3> QED
      BY <1>3, <1>6, <1>7, <3>1
  <2> QED
    BY <1>5, <1>11, <2>1
<1>13. K < N => ~codable(K + 1) \/ L < Reach(requests, K + 1)
  <2>1. SUFFICES ASSUME K < N, codable(K + 1)
                 PROVE  L < Reach(requests, K + 1)
    OBVIOUS
  <2>2. K + 1 \in 0..N /\ ~(K + 1 <= K)
    BY <1>2, <1>11, <2>1
  <2>3. \A k \in 1..(K + 1) : codable(k)
    BY <1>11, <2>1
  <2>4. K + 1 \notin whole
    <3> HIDE DEF whole
    <3> QED
      BY <1>10, <2>2
  <2>5. ~(Reach(requests, K + 1) <= cut)
    BY <2>2, <2>3, <2>4
  <2> QED
    BY <1>4, <1>6, <2>2, <2>5
<1>14. ReadAll(received) = SubSeq(requests, 1, K)
  BY <1>4, <1>11, <1>12, <1>13, ReadWritten DEF N, L, stream, codable
<1> DEFINE given == SubSeq(requests, 1, K)
           calm == {n \in 0..Len(given) : \A k \in 1..n : ~Panics(services, given[k])}
           C == CHOOSE n \in calm : \A k \in calm : k <= n
           replies == [n \in 1..C |-> Answer(services, given[n])]
           A == {Answer(services, requests[n]) : n \in 1..C}
<1>15. /\ given \in Seq(Q) /\ Len(given) = K /\ K \in Nat
       /\ \A n \in 1..K : given[n] = requests[n]
  BY <1>11, FirstMessages DEF N
<1>16. Serve(services, received) = WriteAll(replies)
  BY <1>14 DEF Serve
<1> HIDE DEF given
<1>27. calm = {n \in 0..K : \A k \in 1..n : ~fatal(k)}
  <2>1. ASSUME NEW n \in 0..K, NEW k \in 1..n
        PROVE  Panics(services, given[k]) <=> fatal(k)
    <3>1. given[k] = requests[k]
      BY <1>15
    <3> QED
      BY <3>1 DEF fatal
  <2> QED
    BY <1>15, <2>1
<1> HIDE DEF calm
<1>28. C \in calm /\ \A n \in calm : n <= C
  <2>1. 0 \in calm /\ calm \in SUBSET (0..K)
    BY <1>15, <1>27
  <2>2. \E n \in calm : \A k \in calm : k <= n
    <3>1. calm # {}
      BY <2>1
    <3> QED
      BY <1>15, <2>1, <3>1, Greatest
  <2> QED
    BY <2>2
<1> HIDE DEF C
<1>29. C \in 0..K /\ C \in Nat /\ \A k \in 1..C : ~fatal(k)
  BY <1>15, <1>27, <1>28
<1>30. C \in served
  <2>1. C \in 0..N /\ \A k \in 1..C : codable(k) /\ ~fatal(k)
    BY <1>2, <1>11, <1>15, <1>29
  <2>2. Reach(requests, C) <= cut
    <3>1. CASE C = K
      BY <1>11, <3>1
    <3>2. CASE C # K /\ C = 0
      BY <1>6, <3>2
    <3>3. CASE C # K /\ C # 0
      <4>1. C \in 1..K
        BY <1>29, <3>3
      <4>2. Reach(requests, C) <= Reach(requests, K)
        BY <1>11, <4>1, Written DEF N
      <4>3. Reach(requests, C) \in Nat /\ Reach(requests, K) \in Nat
        BY <1>6, <1>11, <2>1
      <4> QED
        BY <1>11, <4>2, <4>3
    <3> QED
      BY <3>1, <3>2, <3>3
  <2> QED
    BY <2>1, <2>2
<1>31. \A n \in served : n <= C
  <2>1. SUFFICES ASSUME NEW n \in served
                 PROVE  n <= C
    OBVIOUS
  <2>2. n \in whole
    OBVIOUS
  <2>3. n \in 0..N /\ n <= K /\ \A k \in 1..n : ~fatal(k)
    <3>1. n <= K
      <4> HIDE DEF whole, served
      <4> QED
        BY <1>10, <2>2
    <3> QED
      BY <3>1
  <2>4. n \in 0..K
    BY <1>2, <1>15, <2>3
  <2> QED
    BY <1>27, <1>28, <2>3, <2>4
<1>17. ASSUME NEW n \in 1..C
       PROVE  IsAnswer(Answer(services, requests[n]), requests[n],
                       Expected(registrations, requests[n]))
  <2>1. n \in 1..N /\ codable(n) /\ ~fatal(n)
    BY <1>2, <1>11, <1>15, <1>29
  <2> DEFINE m == requests[n]
  <2>2. m.meta # Nil /\ CanCode(m.serial, m.meta)
    BY <2>1 DEF codable, fatal, Panics
  <2> HIDE DEF m
  <2>3. IsAnswer(Answer(services, m), m, Expected(registrations, m))
    BY <2>2, RequestIsAnswered
  <2> QED
    BY <2>3 DEF m
<1>18. \A a \in A : IsMessage(a) /\ CanCode(a.serial, a.meta)
  BY <1>17 DEF IsAnswer
<1>19. replies = [n \in 1..C |-> Answer(services, requests[n])]
  <2>1. \A n \in 1..C : given[n] = requests[n]
    BY <1>15, <1>29
  <2> QED
    BY <2>1
<1> HIDE DEF services
<1>20. replies \in Seq(A) /\ Len(replies) = C /\ \A n \in 1..C : replies[n] \in A
  <2>1. \A n \in 1..C : Answer(services, requests[n]) \in A
    OBVIOUS
  <2> HIDE DEF A, replies
  <2>2. DOMAIN replies = 1..C /\ \A n \in 1..C : replies[n] = Answer(services, requests[n])
    BY <1>19
  <2>3. replies \in [1..C -> A]
    BY <1>19, <2>1
  <2>4. replies \in Seq(A)
    BY <1>29, <2>3
  <2> QED
    BY <1>29, <2>3, <2>4
<1> HIDE DEF replies, A
<1>21. ReadAll(WriteAll(replies)) = replies
  <2> DEFINE T == WriteAll(replies)
  <2>1. Len(T) \in Nat
    BY <1>18, <1>20, WriteType
  <2>2. Reach(replies, C) = Len(T)
    BY <1>18, <1>20, Reaches
  <2>3. \A k \in 1..C : CanCode(replies[k].serial, replies[k].meta)
    BY <1>18, <1>20
  <2>4. /\ C \in 0..Len(replies) /\ ~(C < Len(replies))
        /\ Reach(replies, C) <= Len(T) /\ Len(T) <= Len(T)
    BY <1>20, <1>29, <2>1, <2>2
  <2>5. T = WriteAll(replies)
    OBVIOUS
  <2> HIDE DEF T
  <2>6. \A m \in A : IsMessage(m)
    BY <1>18
  <2>7. Len(T) <= Len(WriteAll(replies)) /\ \A i \in 1..Len(T) : T[i] = WriteAll(replies)[i]
    BY <2>4, <2>5
  <2>8. ReadAll(T) = SubSeq(replies, 1, C)
    BY <1>20, <2>1, <2>3, <2>4, <2>6, <2>7, ReadWritten
  <2>9. SubSeq(replies, 1, C) = replies
    BY <1>20, SubSeqFull
  <2> QED
    BY <2>5, <2>8, <2>9
<1>22. answers = replies
  BY <1>16, <1>21
<1>23. \A n \in 1..C : replies[n] = Answer(services, requests[n])
  BY <1>19
<1>24. DOMAIN replies = 1..C
  BY <1>19
<1> HIDE DEF answers, served
<1>25. Len(answers) = C
  BY <1>20, <1>22
<1>26. ASSUME NEW n \in DOMAIN answers
       PROVE  /\ answers[n].id = requests[n].id
              /\ Result(answers[n]) = Expected(registrations, requests[n])
  <2>1. n \in 1..C /\ answers[n] = Answer(services, requests[n])
    BY <1>22, <1>23, <1>24
  <2> QED
    BY <1>17, <2>1 DEF IsAnswer
<1> QED
  BY <1>25, <1>26, <1>30, <1>31

-----------------------------------------------------------------------------
(***************************************************************************)
(* The properties of MCAlgorithms: for every input, and so for the samples *)
(***************************************************************************)
SampleSets ==
    RouteSamples \union ABSamples \union FastestSamples \union WaitSamples \union DelaySamples
        \union RateSamples \union AverageSamples \union WireSamples

\* A sample stays in the set it was drawn from.
Drawn == sample = <<>> \/ sample \in SampleSets

\* The run's behaviours are among those of the samples and of the breaker, which
\* the theorems speak of.
LEMMA PurePartsAreBoth == PureParts => Samples /\ Spec
<1>1. ASSUME [ \/ Init /\ DrawSample /\ UNCHANGED vars
               \/ sample = <<>> /\ Next /\ UNCHANGED sample ]_<<sample, vars>>
      PROVE  [DrawSample]_sample /\ [Next]_vars
  BY <1>1 DEF vars
<1> QED
  BY <1>1, PTL DEF PureParts, PureInit, NoSample, Samples, Spec

\* It is an invariant.
LEMMA DrawnHolds == Samples => []Drawn
<1>1. NoSample => Drawn
  BY DEF NoSample, Drawn
<1>2. Drawn /\ [DrawSample]_sample => Drawn'
  BY DEF Drawn, DrawSample, Draw, SampleSets
<1> QED
  BY <1>1, <1>2, PTL DEF Samples

\* The first component of a sample names the set.
LEMMA Kinds ==
    /\ \A x \in RouteSamples : x[1] = "route"
    /\ \A x \in ABSamples : x[1] = "ab"
    /\ \A x \in FastestSamples : x[1] = "fastest"
    /\ \A x \in WaitSamples : x[1] = "wait"
    /\ \A x \in DelaySamples : x[1] = "delay"
    /\ \A x \in RateSamples : x[1] = "rate"
    /\ \A x \in AverageSamples : x[1] = "average"
    /\ \A x \in WireSamples : x[1] = "wire"
<1>1. \A x \in RouteSamples : x[1] = "route"
  BY DEF RouteSamples
<1>2. \A x \in ABSamples : x[1] = "ab"
  BY DEF ABSamples
<1>3. \A x \in FastestSamples : x[1] = "fastest"
  BY DEF FastestSamples
<1>4. \A x \in WaitSamples : x[1] = "wait"
  BY DEF WaitSamples
<1>5. \A x \in DelaySamples : x[1] = "delay"
  BY DEF DelaySamples
<1>6. \A x \in RateSamples : x[1] = "rate"
  BY DEF RateSamples
<1>7. \A x \in AverageSamples : x[1] = "average"
  BY DEF AverageSamples
<1>8. \A x \in WireSamples : x[1] = "wire"
  BY DEF WireSamples
<1> QED
  BY <1>1, <1>2, <1>3, <1>4, <1>5, <1>6, <1>7, <1>8

\* So a sample of a kind is from the set of that kind.
LEMMA DrawnFrom ==
    ASSUME Drawn
    PROVE  /\ Of("route") => sample \in RouteSamples
           /\ Of("ab") => sample \in ABSamples
           /\ Of("fastest") => sample \in FastestSamples
           /\ Of("wait") => sample \in WaitSamples
           /\ Of("delay") => sample \in DelaySamples
           /\ Of("rate") => sample \in RateSamples
           /\ Of("average") => sample \in AverageSamples
           /\ Of("wire") => sample \in WireSamples
<1>1. \A k : Of(k) => sample \in SampleSets /\ sample[1] = k
  BY DEF Drawn, Of
<1> QED
  BY <1>1, Kinds DEF SampleSets

\* Bounded sequences are sequences.
LEMMA SeqOfType ==
    ASSUME NEW S, NEW n \in Nat, NEW s \in SeqOf(S, n)
    PROVE  s \in Seq(S) /\ Len(s) \in Nat
<1>1. PICK m \in 0..n : s \in [1..m -> S]
  BY DEF SeqOf
<1>2. m \in Nat
  BY <1>1
<1> QED
  BY <1>1, <1>2

\* A sequence over a set is one over a larger set.
LEMMA SeqWiden ==
    ASSUME NEW S, NEW T, S \subseteq T, NEW s \in Seq(S)
    PROVE  s \in Seq(T)
BY LenProperties, ElementOfSeq

-----------------------------------------------------------------------------
\* The error counters agree with their window, whatever its size and the reports
\* (detector.go:162-207).
THEOREM RatesHold ==
    /\ \A size \in Int, reports \in Seq(Reports) : RateIsOfWindow(size, reports)
    /\ Samples => []Rates
<1>1. ASSUME Drawn
      PROVE  Rates
  <2>1. SUFFICES ASSUME Of("rate")
                 PROVE  RateIsOfWindow(sample[2], sample[3])
    BY DEF Rates
  <2> DEFINE N == 11
             bools == SeqOf(BOOLEAN, N)
  <2>2. PICK size \in {0, 6, 10}, r \in bools :
           sample = <<"rate", size, [n \in DOMAIN r |-> [ok |-> r[n], duration |-> 1]]>>
    BY <1>1, <2>1, DrawnFrom DEF RateSamples
  <2>3. N \in Nat
    OBVIOUS
  <2> HIDE DEF N
  <2>4. r \in Seq(BOOLEAN)
    BY <2>3, SeqOfType
  <2> HIDE DEF bools
  <2> DEFINE reports == [n \in DOMAIN r |-> [ok |-> r[n], duration |-> 1]]
  <2>5. reports \in Seq(Reports)
    <3>1. Len(r) \in Nat /\ DOMAIN r = 1..Len(r) /\ \A n \in 1..Len(r) : r[n] \in BOOLEAN
      BY <2>4, LenProperties, ElementOfSeq
    <3> DEFINE L == Len(r)
               item(n) == [ok |-> r[n], duration |-> 1]
    <3>2. \A n \in 1..L : item(n) \in Reports
      BY <3>1 DEF Reports
    <3>3. reports = [n \in 1..L |-> item(n)] /\ L \in Nat
      BY <3>1
    <3> HIDE DEF L, item, reports
    <3> QED
      BY <3>2, <3>3
  <2>6. size \in Int
    OBVIOUS
  <2> HIDE DEF reports
  <2>7. sample[2] = size /\ sample[3] = reports
    BY <2>2 DEF reports
  <2> QED
    BY <2>5, <2>6, <2>7, RateOfWindow
<1> QED
  BY <1>1, RateOfWindow, DrawnHolds, PTL

\* Averages computed in place stay among their samples (metrics.go:26-52).
THEOREM AveragesHold ==
    /\ \A samples \in Int, reports \in Seq(Reports) : AveragesWithinSamples(samples, reports)
    /\ Samples => []Averages
<1>1. ASSUME Drawn
      PROVE  Averages
  <2>1. SUFFICES ASSUME Of("average")
                 PROVE  AveragesWithinSamples(sample[2], sample[3])
    BY DEF Averages
  <2> DEFINE N == 5
             R == [ok : {TRUE}, duration : {0, 3, 20}] \union [ok : {FALSE}, duration : {5}]
  <2>2. PICK size \in {0, 1, 3}, r \in SeqOf(R, N) : sample = <<"average", size, r>>
    BY <1>1, <2>1, DrawnFrom DEF AverageSamples
  <2>3. N \in Nat
    OBVIOUS
  <2>4. R \subseteq Reports
    <3>1. \A ok \in BOOLEAN, d \in Nat : [ok |-> ok, duration |-> d] \in Reports
      BY DEF Reports
    <3>2. \A x \in [ok : {TRUE}, duration : {0, 3, 20}] : x \in Reports
      <4>1. TAKE x \in [ok : {TRUE}, duration : {0, 3, 20}]
      <4>2. PICK b \in {TRUE}, d \in {0, 3, 20} : x = [ok |-> b, duration |-> d]
        OBVIOUS
      <4> QED
        BY <3>1, <4>2
    <3>3. \A x \in [ok : {FALSE}, duration : {5}] : x \in Reports
      <4>1. TAKE x \in [ok : {FALSE}, duration : {5}]
      <4>2. PICK b \in {FALSE}, d \in {5} : x = [ok |-> b, duration |-> d]
        OBVIOUS
      <4> QED
        BY <3>1, <4>2
    <3> QED
      BY <3>2, <3>3
  <2> HIDE DEF N, R
  <2>5. r \in Seq(R)
    BY <2>3, SeqOfType
  <2>6. r \in Seq(Reports)
    BY <2>4, <2>5, SeqWiden
  <2>7. size \in Int /\ sample[2] = size /\ sample[3] = r
    BY <2>2
  <2> QED
    BY <2>6, <2>7, AveragesAmongSamples
<1> QED
  BY <1>1, AveragesAmongSamples, DrawnHolds, PTL

-----------------------------------------------------------------------------
\* The values that the options of the samples carry.
OptionValues == UNION {{o[f] : f \in DOMAIN o} : o \in Options}

\* They have the types that Go gives them.
LEMMA OptionsTyped ==
    \A o \in Options : /\ o = [f \in DOMAIN o |-> o[f]] /\ DOMAIN o \subseteq Fields
                       /\ \A f \in DOMAIN o : TypedValue(f, o[f])
BY DEF Options, Fields, DefaultConfig, TypedValue, NumberFields

\* So the samples' options are options.
LEMMA OptionsAreOptions == Options \subseteq OptionsOver(OptionValues)
<1>1. SUFFICES ASSUME NEW o \in Options
               PROVE  o \in OptionsOver(OptionValues)
  OBVIOUS
<1>2. o \in [DOMAIN o -> OptionValues] /\ DOMAIN o \in SUBSET Fields
  <2>1. \A f \in DOMAIN o : o[f] \in OptionValues
    BY DEF OptionValues
  <2> QED
    BY <2>1, OptionsTyped
<1> QED
  BY <1>2, OptionsTyped DEF OptionsOver

\* Retries end, and their waits stay in their bounds, for every configuration that
\* options can make, whatever wraps the policy and the errors (retry.go:16-254,
\* config.go:80-248); the delay between attempts to recover grows to its limit
\* (recovery.go:245-261).
THEOREM WaitsHold ==
    /\ \A V, errs : \A options \in Seq(OptionsOver(V)), outer \in Int :
          Len(errs) \in Nat =>
             /\ Sound(NewConfig(options))
             /\ WaitsBounded(ContextBased(NewRetryPolicy(NewConfig(options)), outer), errs)
    /\ \A attempts \in Nat : RecoveryDelayGrows(attempts)
    /\ Samples => []Waits
<1>1. \A V, errs : \A options \in Seq(OptionsOver(V)), outer \in Int :
         Len(errs) \in Nat =>
            /\ Sound(NewConfig(options))
            /\ WaitsBounded(ContextBased(NewRetryPolicy(NewConfig(options)), outer), errs)
  BY OptionsWait
<1>2. ASSUME Drawn
      PROVE  Waits
  <2>1. ASSUME Of("wait")
        PROVE  LET config == NewConfig(sample[2])
               IN  /\ Sound(config)
                   /\ WaitsBounded(ContextBased(NewRetryPolicy(config), sample[3]), sample[4])
    <3> DEFINE N == 2
               M == 3
               Errors == {"timeout", "refused", NoError}
    <3>1. PICK options \in SeqOf(Options, N), outer \in {NoOuter, 0, 2, 4},
               errs \in SeqOf(Errors, M) : sample = <<"wait", options, outer, errs>>
      BY <1>2, <2>1, DrawnFrom DEF WaitSamples
    <3>2. N \in Nat /\ M \in Nat /\ outer \in Int
      BY DEF NoOuter
    <3>3. sample[2] = options /\ sample[3] = outer /\ sample[4] = errs
      BY <3>1
    <3> HIDE DEF N, M, Errors
    <3>4. Len(errs) \in Nat
      BY <3>2, SeqOfType
    <3>5. options \in Seq(OptionsOver(OptionValues))
      <4>1. options \in Seq(Options)
        BY <3>2, SeqOfType
      <4> QED
        BY <4>1, OptionsAreOptions, SeqWiden
    <3> QED
      BY <3>2, <3>3, <3>4, <3>5, OptionsWait
  <2>2. ASSUME Of("delay")
        PROVE  RecoveryDelayGrows(sample[2])
    <3>1. PICK n \in 0..20 : sample = <<"delay", n>>
      BY <1>2, <2>2, DrawnFrom DEF DelaySamples
    <3>2. n \in Nat /\ sample[2] = n
      BY <3>1
    <3> QED
      BY <3>2, RecoveryDelaysGrow
  <2> QED
    BY <2>1, <2>2 DEF Waits
<1>3. Samples => []Waits
  BY <1>2, DrawnHolds, PTL
<1> QED
  BY <1>1, <1>3, RecoveryDelaysGrow

-----------------------------------------------------------------------------
\* The lists of the samples are lists of its instances.
InstanceSet == ToSet(Instances)

\* A tuple of five.
LEMMA FiveOf ==
    ASSUME NEW a, NEW b, NEW c, NEW d, NEW e
    PROVE  LET s == <<a, b, c, d, e>>
           IN  s \in Seq({a, b, c, d, e}) /\ Len(s) = 5 /\ DOMAIN s = 1..5
OBVIOUS

\* What the proofs use of the instances.
LEMMA InstancesType ==
    /\ Instances \in Seq(InstanceSet) /\ Instances # <<>>
    /\ \A i \in InstanceSet : i.latency \in Int
<1>1. /\ Instances \in Seq({Instances[1], Instances[2], Instances[3], Instances[4], Instances[5]})
      /\ Len(Instances) = 5
  BY FiveOf DEF Instances
<1>2. /\ Instances[1].latency = 1 /\ Instances[2].latency = 2 /\ Instances[3].latency = 3
      /\ Instances[4].latency = 3 /\ Instances[5].latency = 2
  BY DEF Instances
<1>3. InstanceSet = {Instances[1], Instances[2], Instances[3], Instances[4], Instances[5]}
  <2>1. DOMAIN Instances = {1, 2, 3, 4, 5}
    <3>1. DOMAIN Instances = 1..5
      BY <1>1, LenProperties
    <3> QED
      BY <3>1
  <2> QED
    BY <2>1 DEF InstanceSet, ToSet
<1>4. Instances # <<>>
  BY <1>1
<1> QED
  BY <1>1, <1>2, <1>3, <1>4

\* A reversed list is a list.
LEMMA ReverseType ==
    ASSUME NEW S, NEW s \in Seq(S)
    PROVE  Reverse(s) \in Seq(S) /\ Len(Reverse(s)) = Len(s)
<1> DEFINE N == Len(s)
<1>1. N \in Nat /\ \A i \in 1..N : s[i] \in S
  BY LenProperties, ElementOfSeq
<1>2. Reverse(s) = [i \in 1..N |-> s[(N - i) + 1]]
  BY DEF Reverse
<1> HIDE DEF N
<1>3. \A i \in 1..N : s[(N - i) + 1] \in S
  <2>1. \A i \in 1..N : (N - i) + 1 \in 1..N
    BY <1>1
  <2> QED
    BY <1>1, <2>1
<1> QED
  BY <1>1, <1>2, <1>3 DEF N

\* The lists of the samples are lists of instances.
LEMMA ListsType == Lists \subseteq Seq(InstanceSet)
<1>1. \A S : Keep(Instances, S) \in Seq(InstanceSet)
  BY InstancesType, KeepType
<1>2. Reverse(Instances) \in Seq(InstanceSet) /\ Reverse(Instances) # <<>>
  <2>1. Len(Instances) # 0
    BY InstancesType, LenProperties, EmptySeq
  <2>2. Reverse(Instances) \in Seq(InstanceSet) /\ Len(Reverse(Instances)) = Len(Instances)
    BY InstancesType, ReverseType
  <2>3. Reverse(Instances) # <<>>
    BY <2>1, <2>2, EmptySeq
  <2> QED
    BY <2>2, <2>3
<1>3. Tail(Reverse(Instances)) \in Seq(InstanceSet)
  BY <1>2, HeadTailProperties
<1> QED
  BY <1>1, <1>2, <1>3 DEF Lists

\* A chain of routers is a filter, and a group answers for its last good
\* configuration, whatever the routers, the configurations and the list
\* (router.go:79-96, group.go:173-196).
THEOREM RoutesHold ==
    /\ \A R, X, config, update, wanted :
          (\A r \in R : r.kind \in RouterKinds) =>
             \A routers \in Seq(R), list \in Seq(X) :
                RoutesAreFilters(routers, config, update, wanted, list)
    /\ Samples => []Routes
<1>1. ASSUME Drawn
      PROVE  Routes
  <2>1. SUFFICES ASSUME Of("route")
                 PROVE  RoutesAreFilters(sample[2], sample[3], sample[4], sample[5], sample[6])
    BY DEF Routes
  <2> DEFINE N == 2
             Made == {c \in Matchers : CreateMatcher(c) # None}
             Some == {l \in Lists : Len(l) \in {2, 5}}
  <2>2. PICK routers \in SeqOf(Routers, N), config \in Made, update \in Matchers,
             wanted \in {None, "canary", "other"}, list \in Some :
           sample = <<"route", routers, config, update, wanted, list>>
    BY <1>1, <2>1, DrawnFrom DEF RouteSamples
  <2>3. N \in Nat /\ list \in Seq(InstanceSet)
    BY ListsType
  <2>4. /\ sample[2] = routers /\ sample[3] = config /\ sample[4] = update
        /\ sample[5] = wanted /\ sample[6] = list
    BY <2>2
  <2> HIDE DEF N
  <2>5. routers \in Seq(Routers)
    BY <2>3, SeqOfType
  <2>6. \A r \in Routers : r.kind \in RouterKinds
    BY DEF Routers, RouterKinds
  <2>7. RoutesAreFilters(routers, config, update, wanted, list)
    BY <2>3, <2>5, <2>6, RoutersFilter
  <2> QED
    BY <2>4, <2>7
<1>2. Samples => []Routes
  BY <1>1, DrawnHolds, PTL
<1> QED
  BY <1>2, RoutersFilter

\* An A/B selector at the end of a chain serves one group, and serves if it can,
\* whatever the selectors before it, the ratio and the list
\* (selector/group.go:91-127, chain.go:33-67).
THEOREM ABTestsHold ==
    /\ \A R, X, s, target, forced :
          s.kind = "ab" /\ (\A r \in R : r.kind \in SelectorKinds /\ r.name # s.name) =>
             \A selectors \in Seq(R), list \in Seq(X) :
                ABServes(s, selectors, target, forced, list)
    /\ Samples => []ABTests
<1>1. ASSUME Drawn
      PROVE  ABTests
  <2>1. SUFFICES ASSUME Of("ab")
                 PROVE  ABServes(sample[2], sample[3], sample[4], sample[5], sample[6])
    BY DEF ABTests
  <2> DEFINE N == 2
             ab(b, p) == [kind |-> "ab", name |-> "ab", a |-> "a", b |-> b, percent |-> p]
  <2>2. PICK b \in {"a", "b", NoName}, p \in {0, 50, 51, 100}, selectors \in SeqOf(Selectors, N),
             target \in {None, "c"}, forced \in {None, "a", "c", "d", NoName}, list \in Lists :
           sample = <<"ab", ab(b, p), selectors, target, forced, list>>
    BY <1>1, <2>1, DrawnFrom DEF ABSamples
  <2>3. N \in Nat /\ list \in Seq(InstanceSet)
    BY ListsType
  <2> DEFINE s == ab(b, p)
  <2>4. /\ sample[2] = s /\ sample[3] = selectors /\ sample[4] = target
        /\ sample[5] = forced /\ sample[6] = list
    BY <2>2
  <2>5. s.kind = "ab" /\ s.name = "ab"
    OBVIOUS
  <2> HIDE DEF N, ab, s
  <2>6. selectors \in Seq(Selectors)
    BY <2>3, SeqOfType
  <2>7. \A r \in Selectors : r.kind \in SelectorKinds /\ r.name # "ab"
    BY DEF Selectors, SelectorKinds
  <2>8. ABServes(s, selectors, target, forced, list)
    BY <2>3, <2>5, <2>6, <2>7, ABChainServes
  <2> QED
    BY <2>4, <2>8
<1>2. Samples => []ABTests
  BY <1>1, DrawnHolds, PTL
<1> QED
  BY <1>2, ABChainServes

\* The instance chosen is enabled and the fastest of those, whatever the list and
\* the number of tries (fastest.go:59-83).
THEOREM FastestChosenHolds ==
    /\ \A X : None \notin X /\ (\A x \in X : x.latency \in Int) =>
          \A list \in Seq(X), retryTimes \in Int : FastestIsBest(list, retryTimes)
    /\ Samples => []FastestChosen
<1>1. ASSUME Drawn
      PROVE  FastestChosen
  <2>1. SUFFICES ASSUME Of("fastest")
                 PROVE  FastestIsBest(sample[2], sample[3])
    BY DEF FastestChosen
  <2> DEFINE Short == {l \in Lists : Len(l) <= 4}
  <2>2. PICK list \in Short, r \in 0..4 : sample = <<"fastest", list, r>>
    BY <1>1, <2>1, DrawnFrom DEF FastestSamples
  <2>3. list \in Seq(InstanceSet) /\ r \in Int
    BY ListsType
  <2>4. sample[2] = list /\ sample[3] = r
    BY <2>2
  <2>5. None \notin InstanceSet
    BY NoneIsNoInstance DEF InstanceSet
  <2>6. FastestIsBest(list, r)
    BY <2>3, <2>5, InstancesType, FastestOfList
  <2> QED
    BY <2>4, <2>6
<1>2. Samples => []FastestChosen
  BY <1>1, DrawnHolds, PTL
<1> QED
  BY <1>2, FastestOfList

\* What the proofs use of the types and the requests of the samples.
LEMMA WireSamplesType ==
    /\ \A r \in Types : Returns(r)
    /\ \A q \in Requests, n \in Nat :
          IsMessage([q EXCEPT !.id = n])
<1>1. IsSequence(<<>>) /\ IsSequence(<<1>>) /\ IsSequence(<<1, 2>>)
  BY DEF IsSequence
<1>2. Echo.result = <<1, 2>> /\ [Echo EXCEPT !.exported = FALSE].result = <<1, 2>>
      /\ [Echo EXCEPT !.panics = TRUE].result = <<1, 2>>
      /\ [Echo EXCEPT !.encodes = FALSE].result = <<1, 2>>
      /\ [Echo EXCEPT !.result = Nil].result = Nil
      /\ [Echo EXCEPT !.ins = <<"pointer", "pointer">>].result = <<1, 2>>
  BY DEF Echo
<1>3. ASSUME NEW r \in Types
      PROVE  Returns(r)
  <2>1. \A k \in DOMAIN r.methods :
           r.methods[k] \in {Echo, [Echo EXCEPT !.exported = FALSE], [Echo EXCEPT !.result = Nil],
                             [Echo EXCEPT !.ins = <<"pointer", "pointer">>],
                             [Echo EXCEPT !.encodes = FALSE], [Echo EXCEPT !.panics = TRUE]}
    BY DEF Types
  <2>2. \A k \in DOMAIN r.methods : r.methods[k].result \in {Nil, <<1, 2>>}
    BY <1>2, <2>1
  <2> QED
    BY <1>1, <2>2 DEF Returns
<1>4. ASSUME NEW q \in Requests, NEW n \in Nat
      PROVE  IsMessage([q EXCEPT !.id = n])
  <2>1. /\ q.payload \in {<<>>, <<1>>}
        /\ q = [type |-> q.type, serial |-> q.serial, payload |-> q.payload, id |-> q.id,
                meta |-> q.meta]
    BY DEF Requests, Request, RequestWith
  <2> DEFINE m == [q EXCEPT !.id = n]
  <2>3. /\ m.meta = q.meta /\ m.payload = q.payload
        /\ m = [type |-> m.type, serial |-> m.serial, id |-> m.id, meta |-> m.meta,
                payload |-> m.payload]
    BY <2>1
  <2>4. IsSequence(q.payload)
    BY <1>1, <2>1
  <2> HIDE DEF m
  <2>5. IsMessage(m)
    BY <2>3, <2>4 DEF IsMessage
  <2> QED
    BY <2>5 DEF m
<1> QED
  BY <1>3, <1>4

\* Answers belong to their requests, whatever is registered and requested and
\* wherever the connection breaks (protocol.go, server.go:66-145).
THEOREM AnswersHold ==
    /\ \A R, Q : (\A r \in R : Returns(r)) /\ (\A m \in Q : IsMessage(m)) =>
          \A registrations \in Seq(R), requests \in Seq(Q), cut \in Nat :
             AnswersMatch(registrations, requests, cut)
    /\ Samples => []Answers
<1>1. ASSUME Drawn
      PROVE  Answers
  <2>1. SUFFICES ASSUME Of("wire")
                 PROVE  AnswersMatch(sample[2], sample[3], sample[4])
    BY DEF Answers
  <2> DEFINE I == 2
             J == 3
             numbered(r) == [n \in DOMAIN r |-> [r[n] EXCEPT !.id = n]]
  <2>2. PICK types \in SeqOf(Types, I), r \in SeqOf(Requests, J), cut \in 0..12 :
           sample = <<"wire", types, numbered(r), cut>>
    BY <1>1, <2>1, DrawnFrom DEF WireSamples
  <2>3. I \in Nat /\ J \in Nat /\ cut \in Nat
    OBVIOUS
  <2> DEFINE requests == numbered(r)
             Q == {[q EXCEPT !.id = n] : q \in Requests, n \in Nat}
  <2>4. sample[2] = types /\ sample[3] = requests /\ sample[4] = cut
    BY <2>2
  <2> HIDE DEF I, J
  <2>5. types \in Seq(Types) /\ r \in Seq(Requests)
    BY <2>3, SeqOfType
  <2>6. Len(r) \in Nat /\ DOMAIN r = 1..Len(r) /\ \A n \in 1..Len(r) : r[n] \in Requests
    BY <2>5, LenProperties, ElementOfSeq
  <2>7. requests \in Seq(Q)
    <3>1. \A n \in 1..Len(r) : [r[n] EXCEPT !.id = n] \in Q
      BY <2>6
    <3> HIDE DEF Q
    <3>2. requests \in [1..Len(r) -> Q]
      BY <2>6, <3>1
    <3> QED
      BY <2>6, <3>2
  <2>8. ASSUME NEW m \in Q
        PROVE  IsMessage(m)
    <3>1. PICK q \in Requests, n \in Nat : m = [q EXCEPT !.id = n]
      OBVIOUS
    <3>2. IsMessage([q EXCEPT !.id = n])
      BY WireSamplesType
    <3> QED
      BY <3>1, <3>2
  <2>9. \A x \in Types : Returns(x)
    BY WireSamplesType
  <2> HIDE DEF Q, requests
  <2>10. AnswersMatch(types, requests, cut)
    BY <2>3, <2>5, <2>7, <2>8, <2>9, RequestsAreAnswered
  <2> QED
    BY <2>4, <2>10
<1>2. Samples => []Answers
  BY <1>1, DrawnHolds, PTL
<1> QED
  BY <1>2, RequestsAreAnswered

=============================================================================
