------------------------------ MODULE Monitors ------------------------------
(***************************************************************************)
(* What the failover package computes from the results of requests to one  *)
(* instance: ErrorRateDetector (detector.go), SimpleInstanceMonitor and    *)
(* InMemoryMetricsCollector (metrics.go).  Every operation runs under the  *)
(* lock of its object, so operators over the sequence of reports suffice.  *)
(* A report is [ok, duration].                                             *)
(***************************************************************************)
EXTENDS Integers, Sequences, SequencesExt, FiniteSetsExt

\* The last n elements of a sequence, or all of it.
Latest(n, s) == SubSeq(s, IF Len(s) > n THEN Len(s) - n + 1 ELSE 1, Len(s))

Failures(window) == Cardinality({n \in DOMAIN window : ~window[n]})

-----------------------------------------------------------------------------
(***************************************************************************)
(* ErrorRateDetector                                                       *)
(***************************************************************************)
NewRate == [window |-> <<>>, requests |-> 0, errors |-> 0, status |-> "unknown"]

\* What a size that is not positive stands for.
WindowSize(size) == IF size <= 0 THEN 100 ELSE size

\* Which status a report leaves, by rate and number of samples.
RateStatus(errors, requests, before) ==
    CASE errors * 2 > requests /\ requests >= 10 -> "unhealthy"
      [] errors * 5 > requests /\ requests >= 5 /\ ~(errors * 2 > requests /\ requests >= 10)
            -> "suspect"
      [] errors * 5 <= requests /\ requests >= 5 -> "healthy"
      [] OTHER -> before

\* Mutant: the oldest result leaves the window but not the error count.
DroppedOldestStays(d, size) ==
    IF Len(d.window) < WindowSize(size) THEN d
    ELSE [d EXCEPT !.window = Tail(@), !.requests = @ - 1]

\* Room for one more result.
DroppedOldest(d, size) ==
    IF Len(d.window) < WindowSize(size) THEN d
    ELSE [d EXCEPT !.window = Tail(@), !.requests = @ - 1,
                   !.errors = IF Head(d.window) THEN @ ELSE @ - 1]

ReportRequest(d, size, ok) ==
    LET e == DroppedOldest(d, size)
        errors == e.errors + IF ok THEN 0 ELSE 1
        requests == e.requests + 1
    IN  [window |-> Append(e.window, ok), requests |-> requests, errors |-> errors,
         status |-> RateStatus(errors, requests, e.status)]

\* Detect: healthy when nothing is known, or when what is known has expired.
DetectRate(d, expired) ==
    IF d.status = "unknown" \/ expired THEN "healthy" ELSE d.status

RateAfter(size, reports) ==
    LET d[n \in 0..Len(reports)] ==
            IF n = 0 THEN NewRate ELSE ReportRequest(d[n - 1], size, reports[n].ok)
    IN  d[Len(reports)]

-----------------------------------------------------------------------------
(***************************************************************************)
(* SimpleInstanceMonitor                                                   *)
(***************************************************************************)
NewStats == [total |-> 0, good |-> 0, bad |-> 0, average |-> 0, streak |-> 0]

\* Division of integers in Go truncates towards zero.
Quotient(a, b) == IF a >= 0 THEN a \div b ELSE -((-a) \div b)

\* Mutant: the plain mean of the old average and the new duration, per request.
NewAverageScaled(average, duration, total) == Quotient(average + duration, total)

\* The divisor counts failures too, which have no duration.
NewAverage(average, duration, total) ==
    IF average = 0 THEN duration ELSE average + Quotient(duration - average, total)

ReportSuccess(s, duration) ==
    [s EXCEPT !.total = @ + 1, !.good = @ + 1, !.streak = 0,
              !.average = NewAverage(@, duration, s.total + 1)]

ReportFailure(s) == [s EXCEPT !.total = @ + 1, !.bad = @ + 1, !.streak = @ + 1]

GetStatus(s, recent) ==
    CASE s.streak >= 3 -> "unhealthy"
      [] s.streak \in 1..2 /\ recent -> "suspect"
      [] OTHER -> "healthy"

Reported(s, r) == IF r.ok THEN ReportSuccess(s, r.duration) ELSE ReportFailure(s)

StatsAfter(reports) ==
    LET s[n \in 0..Len(reports)] ==
            IF n = 0 THEN NewStats ELSE Reported(s[n - 1], reports[n])
    IN  s[Len(reports)]

(***************************************************************************)
(* InMemoryMetricsCollector: the latencies of the last few requests.       *)
(***************************************************************************)
RecordLatency(latencies, samples, latency) ==
    Append(IF Len(latencies) >= WindowSize(samples) THEN Tail(latencies) ELSE latencies, latency)

LatenciesAfter(samples, reports) ==
    LET l[n \in 0..Len(reports)] ==
            IF n = 0 THEN <<>> ELSE RecordLatency(l[n - 1], samples, reports[n].duration)
    IN  l[Len(reports)]

Total(latencies) ==
    LET sum[n \in 0..Len(latencies)] == IF n = 0 THEN 0 ELSE sum[n - 1] + latencies[n]
    IN  sum[Len(latencies)]

GetAverageLatency(latencies) ==
    IF latencies = <<>> THEN 0 ELSE Total(latencies) \div Len(latencies)

-----------------------------------------------------------------------------
(***************************************************************************)
(* Properties                                                              *)
(***************************************************************************)
\* detector.go:162-207 keeps two counters beside the window: after any number of
\* requests they agree with it, the window holds the latest results, and the
\* status is the one these results call for, however often the window has
\* turned over and whatever the status was before.
RateIsOfWindow(size, reports) ==
    LET d == RateAfter(size, reports)
        latest == Latest(WindowSize(size), [n \in DOMAIN reports |-> reports[n].ok])
        bad == Failures(latest)
    IN  /\ d.window = latest
        /\ d.requests = Len(latest)
        /\ d.errors = bad
        /\ DetectRate(d, FALSE) = "unhealthy" <=> Len(latest) >= 10 /\ 2 * bad > Len(latest)
        /\ Len(latest) >= 5 => (DetectRate(d, FALSE) = "healthy" <=> 5 * bad <= Len(latest))
        /\ Len(latest) < 5 => DetectRate(d, FALSE) = "healthy"

\* metrics.go:26-52 updates an average in place, with integer division and a
\* divisor that counts failures: it still stays between the shortest and the
\* longest response seen; the collector's average (260-275) stays between those
\* of its last samples, and the monitor's status shows the failures since the
\* last success.
AveragesWithinSamples(samples, reports) ==
    LET good == {n \in DOMAIN reports : reports[n].ok}
        durations == {reports[n].duration : n \in good}
        kept == Latest(WindowSize(samples), reports)
        latencies == {kept[n].duration : n \in DOMAIN kept}
        s == StatsAfter(reports)
        failing == {n \in 0..Len(reports) :
                      \A k \in (Len(reports) - n + 1)..Len(reports) : ~reports[k].ok}
    IN  /\ good # {} => s.average \in Min(durations)..Max(durations)
        /\ kept # <<>> => GetAverageLatency(LatenciesAfter(samples, reports))
                              \in Min(latencies)..Max(latencies)
        /\ s.total = s.good + s.bad
        /\ GetStatus(s, TRUE) = CASE Max(failing) >= 3 -> "unhealthy"
                                  [] Max(failing) \in 1..2 -> "suspect"
                                  [] Max(failing) = 0 -> "healthy"

=============================================================================
