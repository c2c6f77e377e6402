---------------------------- MODULE DailyMetrics ----------------------------
(***************************************************************************)
(* collector.go's hourly accumulator and daily_metrics of store/sqlite.go: *)
(* every round adds the usage of what it could collect, runHourlyTasks     *)
(* takes average and peak of the hour and merges them into the row of the  *)
(* day, weighted by each metric's own number of samples.                   *)
(*                                                                         *)
(* Usage is a small number; an average is the fraction <<num, den>> that   *)
(* the floats approximate.  The zone is fixed: TrafficLedger changes it.   *)
(***************************************************************************)
EXTENDS Integers, FiniteSets, Functions, FiniteSetsExt

CONSTANTS
    Metrics,       \* cpu, memory, disk
    Usages,        \* what a round may measure
    LastDay,       \* bound on the clock
    RetentionDays, \* values of alert.metrics_retention_days; 0 is for ever
    MaxRounds,     \* bound on the rounds of the collector
    None           \* no row

Days == 0..LastDay
Fractions == Nat \X (Nat \ {0})
Summaries == [Metrics -> [avg : Fractions, peak : Nat, samples : Nat]]
Rows == [of : Summaries, samples : Nat]

ASSUME MetricsAssumption ==
    /\ IsFiniteSet(Metrics) /\ Metrics # {}
    /\ Usages \subseteq Nat
    /\ LastDay \in Nat /\ MaxRounds \in Nat
    /\ RetentionDays \subseteq Nat
    /\ None \notin Rows

VARIABLES
    today,    \* the clock's day
    step,     \* where the hourly run is, or "idle", "down"
    acc,      \* the accumulator: sum, peak and samples of each metric
    hour,     \* the HourlyMetrics that the run has taken, or None
    daily,    \* daily_metrics
    rounds,   \* rounds so far
    measured, \* history: how often each metric has been measured
    lost,     \* history: samples lost in a crash or a failed statement
    booked,   \* history: the samples saved on each day
    legacy    \* history: the day whose row is older than the sample columns

vars == <<today, step, acc, hour, daily, rounds, measured, lost, booked, legacy>>
hourVars == <<step, hour>>

Empty == [sum |-> 0, peak |-> 0, samples |-> 0]
Nothing == [m \in Metrics |-> Empty]
Larger(a, b) == IF a >= b THEN a ELSE b
Most(of) == Max({of[m].samples : m \in Metrics})

(* A row that init's ALTER TABLE found: no counts by metric, 0 by default. *)
LegacyRow(usage) ==
    [of |-> [m \in Metrics |-> [avg |-> <<usage, 1>>, peak |-> usage, samples |-> 0]],
     samples |-> 1]

Init ==
    /\ today \in Days
    /\ \/ legacy = None /\ daily = [d \in Days |-> None]
       \/ /\ legacy = today
          /\ \E u \in Usages :
                daily = [d \in Days |-> IF d = today THEN LegacyRow(u) ELSE None]
    /\ step = "idle" /\ acc = Nothing /\ hour = None /\ rounds = 0
    /\ measured = [m \in Metrics |-> 0] /\ lost = [m \in Metrics |-> 0]
    /\ booked = [d \in Days |-> Nothing]

-----------------------------------------------------------------------------
(* Faulty variant: a missing metric counts as a sample of zero.            *)
AddedAny(a, got, m) ==
    [sum |-> a.sum + (IF m \in DOMAIN got THEN got[m] ELSE 0),
     peak |-> IF m \in DOMAIN got THEN Larger(a.peak, got[m]) ELSE a.peak,
     samples |-> a.samples + 1]

Added(a, got, m) ==
    IF m \notin DOMAIN got THEN a
    ELSE [sum |-> a.sum + got[m], peak |-> Larger(a.peak, got[m]),
          samples |-> a.samples + 1]

(* A round of the collector, of which AccumulateMetrics is the end: what   *)
(* is switched off or fails is missing.                                    *)
Round ==
    /\ step # "down" /\ rounds < MaxRounds /\ rounds' = rounds + 1
    /\ \E S \in SUBSET Metrics : \E got \in [S -> Usages] :
          /\ acc' = [m \in Metrics |-> Added(acc[m], got, m)]
          /\ measured' = [m \in Metrics |->
                             measured[m] + (IF m \in S THEN 1 ELSE 0)]
    /\ UNCHANGED <<today, hourVars, daily, lost, booked, legacy>>

Tick ==
    /\ today < LastDay /\ today' = today + 1
    /\ UNCHANGED <<hourVars, acc, daily, rounds, measured, lost, booked, legacy>>

(* Faulty variant: the average of no samples.                              *)
AverageAny(a) == [avg |-> <<a.sum, a.samples>>, peak |-> a.peak, samples |-> a.samples]
Average(a) ==
    IF a.samples = 0 THEN [avg |-> <<0, 1>>, peak |-> 0, samples |-> 0]
    ELSE [avg |-> <<a.sum, a.samples>>, peak |-> a.peak, samples |-> a.samples]

(* GetHourlyMetricsAndReset; an hour without samples is not saved.         *)
Take ==
    /\ step = "idle"
    /\ step' = IF Most(acc) > 0 THEN "save" ELSE "clean"
    /\ hour' = IF Most(acc) = 0 THEN None
               ELSE [of |-> [m \in Metrics |-> Average(acc[m])],
                     samples |-> Most(acc)]
    /\ acc' = Nothing
    /\ UNCHANGED <<today, daily, rounds, measured, lost, booked, legacy>>

-----------------------------------------------------------------------------
(* Faulty variant: hours weigh alike, however many samples they have.      *)
Halfway(a, n, b, k) == <<a[1] * b[2] + b[1] * a[2], 2 * a[2] * b[2]>>
Weighted(a, n, b, k) == <<a[1] * n * b[2] + b[1] * k * a[2], a[2] * b[2] * (n + k)>>

(* The CASEs of ON CONFLICT(date) DO UPDATE SET, for one metric.           *)
Merged(old, new) ==
    IF new.samples = 0 THEN old
    ELSE [avg |-> IF old.samples = 0 THEN new.avg
                  ELSE Weighted(old.avg, old.samples, new.avg, new.samples),
          peak |-> Larger(old.peak, new.peak),
          samples |-> old.samples + new.samples]

Upserted(row, new) ==
    IF row = None THEN new
    ELSE LET of == [m \in Metrics |-> Merged(row.of[m], new.of[m])]
         IN  [of |-> of, samples |-> Most(of)]

Booked(b, new) ==
    [sum |-> b.sum + (new.avg[1] * new.samples) \div new.avg[2],
     peak |-> Larger(b.peak, new.peak), samples |-> b.samples + new.samples]

SaveDailyMetrics ==
    /\ step = "save" /\ step' = "clean" /\ hour' = None
    /\ daily' = [daily EXCEPT ![today] = Upserted(@, hour)]
    /\ booked' = [booked EXCEPT ![today] =
                     [m \in Metrics |-> Booked(@[m], hour.of[m])]]
    /\ UNCHANGED <<today, acc, rounds, measured, lost, legacy>>

InHour(m) == IF hour = None THEN 0 ELSE hour.of[m].samples

SaveFails ==
    /\ step = "save" /\ step' = "clean" /\ hour' = None
    /\ lost' = [m \in Metrics |-> lost[m] + InHour(m)]
    /\ UNCHANGED <<today, acc, daily, rounds, measured, booked, legacy>>

ExpiredDays(r) == {d \in Days : r > 0 /\ d < today - r}

(* CleanOldMetrics, or its error.                                          *)
Clean ==
    /\ step = "clean" /\ step' = "idle"
    /\ \/ \E r \in RetentionDays :
             daily' = [d \in Days |-> IF d \in ExpiredDays(r) THEN None ELSE daily[d]]
       \/ UNCHANGED daily
    /\ UNCHANGED <<today, acc, hour, rounds, measured, lost, booked, legacy>>

(* The process dies or stops: main flushes the traffic, but not these.     *)
Stop ==
    /\ step # "down" /\ step' = "down"
    /\ lost' = [m \in Metrics |-> lost[m] + acc[m].samples + InHour(m)]
    /\ acc' = Nothing /\ hour' = None
    /\ UNCHANGED <<today, daily, rounds, measured, booked, legacy>>

Start ==
    /\ step = "down" /\ step' = "idle"
    /\ UNCHANGED <<today, acc, hour, daily, rounds, measured, lost, booked, legacy>>

Next ==
    \/ Round \/ Tick
    \/ Take \/ SaveDailyMetrics \/ SaveFails \/ Clean
    \/ Stop \/ Start

Spec == Init /\ [][Next]_vars
-----------------------------------------------------------------------------
Aggregates == [sum : Nat, peak : Nat, samples : Nat]

(* No average of no samples is ever taken or saved.                        *)
TypeOK ==
    /\ today \in Days /\ legacy \in Days \cup {None} /\ rounds \in Nat
    /\ step \in {"idle", "save", "clean", "down"}
    /\ hour = None <=> step # "save"
    /\ hour \in Rows \cup {None} /\ daily \in [Days -> Rows \cup {None}]
    /\ acc \in [Metrics -> Aggregates]
    /\ booked \in [Days -> [Metrics -> Aggregates]]
    /\ {measured, lost} \subseteq [Metrics -> Nat]

(* Every sample is in the accumulator, in the run's hand or in the row of  *)
(* one day, or went with a stop or a failed statement.                     *)
SamplesConserved ==
    \A m \in Metrics :
        measured[m] = acc[m].samples + InHour(m) + lost[m]
                      + SumFunction([d \in Days |-> booked[d][m].samples])

(* "missing collectors do not dilute averages": a row's average, peak and  *)
(* count of a metric are those of its own samples saved on that day, over  *)
(* hours and restarts; a row from before the columns keeps its peak only.  *)
RowSound(d) ==
    \A m \in Metrics :
        LET row == daily[d].of[m]
            own == booked[d][m]
        IN  /\ row.samples = own.samples
            /\ own.samples > 0 => row.avg[1] * own.samples = own.sum * row.avg[2]
            /\ row.avg[1] <= row.peak * row.avg[2]
            /\ row.peak >= own.peak
            /\ d # legacy => /\ row.peak = own.peak
                             /\ daily[d].samples = Most(booked[d])

(* The days' rows are right, and stay for the shortest retention.          *)
RowsSound ==
    \A d \in Days :
        \/ daily[d] # None /\ RowSound(d)
        \/ daily[d] = None /\ booked[d] = Nothing
        \/ daily[d] = None /\ \E r \in RetentionDays : r > 0 /\ d < today - r
=============================================================================
