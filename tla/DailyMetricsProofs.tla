------------------------- MODULE DailyMetricsProofs -------------------------
(***************************************************************************)
(* That the rows of daily_metrics are right and that no sample is lost on  *)
(* the way to them, for any metrics, usages, retentions and restarts.      *)
(***************************************************************************)
EXTENDS DailyMetrics, SumLemmas

-----------------------------------------------------------------------------
(* Max is defined by CHOOSE: a finite set of numbers has a greatest one.   *)
LEMMA MaxExists ==
    ASSUME NEW S \in SUBSET Nat, IsFiniteSet(S), S # {}
    PROVE  \E x \in S : \A y \in S : x >= y
<1> DEFINE HasMax(R) == \E x \in R : \A y \in R : x >= y
           Bad == {R \in SUBSET S : R # {} /\ ~HasMax(R)}
           Sizes == {Cardinality(R) : R \in Bad}
<1>1. \A R \in SUBSET S : IsFiniteSet(R) /\ Cardinality(R) \in Nat
  BY FS_Subset, FS_CardinalityType
<1>2. Sizes \subseteq Nat
  BY <1>1
<1>3. SUFFICES ASSUME Sizes # {}
               PROVE  FALSE
  OBVIOUS
<1>4. PICK n \in Sizes : \A k \in Sizes : ~(<<k, n>> \in OpToRel(<, Nat))
  <2> HIDE DEF Sizes
  <2> QED
    BY <1>2, <1>3, NatLessThanWellFounded, WFMin
<1>5. \A k \in Nat : k < n => k \notin Sizes
  <2>1. \A k \in Nat : k < n => <<k, n>> \in OpToRel(<, Nat)
    BY <1>2 DEF OpToRel
  <2> QED
    BY <1>4, <2>1
<1>6. PICK R \in Bad : n = Cardinality(R)
  OBVIOUS
<1>7. PICK x \in R : TRUE
  OBVIOUS
<1> DEFINE Q == R \ {x}
<1>8. Cardinality(Q) \in Nat /\ Cardinality(Q) < n
  <2>1. IsFiniteSet(R) /\ Cardinality(R) \in Nat
    BY <1>1
  <2>2. Cardinality(Q) = Cardinality(R) - 1 /\ IsFiniteSet(Q)
    BY <2>1, <1>7, FS_RemoveElement
  <2>3. Cardinality(Q) \in Nat
    BY <2>2, FS_CardinalityType
  <2> QED
    BY <1>6, <2>1, <2>2, <2>3
<1>9. Q \notin Bad
  BY <1>5, <1>8
<1>10. CASE Q = {}
  <2>1. R = {x}
    BY <1>7, <1>10
  <2> QED
    BY <1>6, <2>1
<1>11. CASE Q # {}
  <2>1. PICK y \in Q : \A z \in Q : y >= z
    BY <1>9, <1>11
  <2>2. CASE x >= y
    <3>1. \A z \in R : x >= z
      BY <2>1, <2>2, <1>7
    <3> QED
      BY <1>6, <1>7, <3>1
  <2>3. CASE ~(x >= y)
    <3>1. \A z \in R : y >= z
      BY <2>1, <2>3, <1>7
    <3> QED
      BY <1>6, <2>1, <3>1
  <2> QED
    BY <2>2, <2>3
<1> QED
  BY <1>10, <1>11

(* The greatest number of samples is a natural that no metric exceeds.     *)
LEMMA MostType ==
    ASSUME NEW of, \A m \in Metrics : of[m].samples \in Nat
    PROVE  Most(of) \in Nat /\ \A m \in Metrics : of[m].samples <= Most(of)
<1> DEFINE S == {of[m].samples : m \in Metrics}
<1>1. S \in SUBSET Nat /\ S # {}
  BY MetricsAssumption
<1>2. IsFiniteSet(S)
  <2> DEFINE f == [m \in Metrics |-> of[m].samples]
  <2>1. f \in Surjection(Metrics, S)
    BY DEF Surjection
  <2> QED
    BY <2>1, MetricsAssumption, FS_Surjection
<1>3. \E x \in S : \A y \in S : x >= y
  <2> HIDE DEF S
  <2> QED
    BY <1>1, <1>2, MaxExists
<1>4. Max(S) \in S /\ \A y \in S : Max(S) >= y
  <2> HIDE DEF S
  <2> QED
    BY <1>3 DEF Max
<1> QED
  BY <1>1, <1>4 DEF Most

(* Only the samples matter to Most.                                        *)
LEMMA MostSame ==
    ASSUME NEW f, NEW g, \A m \in Metrics : f[m].samples = g[m].samples
    PROVE  Most(f) = Most(g)
<1>1. {f[m].samples : m \in Metrics} = {g[m].samples : m \in Metrics}
  OBVIOUS
<1> QED
  BY <1>1 DEF Most

-----------------------------------------------------------------------------
(* What the weighted averages need of multiplication.                      *)
LEMMA TimesMonotone ==
    ASSUME NEW a \in Nat, NEW b \in Nat, NEW c \in Nat, a <= b
    PROVE  a * c <= b * c
<1>1. PICK d \in Nat : b = a + d
  <2>1. b - a \in Nat /\ b = a + (b - a)
    OBVIOUS
  <2> QED
    BY <2>1
<1>2. b * c = a * c + d * c
  BY <1>1
<1>3. d * c \in Nat /\ a * c \in Nat
  OBVIOUS
<1> QED
  BY <1>2, <1>3

(* A new sample keeps the sum below the peak.                              *)
LEMMA SumBelowPeak ==
    ASSUME NEW s \in Nat, NEW p \in Nat, NEW n \in Nat, NEW u \in Nat,
           s <= p * n
    PROVE  s + u <= Larger(p, u) * (n + 1)
<1> DEFINE q == Larger(p, u)
<1>1. q \in Nat /\ p <= q /\ u <= q
  BY DEF Larger
<1> HIDE DEF q
<1>2. p * n <= q * n
  BY <1>1, TimesMonotone
<1>3. q * (n + 1) = q * n + q
  BY <1>1
<1>4. p * n \in Nat /\ q * n \in Nat
  BY <1>1
<1>5. s + u <= q * (n + 1)
  BY <1>1, <1>2, <1>3, <1>4
<1> QED
  BY <1>5 DEF q

(* The weighted average of two averages a/b = s/n and c/k is that of all   *)
(* samples, and it is below both peaks if they were.                       *)
LEMMA WeightedAverage ==
    ASSUME NEW a \in Nat, NEW b \in Nat, NEW s \in Nat, NEW n \in Nat,
           NEW c \in Nat, NEW k \in Nat,
           a * n = s * b
    PROVE  (a * n * k + c * k * b) * (n + k) = (s + c) * (b * k * (n + k))
<1>1. a * n * k + c * k * b = (s + c) * (b * k)
  <2>1. (a * n) * k = (s * b) * k
    OBVIOUS
  <2>2. (s + c) * (b * k) = s * (b * k) + c * (b * k)
    OBVIOUS
  <2>3. s * (b * k) = (s * b) * k /\ c * (b * k) = c * k * b
    OBVIOUS
  <2> QED
    BY <2>1, <2>2, <2>3
<1>2. ((s + c) * (b * k)) * (n + k) = (s + c) * (b * k * (n + k))
  OBVIOUS
<1> QED
  BY <1>1, <1>2

(* Two averages below a peak have a weighted average below it.             *)
LEMMA WeightedBelow ==
    ASSUME NEW a \in Nat, NEW b \in Nat, NEW n \in Nat,
           NEW c \in Nat, NEW k \in Nat, NEW p \in Nat,
           a <= p * b, c <= p * k
    PROVE  a * n * k + c * k * b <= p * (b * k * (n + k))
<1>1. a * (n * k) <= (p * b) * (n * k)
  BY TimesMonotone
<1>2. c * (k * b) <= (p * k) * (k * b)
  BY TimesMonotone
<1>3. a * n * k = a * (n * k) /\ c * k * b = c * (k * b)
  OBVIOUS
<1>4. p * (b * k * (n + k)) = (p * b) * (n * k) + (p * k) * (k * b)
  OBVIOUS
<1> QED
  BY <1>1, <1>2, <1>3, <1>4
-----------------------------------------------------------------------------
(* What the accumulator, the hour and the rows of booked samples satisfy:  *)
(* sums below their peaks, and nothing where there is no sample.           *)
AccSound == \A m \in Metrics : acc[m].sum <= acc[m].peak * acc[m].samples

SummarySound(h) ==
    /\ h.avg[1] <= h.peak * h.avg[2]
    /\ h.samples > 0 => h.avg[2] = h.samples
    /\ h.samples = 0 => h.avg[1] = 0 /\ h.peak = 0

HourSound ==
    hour # None => /\ \A m \in Metrics : SummarySound(hour.of[m])
                   /\ hour.samples = Most(hour.of)

BookedSound ==
    \A d \in Days : \A m \in Metrics :
        booked[d][m].samples = 0 => booked[d][m].sum = 0

MetricsInv == TypeOK /\ AccSound /\ HourSound /\ BookedSound /\ RowsSound

(* A row is not the absence of one.                                        *)
LEMMA NoRow == None \notin Rows
  BY MetricsAssumption

(* Nothing is an aggregate for each metric.                                *)
LEMMA NothingType == Nothing \in [Metrics -> Aggregates]
  BY DEF Nothing, Empty, Aggregates

(* What an older version left is a row.                                    *)
LEMMA LegacyType == ASSUME NEW u \in Nat PROVE LegacyRow(u) \in Rows
  BY DEF LegacyRow, Rows, Summaries, Fractions

(* The start satisfies the invariant.                                      *)
LEMMA MetricsInit == Init => MetricsInv
<1> SUFFICES ASSUME Init PROVE MetricsInv
  OBVIOUS
<1>1. TypeOK
  BY NothingType, LegacyType, MetricsAssumption DEF Init, TypeOK
<1>2. AccSound /\ HourSound /\ BookedSound
  BY DEF Init, AccSound, HourSound, BookedSound, Nothing, Empty
<1>3. RowsSound
  <2>1. \A d \in Days : daily[d] = None => booked[d] = Nothing
    BY DEF Init
  <2>2. ASSUME NEW d \in Days, daily[d] # None
        PROVE  RowSound(d)
    <3>1. PICK u \in Usages : daily[d] = LegacyRow(u)
      BY <2>2 DEF Init
    <3>2. d = legacy /\ u \in Nat
      BY <2>2, MetricsAssumption DEF Init
    <3> QED
      BY <3>1, <3>2 DEF Init, RowSound, LegacyRow, Nothing, Empty
  <2> QED
    BY <2>1, <2>2 DEF RowsSound
<1> QED
  BY <1>1, <1>2, <1>3 DEF MetricsInv

-----------------------------------------------------------------------------
Summary == [avg : Fractions, peak : Nat, samples : Nat]

(* A product divided by a factor is the other.                             *)
LEMMA ExactDivision ==
    ASSUME NEW a \in Nat, NEW k \in Nat \ {0}
    PROVE  (a * k) \div k = a
  OBVIOUS

(* What is booked of an hour is its sum, its peak and its samples.         *)
LEMMA BookedSum ==
    ASSUME NEW b \in Aggregates, NEW h \in Summary, SummarySound(h)
    PROVE  /\ Booked(b, h) \in Aggregates
           /\ Booked(b, h).sum = b.sum + h.avg[1]
           /\ Booked(b, h).peak = Larger(b.peak, h.peak)
           /\ Booked(b, h).samples = b.samples + h.samples
<1>1. /\ h.avg[1] \in Nat /\ h.avg[2] \in Nat \ {0}
      /\ h.peak \in Nat /\ h.samples \in Nat
      /\ b.sum \in Nat /\ b.peak \in Nat /\ b.samples \in Nat
  BY DEF Summary, Fractions, Aggregates
<1>2. (h.avg[1] * h.samples) \div h.avg[2] = h.avg[1]
  <2>1. CASE h.samples = 0
    BY <1>1, <2>1 DEF SummarySound
  <2>2. CASE h.samples > 0
    <3>1. h.avg[2] = h.samples
      BY <2>2 DEF SummarySound
    <3> QED
      BY <1>1, <3>1, ExactDivision
  <2> QED
    BY <1>1, <2>1, <2>2
<1>3. Booked(b, h) = [sum |-> b.sum + h.avg[1], peak |-> Larger(b.peak, h.peak),
                      samples |-> b.samples + h.samples]
  BY <1>2 DEF Booked
<1>4. Larger(b.peak, h.peak) \in Nat
  BY <1>1 DEF Larger
<1> QED
  BY <1>1, <1>3, <1>4 DEF Aggregates

(* What RowSound says of one metric, apart from the peaks of a legacy day. *)
MetricSound(row, own) ==
    /\ row.samples = own.samples
    /\ own.samples > 0 => row.avg[1] * own.samples = own.sum * row.avg[2]
    /\ row.avg[1] <= row.peak * row.avg[2]
    /\ row.peak >= own.peak

(* The first hour of a day ...                                             *)
LEMMA FirstHour ==
    ASSUME NEW h \in Summary, SummarySound(h)
    PROVE  /\ MetricSound(h, Booked(Empty, h))
           /\ Booked(Empty, h).peak = h.peak
<1>1. Empty \in Aggregates
  BY DEF Empty, Aggregates
<1>2. /\ h.avg[1] \in Nat /\ h.avg[2] \in Nat
      /\ h.peak \in Nat /\ h.samples \in Nat
  BY DEF Summary, Fractions
<1>3. /\ Booked(Empty, h).sum = h.avg[1]
      /\ Booked(Empty, h).peak = h.peak
      /\ Booked(Empty, h).samples = h.samples
  BY <1>1, <1>2, BookedSum DEF Empty, Larger
<1>4. h.samples > 0 => h.avg[1] * h.samples = h.avg[1] * h.avg[2]
  BY DEF SummarySound
<1> QED
  BY <1>2, <1>3, <1>4 DEF MetricSound, SummarySound

(* ... and a later one.                                                    *)
LEMMA LaterHour ==
    ASSUME NEW row \in Summary, NEW own \in Aggregates, NEW h \in Summary,
           SummarySound(h), MetricSound(row, own),
           own.samples = 0 => own.sum = 0
    PROVE  /\ Merged(row, h) \in Summary
           /\ MetricSound(Merged(row, h), Booked(own, h))
           /\ row.peak = own.peak => Merged(row, h).peak = Booked(own, h).peak
<1>1. /\ h.avg[1] \in Nat /\ h.avg[2] \in Nat \ {0}
      /\ h.peak \in Nat /\ h.samples \in Nat
      /\ row.avg[1] \in Nat /\ row.avg[2] \in Nat \ {0}
      /\ row.peak \in Nat /\ row.samples \in Nat
      /\ own.sum \in Nat /\ own.peak \in Nat /\ own.samples \in Nat
  BY DEF Summary, Fractions, Aggregates
<1>2. /\ Booked(own, h).sum = own.sum + h.avg[1]
      /\ Booked(own, h).peak = Larger(own.peak, h.peak)
      /\ Booked(own, h).samples = own.samples + h.samples
  BY BookedSum
<1> DEFINE p == Larger(row.peak, h.peak)
<1>3. p \in Nat /\ row.peak <= p /\ h.peak <= p /\ p >= Larger(own.peak, h.peak)
  BY <1>1 DEF Larger, MetricSound
<1>4. CASE h.samples = 0
  <2>1. Merged(row, h) = row
    BY <1>4 DEF Merged
  <2>2. /\ Booked(own, h).sum = own.sum
        /\ Booked(own, h).peak = own.peak
        /\ Booked(own, h).samples = own.samples
    BY <1>1, <1>2, <1>4 DEF SummarySound, Larger
  <2> QED
    BY <2>1, <2>2 DEF MetricSound
<1>5. CASE h.samples > 0 /\ row.samples = 0
  <2>1. Merged(row, h) = [avg |-> h.avg, peak |-> p, samples |-> row.samples + h.samples]
    BY <1>1, <1>5 DEF Merged
  <2>2. /\ Booked(own, h).sum = h.avg[1]
        /\ Booked(own, h).samples = h.samples
        /\ h.avg[2] = h.samples
    BY <1>1, <1>2, <1>5 DEF SummarySound, MetricSound
  <2>3. h.avg[1] <= p * h.avg[2]
    <3>1. h.peak * h.avg[2] <= p * h.avg[2]
      BY <1>1, <1>3, TimesMonotone
    <3>2. h.peak * h.avg[2] \in Nat /\ p * h.avg[2] \in Nat
      BY <1>1, <1>3
    <3> QED
      BY <1>1, <3>1, <3>2 DEF SummarySound
  <2>4. Merged(row, h) \in Summary
    BY <1>1, <1>3, <2>1 DEF Summary
  <2>5. MetricSound(Merged(row, h), Booked(own, h))
    BY <1>1, <1>2, <1>3, <1>5, <2>1, <2>2, <2>3 DEF MetricSound
  <2> QED
    BY <1>2, <2>1, <2>4, <2>5
<1>6. CASE h.samples > 0 /\ row.samples > 0
  <2> DEFINE a == row.avg[1]
             b == row.avg[2]
             n == row.samples
             c == h.avg[1]
             k == h.avg[2]
             w == <<a * n * k + c * k * b, b * k * (n + k)>>
  <2>1. /\ a \in Nat /\ b \in Nat \ {0} /\ n \in Nat \ {0}
        /\ c \in Nat /\ k \in Nat \ {0} /\ k = h.samples /\ n = own.samples
        /\ a * n = own.sum * b /\ a <= row.peak * b /\ c <= h.peak * k
    BY <1>1, <1>6 DEF SummarySound, MetricSound
  <2>2. Merged(row, h) = [avg |-> w, peak |-> p, samples |-> n + k]
    BY <1>1, <1>6, <2>1 DEF Merged, Weighted
  <2> HIDE DEF a, b, n, c, k
  <2>3. w[1] * (n + k) = (own.sum + c) * w[2]
    BY <1>1, <2>1, WeightedAverage
  <2>4. a <= p * b /\ c <= p * k
    <3>1. row.peak * b <= p * b /\ h.peak * k <= p * k
      BY <1>1, <1>3, <2>1, TimesMonotone
    <3>2. /\ row.peak * b \in Nat /\ p * b \in Nat
          /\ h.peak * k \in Nat /\ p * k \in Nat
      BY <1>1, <1>3, <2>1
    <3> QED
      BY <2>1, <3>1, <3>2
  <2>5. w[1] <= p * w[2]
    BY <1>3, <2>1, <2>4, WeightedBelow
  <2>6. w \in Fractions
    <3>1. a * n * k + c * k * b \in Nat
      BY <2>1
    <3>2. b * k \in Nat \ {0} /\ n + k \in Nat \ {0}
      BY <2>1
    <3>3. (b * k) * (n + k) \in Nat \ {0}
      BY <3>2
    <3> QED
      BY <3>1, <3>3 DEF Fractions
  <2>7. Merged(row, h) \in Summary
    BY <1>3, <2>1, <2>2, <2>6 DEF Summary
  <2>8. Booked(own, h).sum = own.sum + c /\ Booked(own, h).samples = n + k
    BY <1>2, <2>1 DEF c
  <2> HIDE DEF w
  <2>9. MetricSound(Merged(row, h), Booked(own, h))
    BY <1>2, <1>3, <2>1, <2>2, <2>3, <2>5, <2>8 DEF MetricSound
  <2> QED
    BY <1>2, <2>2, <2>7, <2>9
<1> QED
  BY <1>1, <1>4, <1>5, <1>6

-----------------------------------------------------------------------------
(* The hour that Take makes of the aggregates is sound.                    *)
LEMMA TakeSound ==
    ASSUME MetricsInv, Take
    PROVE  hour' \in Rows \cup {None} /\ HourSound' /\ (hour' = None <=> step' # "save")
<1>1. CASE Most(acc) = 0
  BY <1>1 DEF Take, HourSound
<1>2. CASE Most(acc) > 0
  <2> DEFINE of == [m \in Metrics |-> Average(acc[m])]
  <2>1. ASSUME NEW m \in Metrics
        PROVE  Average(acc[m]) \in Summary /\ SummarySound(Average(acc[m]))
               /\ Average(acc[m]).samples = acc[m].samples
    <3>1. acc[m] \in Aggregates /\ acc[m].sum <= acc[m].peak * acc[m].samples
      BY DEF MetricsInv, TypeOK, AccSound
    <3>2. CASE acc[m].samples = 0
      BY <3>1, <3>2 DEF Average, Summary, SummarySound, Fractions, Aggregates
    <3>3. CASE acc[m].samples # 0
      BY <3>1, <3>3 DEF Average, Summary, SummarySound, Fractions, Aggregates
    <3> QED
      BY <3>2, <3>3
  <2>2. of \in Summaries
    BY <2>1 DEF Summaries, Summary
  <2>3. Most(of) = Most(acc)
    BY <2>1, MostSame
  <2>4. Most(acc) \in Nat
    <3>1. \A m \in Metrics : acc[m].samples \in Nat
      BY DEF MetricsInv, TypeOK, Aggregates
    <3> QED
      BY <3>1, MostType
  <2>5. hour' = [of |-> of, samples |-> Most(acc)] /\ step' = "save"
    BY <1>2, <2>4 DEF Take
  <2> HIDE DEF of
  <2>6. hour' \in Rows
    BY <2>2, <2>4, <2>5 DEF Rows
  <2>7. \A m \in Metrics : SummarySound(of[m])
    BY <2>1 DEF of
  <2> QED
    BY <2>3, <2>5, <2>6, <2>7, NoRow DEF HourSound
<1>3. Most(acc) \in Nat
  <2>1. \A m \in Metrics : acc[m].samples \in Nat
    BY DEF MetricsInv, TypeOK, Aggregates
  <2> QED
    BY <2>1, MostType
<1> QED
  BY <1>1, <1>2, <1>3

(* Today's row, with the hour merged into it, is that of all its samples.  *)
LEMMA SaveSound ==
    ASSUME MetricsInv, SaveDailyMetrics
    PROVE  /\ daily' \in [Days -> Rows \cup {None}]
           /\ booked' \in [Days -> [Metrics -> Aggregates]]
           /\ BookedSound' /\ RowsSound'
<1> DEFINE new == Upserted(daily[today], hour)
           own == [m \in Metrics |-> Booked(booked[today][m], hour.of[m])]
<1>0. /\ today \in Days /\ today \in Nat /\ hour \in Rows
      /\ daily \in [Days -> Rows \cup {None}]
      /\ booked \in [Days -> [Metrics -> Aggregates]]
      /\ today' = today /\ legacy' = legacy
      /\ \A m \in Metrics : hour.of[m] \in Summary /\ SummarySound(hour.of[m])
      /\ hour.samples = Most(hour.of) /\ hour.samples \in Nat
  BY NoRow
  DEF MetricsInv, TypeOK, SaveDailyMetrics, HourSound, Rows, Summaries, Summary, Days
<1>1. daily' = [daily EXCEPT ![today] = new] /\ booked' = [booked EXCEPT ![today] = own]
  BY DEF SaveDailyMetrics
<1>2. \A m \in Metrics :
         /\ own[m] \in Aggregates
         /\ own[m].sum = booked[today][m].sum + hour.of[m].avg[1]
         /\ own[m].samples = booked[today][m].samples + hour.of[m].samples
  BY <1>0, BookedSum
<1>3. \A m \in Metrics : own[m].samples = 0 => own[m].sum = 0
  BY <1>0, <1>2 DEF MetricsInv, BookedSound, SummarySound, Aggregates, Summary
<1>4. /\ new \in Rows
      /\ \A m \in Metrics : MetricSound(new.of[m], own[m])
      /\ today # legacy => /\ \A m \in Metrics : new.of[m].peak = own[m].peak
                           /\ new.samples = Most(own)
  <2>1. CASE daily[today] = None
    <3>1. booked[today] = Nothing
      BY <1>0, <2>1, MetricsAssumption DEF MetricsInv, RowsSound
    <3>2. new = hour
      BY <2>1 DEF Upserted
    <3>3. \A m \in Metrics : own[m] = Booked(Empty, hour.of[m])
      BY <3>1 DEF Nothing
    <3>4. \A m \in Metrics : MetricSound(new.of[m], own[m])
                            /\ new.of[m].peak = own[m].peak
      BY <1>0, <3>2, <3>3, FirstHour
    <3>5. Most(hour.of) = Most(own)
      <4>1. \A m \in Metrics : hour.of[m].samples = own[m].samples
        BY <3>2, <3>4 DEF MetricSound
      <4> HIDE DEF own
      <4> QED
        BY <4>1, MostSame
    <3> QED
      BY <1>0, <3>2, <3>4, <3>5
  <2>2. CASE daily[today] # None
    <3> DEFINE row == daily[today]
               of == [m \in Metrics |-> Merged(row.of[m], hour.of[m])]
    <3>1. row \in Rows /\ RowSound(today)
      BY <1>0, <2>2 DEF MetricsInv, RowsSound
    <3>2. ASSUME NEW m \in Metrics
          PROVE  /\ of[m] \in Summary /\ MetricSound(of[m], own[m])
                 /\ today # legacy => of[m].peak = own[m].peak
      <4>1. row.of[m] \in Summary /\ booked[today][m] \in Aggregates
        BY <1>0, <3>1 DEF Rows, Summaries, Summary
      <4>2. /\ MetricSound(row.of[m], booked[today][m])
            /\ today # legacy => row.of[m].peak = booked[today][m].peak
        BY <3>1 DEF RowSound, MetricSound
      <4>3. booked[today][m].samples = 0 => booked[today][m].sum = 0
        BY <1>0 DEF MetricsInv, BookedSound
      <4> HIDE DEF row
      <4> QED
        BY <1>0, <4>1, <4>2, <4>3, LaterHour
    <3>3. new = [of |-> of, samples |-> Most(of)]
      BY <2>2 DEF Upserted
    <3>4. of \in Summaries
      BY <3>2 DEF Summaries, Summary
    <3>5. \A m \in Metrics : of[m].samples \in Nat /\ of[m].samples = own[m].samples
      BY <3>2 DEF MetricSound, Summary
    <3> HIDE DEF of, own, new
    <3>6. Most(of) \in Nat /\ Most(of) = Most(own)
      BY <3>5, MostType, MostSame
    <3> QED
      BY <3>2, <3>3, <3>4, <3>6 DEF Rows
  <2> QED
    BY <2>1, <2>2
<1> HIDE DEF new
<1>5. daily' \in [Days -> Rows \cup {None}]
  BY <1>0, <1>1, <1>4
<1>6. own \in [Metrics -> Aggregates]
  BY <1>2
<1> HIDE DEF own
<1>7. booked' \in [Days -> [Metrics -> Aggregates]]
  BY <1>0, <1>1, <1>6
<1>8. /\ daily'[today] = new /\ booked'[today] = own
      /\ \A d \in Days \ {today} : daily'[d] = daily[d] /\ booked'[d] = booked[d]
  BY <1>0, <1>1
<1>9. BookedSound'
  BY <1>3, <1>8 DEF MetricsInv, BookedSound
<1>10. daily'[today] # None /\ RowSound(today)'
  BY <1>0, <1>4, <1>8, NoRow DEF RowSound, MetricSound
<1>11. ASSUME NEW d \in Days \ {today}
       PROVE  RowSound(d)' <=> RowSound(d)
  BY <1>0, <1>8 DEF RowSound
<1>12. RowsSound'
  BY <1>0, <1>8, <1>10, <1>11 DEF MetricsInv, RowsSound
<1> QED
  BY <1>5, <1>7, <1>9, <1>12

-----------------------------------------------------------------------------
(* A round adds one sample to each metric that was read.                   *)
LEMMA RoundSound ==
    ASSUME MetricsInv, Round
    PROVE  acc' \in [Metrics -> Aggregates] /\ AccSound' /\ measured' \in [Metrics -> Nat]
<1>1. PICK S \in SUBSET Metrics : \E got \in [S -> Usages] :
         /\ acc' = [m \in Metrics |-> Added(acc[m], got, m)]
         /\ measured' = [m \in Metrics |-> measured[m] + (IF m \in S THEN 1 ELSE 0)]
  BY DEF Round
<1>2. PICK got \in [S -> Usages] : acc' = [m \in Metrics |-> Added(acc[m], got, m)]
  BY <1>1
<1>3. ASSUME NEW m \in Metrics
      PROVE  /\ Added(acc[m], got, m) \in Aggregates
             /\ Added(acc[m], got, m).sum
                   <= Added(acc[m], got, m).peak * Added(acc[m], got, m).samples
  <2>1. acc[m] \in Aggregates /\ acc[m].sum <= acc[m].peak * acc[m].samples
    BY DEF MetricsInv, TypeOK, AccSound
  <2>2. CASE m \notin S
    BY <2>1, <2>2 DEF Added
  <2>3. CASE m \in S
    <3>1. got[m] \in Nat
      BY <2>3, MetricsAssumption
    <3>2. Added(acc[m], got, m) =
            [sum |-> acc[m].sum + got[m], peak |-> Larger(acc[m].peak, got[m]),
             samples |-> acc[m].samples + 1]
      BY <2>3 DEF Added
    <3>3. acc[m].sum + got[m] <= Larger(acc[m].peak, got[m]) * (acc[m].samples + 1)
      BY <2>1, <3>1, SumBelowPeak DEF Aggregates
    <3>4. Larger(acc[m].peak, got[m]) \in Nat
      BY <2>1, <3>1 DEF Aggregates, Larger
    <3> QED
      BY <2>1, <3>1, <3>2, <3>3, <3>4 DEF Aggregates
  <2> QED
    BY <2>2, <2>3
<1>4. measured' \in [Metrics -> Nat]
  BY <1>1 DEF MetricsInv, TypeOK
<1> QED
  BY <1>2, <1>3, <1>4 DEF AccSound

(* What a step leaves alone it does not disturb.                           *)
LEMMA SameHour == ASSUME HourSound, hour' = hour PROVE HourSound'
  BY DEF HourSound

(* Rows that a step leaves alone stay right when time passes.              *)
LEMMA SameRows ==
    ASSUME BookedSound, RowsSound,
           UNCHANGED <<daily, booked, legacy>>,
           today \in Days, today' \in Days, today <= today'
    PROVE  BookedSound' /\ RowsSound'
<1>1. BookedSound'
  BY DEF BookedSound
<1>2. \A d \in Days : RowSound(d)' <=> RowSound(d)
  BY DEF RowSound
<1>3. ASSUME NEW d \in Days, NEW r \in RetentionDays, d < today - r
      PROVE  d < today' - r
  <2>1. d \in Nat /\ today \in Nat /\ today' \in Nat
    BY DEF Days
  <2>2. r \in Nat
    BY MetricsAssumption
  <2>3. ASSUME NEW a \in Nat, NEW b \in Nat, a <= b, d < a - r
        PROVE  d < b - r
    BY <2>1, <2>2, <2>3
  <2>4. today <= today'
    OBVIOUS
  <2> QED
    BY <1>3, <2>1, <2>3, <2>4
<1>4. RowsSound'
  BY <1>2, <1>3 DEF RowsSound
<1> QED
  BY <1>1, <1>4

(* Nothing in the accumulator, as after a take or a stop.                  *)
LEMMA EmptyAcc ==
    ASSUME acc' = Nothing
    PROVE  acc' \in [Metrics -> Aggregates] /\ AccSound'
  BY NothingType DEF AccSound, Nothing, Empty

(* The samples in an hour under way are a number.                          *)
LEMMA InHourType == ASSUME MetricsInv, NEW m \in Metrics PROVE InHour(m) \in Nat
  BY DEF MetricsInv, TypeOK, InHour, Rows, Summaries

(* MetricsInv is inductive.                                                *)
LEMMA MetricsStep == MetricsInv /\ [Next]_vars => MetricsInv'
<1> SUFFICES ASSUME MetricsInv, [Next]_vars
             PROVE  MetricsInv'
  OBVIOUS
<1>0. TypeOK /\ AccSound /\ HourSound /\ BookedSound /\ RowsSound
  BY DEF MetricsInv
<1>1. CASE Round
  <2>1. UNCHANGED <<today, step, hour, daily, lost, booked, legacy>> /\ rounds' = rounds + 1
    BY <1>1 DEF Round, hourVars
  <2>2. TypeOK'
    BY <1>0, <1>1, <2>1, RoundSound DEF TypeOK
  <2>3. HourSound' /\ BookedSound' /\ RowsSound'
    BY <1>0, <2>1, SameHour, SameRows DEF TypeOK, Days
  <2> QED
    BY <1>1, <2>2, <2>3, RoundSound DEF MetricsInv
<1>2. CASE Tick
  <2>1. /\ UNCHANGED <<step, hour, acc, daily, rounds, measured, lost, booked, legacy>>
        /\ today' = today + 1 /\ today' \in Days
    BY <1>0, <1>2, MetricsAssumption DEF Tick, TypeOK, Days, hourVars
  <2>2. TypeOK' /\ AccSound'
    BY <1>0, <2>1 DEF TypeOK, AccSound
  <2>3. HourSound' /\ BookedSound' /\ RowsSound'
    BY <1>0, <2>1, SameHour, SameRows DEF TypeOK, Days
  <2> QED
    BY <2>2, <2>3 DEF MetricsInv
<1>3. CASE Take
  <2>1. /\ UNCHANGED <<today, daily, rounds, measured, lost, booked, legacy>>
        /\ acc' = Nothing /\ step' \in {"save", "clean"}
    BY <1>3 DEF Take
  <2>2. TypeOK' /\ AccSound'
    BY <1>0, <1>3, <2>1, TakeSound, EmptyAcc DEF TypeOK
  <2>3. HourSound' /\ BookedSound' /\ RowsSound'
    BY <1>0, <1>3, <2>1, TakeSound, SameRows DEF TypeOK, Days
  <2> QED
    BY <2>2, <2>3 DEF MetricsInv
<1>4. CASE SaveDailyMetrics
  <2>1. /\ UNCHANGED <<today, acc, rounds, measured, lost, legacy>>
        /\ step' = "clean" /\ hour' = None
    BY <1>4 DEF SaveDailyMetrics
  <2>2. TypeOK' /\ AccSound' /\ HourSound'
    BY <1>0, <1>4, <2>1, SaveSound DEF TypeOK, AccSound, HourSound
  <2> QED
    BY <1>4, <2>2, SaveSound DEF MetricsInv
<1>5. CASE SaveFails
  <2>1. /\ UNCHANGED <<today, acc, daily, rounds, measured, booked, legacy>>
        /\ step' = "clean" /\ hour' = None
        /\ lost' = [m \in Metrics |-> lost[m] + InHour(m)]
    BY <1>5 DEF SaveFails
  <2>2. lost' \in [Metrics -> Nat]
    BY <1>0, <2>1, InHourType DEF TypeOK
  <2>3. TypeOK' /\ AccSound' /\ HourSound'
    BY <1>0, <2>1, <2>2 DEF TypeOK, AccSound, HourSound
  <2>4. BookedSound' /\ RowsSound'
    BY <1>0, <2>1, SameRows DEF TypeOK, Days
  <2> QED
    BY <2>3, <2>4 DEF MetricsInv
<1>6. CASE Clean
  <2>1. /\ UNCHANGED <<today, acc, hour, rounds, measured, lost, booked, legacy>>
        /\ step' = "idle" /\ step = "clean"
    BY <1>6 DEF Clean
  <2>2. CASE UNCHANGED daily
    <3>1. TypeOK' /\ AccSound'
      BY <1>0, <2>1, <2>2 DEF TypeOK, AccSound
    <3>2. HourSound' /\ BookedSound' /\ RowsSound'
      BY <1>0, <2>1, <2>2, SameHour, SameRows DEF TypeOK, Days
    <3> QED
      BY <3>1, <3>2 DEF MetricsInv
  <2>3. CASE \E r \in RetentionDays :
               daily' = [d \in Days |-> IF d \in ExpiredDays(r) THEN None ELSE daily[d]]
    <3>1. PICK r \in RetentionDays :
             daily' = [d \in Days |-> IF d \in ExpiredDays(r) THEN None ELSE daily[d]]
      BY <2>3
    <3>2. TypeOK' /\ AccSound' /\ HourSound' /\ BookedSound'
      BY <1>0, <2>1, <3>1 DEF TypeOK, AccSound, HourSound, BookedSound
    <3>3. \A d \in ExpiredDays(r) : daily'[d] = None /\ r > 0 /\ d < today - r
      BY <3>1 DEF ExpiredDays
    <3>4. \A d \in Days \ ExpiredDays(r) :
             daily'[d] = daily[d] /\ (RowSound(d)' <=> RowSound(d))
      BY <2>1, <3>1 DEF RowSound
    <3>5. RowsSound'
      BY <1>0, <2>1, <3>3, <3>4 DEF RowsSound
    <3> QED
      BY <3>2, <3>5 DEF MetricsInv
  <2> QED
    BY <1>6, <2>2, <2>3 DEF Clean
<1>7. CASE Stop
  <2>1. /\ UNCHANGED <<today, daily, rounds, measured, booked, legacy>>
        /\ step' = "down" /\ hour' = None /\ acc' = Nothing
        /\ lost' = [m \in Metrics |-> lost[m] + acc[m].samples + InHour(m)]
    BY <1>7 DEF Stop
  <2>2. lost' \in [Metrics -> Nat]
    BY <1>0, <2>1, InHourType DEF TypeOK, Aggregates
  <2>3. TypeOK' /\ AccSound' /\ HourSound'
    BY <1>0, <2>1, <2>2, EmptyAcc DEF TypeOK, HourSound
  <2>4. BookedSound' /\ RowsSound'
    BY <1>0, <2>1, SameRows DEF TypeOK, Days
  <2> QED
    BY <2>3, <2>4 DEF MetricsInv
<1>8. CASE Start \/ UNCHANGED vars
  <2>1. /\ UNCHANGED <<today, acc, hour, daily, rounds, measured, lost, booked, legacy>>
        /\ (step' = "idle" /\ step = "down") \/ UNCHANGED step
    BY <1>8 DEF Start, vars
  <2>2. TypeOK' /\ AccSound'
    BY <1>0, <2>1 DEF TypeOK, AccSound
  <2>3. HourSound' /\ BookedSound' /\ RowsSound'
    BY <1>0, <2>1, SameHour, SameRows DEF TypeOK, Days
  <2> QED
    BY <2>2, <2>3 DEF MetricsInv
<1> QED
  BY <1>1, <1>2, <1>3, <1>4, <1>5, <1>6, <1>7, <1>8 DEF Next

(* The inductive invariant holds in every reachable state.                 *)
THEOREM MetricsInvariant == Spec => []MetricsInv
  BY MetricsInit, MetricsStep, PTL DEF Spec

(* Every variable keeps its type: no average of no samples is ever saved.  *)
THEOREM MetricsTypes == Spec => []TypeOK
  BY MetricsInvariant, PTL DEF MetricsInv

(* The row of a day has the average, the peak and the count of the samples *)
(* saved on it, whatever is missing, fails, restarts or expires.           *)
THEOREM RowsAreRight == Spec => []RowsSound
  BY MetricsInvariant, PTL DEF MetricsInv

-----------------------------------------------------------------------------
(* The samples of a metric in the rows of all days.                        *)
SamplesOf(m) == [d \in Days |-> booked[d][m].samples]
Saved(m) == SumFunctionOnSet(SamplesOf(m), Days)

(* Saved, as the model's sum over the days.                                *)
LEMMA SavedIsSum == \A m : SumFunction([d \in Days |-> booked[d][m].samples]) = Saved(m)
  BY DEF SumFunction, Saved, SamplesOf

(* There are finitely many days.                                           *)
LEMMA DaysFinite == IsFiniteSet(Days)
  BY MetricsAssumption, FS_Interval DEF Days

(* The samples saved are a number.                                         *)
LEMMA SavedType ==
    ASSUME MetricsInv, NEW m \in Metrics
    PROVE  Saved(m) \in Nat
<1>1. \A d \in Days : SamplesOf(m)[d] \in Nat
  BY DEF SamplesOf, MetricsInv, TypeOK, Aggregates
<1> QED
  BY <1>1, DaysFinite, SumNat DEF Saved

(* A save adds the samples of the hour to one day.                         *)
LEMMA SaveAddsHour ==
    ASSUME MetricsInv, MetricsInv', SaveDailyMetrics, NEW m \in Metrics
    PROVE  Saved(m)' = Saved(m) + InHour(m)
<1>1. /\ today \in Days /\ hour # None /\ InHour(m) \in Nat
      /\ booked \in [Days -> [Metrics -> Aggregates]]
      /\ booked' = [booked EXCEPT ![today] =
                       [e \in Metrics |-> Booked(@[e], hour.of[e])]]
  BY InHourType DEF SaveDailyMetrics, MetricsInv, TypeOK
<1>2. booked'[today][m].samples = booked[today][m].samples + InHour(m)
  BY <1>1 DEF Booked, InHour
<1>3. \A d \in Days \ {today} : booked'[d] = booked[d]
  BY <1>1
<1>4. \A d \in Days : SamplesOf(m)[d] \in Nat /\ SamplesOf(m)'[d] \in Nat
  BY DEF SamplesOf, MetricsInv, TypeOK, Aggregates
<1>5. /\ SamplesOf(m)'[today] = SamplesOf(m)[today] + InHour(m)
      /\ \A d \in Days \ {today} : SamplesOf(m)[d] = SamplesOf(m)'[d]
  BY <1>1, <1>2, <1>3 DEF SamplesOf
<1>6. Saved(m)' = Saved(m) - SamplesOf(m)[today] + SamplesOf(m)'[today]
  BY <1>1, <1>4, <1>5, DaysFinite, SumChange DEF Saved
<1> QED
  BY <1>1, <1>4, <1>5, <1>6, SavedType

(* A take puts the samples of the accumulator into the hour.               *)
LEMMA HourCounts ==
    ASSUME MetricsInv, Take, NEW m \in Metrics
    PROVE  InHour(m)' = acc[m].samples
<1>1. \A e \in Metrics : acc[e].samples \in Nat
  BY DEF MetricsInv, TypeOK, Aggregates
<1>2. Most(acc) \in Nat /\ acc[m].samples <= Most(acc)
  BY <1>1, MostType
<1>3. CASE Most(acc) = 0
  <2>1. hour' = None
    BY <1>3 DEF Take
  <2> QED
    BY <1>1, <1>2, <1>3, <2>1 DEF InHour
<1>4. CASE Most(acc) # 0
  <2>1. hour' = [of |-> [e \in Metrics |-> Average(acc[e])], samples |-> Most(acc)]
    BY <1>4 DEF Take
  <2>2. hour' # None
    BY <1>2, <1>4, TakeSound DEF Take
  <2>3. Average(acc[m]).samples = acc[m].samples
    BY DEF Average
  <2> QED
    BY <2>1, <2>2, <2>3 DEF InHour
<1> QED
  BY <1>3, <1>4

(* Every sample is in one place.                                           *)
Conserved(m) == measured[m] = acc[m].samples + InHour(m) + lost[m] + Saved(m)

(* Every step moves samples from one place to one other.                   *)
LEMMA ConservedStep ==
    ASSUME MetricsInv, MetricsInv', [Next]_vars, NEW m \in Metrics, Conserved(m)
    PROVE  Conserved(m)'
<1> USE DEF Conserved
<1>0. /\ measured[m] \in Nat /\ acc[m] \in Aggregates /\ acc[m].samples \in Nat
      /\ lost[m] \in Nat /\ InHour(m) \in Nat /\ Saved(m) \in Nat
      /\ measured \in [Metrics -> Nat] /\ lost \in [Metrics -> Nat]
  BY InHourType, SavedType DEF MetricsInv, TypeOK, Aggregates
<1>a. ASSUME UNCHANGED booked PROVE Saved(m)' = Saved(m)
  BY <1>a DEF Saved, SamplesOf
<1>b. ASSUME UNCHANGED hour PROVE InHour(m)' = InHour(m)
  BY <1>b DEF InHour
<1>1. CASE Round
  <2>1. PICK S \in SUBSET Metrics : \E got \in [S -> Usages] :
           /\ acc' = [e \in Metrics |-> Added(acc[e], got, e)]
           /\ measured' = [e \in Metrics |-> measured[e] + (IF e \in S THEN 1 ELSE 0)]
    BY <1>1 DEF Round
  <2>2. PICK got \in [S -> Usages] : acc' = [e \in Metrics |-> Added(acc[e], got, e)]
    BY <2>1
  <2>3. /\ acc'[m].samples = acc[m].samples + (IF m \in S THEN 1 ELSE 0)
        /\ measured'[m] = measured[m] + (IF m \in S THEN 1 ELSE 0)
    BY <1>0, <2>1, <2>2 DEF Added
  <2>4. UNCHANGED <<hour, lost, booked>>
    BY <1>1 DEF Round, hourVars
  <2> QED
    BY <1>0, <1>a, <1>b, <2>3, <2>4
<1>2. CASE Take
  <2>1. UNCHANGED <<measured, lost, booked>> /\ acc' = Nothing
    BY <1>2 DEF Take
  <2>2. acc'[m].samples = 0
    BY <2>1 DEF Nothing, Empty
  <2>3. InHour(m) = 0
    BY <1>2 DEF Take, MetricsInv, TypeOK, InHour
  <2>4. InHour(m)' = acc[m].samples
    BY <1>2, HourCounts
  <2> QED
    BY <1>0, <1>a, <2>1, <2>2, <2>3, <2>4
<1>3. CASE SaveDailyMetrics
  <2>1. UNCHANGED <<measured, lost, acc>> /\ InHour(m)' = 0
    BY <1>3 DEF SaveDailyMetrics, InHour
  <2> QED
    BY <1>0, <1>3, <2>1, SaveAddsHour
<1>4. CASE SaveFails
  <2>1. UNCHANGED <<measured, acc, booked>> /\ InHour(m)' = 0
        /\ lost'[m] = lost[m] + InHour(m)
    BY <1>4 DEF SaveFails, InHour
  <2> QED
    BY <1>0, <1>a, <2>1
<1>5. CASE Stop
  <2>1. UNCHANGED <<measured, booked>> /\ InHour(m)' = 0 /\ acc'[m].samples = 0
        /\ lost'[m] = lost[m] + acc[m].samples + InHour(m)
    BY <1>5 DEF Stop, InHour, Nothing, Empty
  <2> QED
    BY <1>0, <1>a, <2>1
<1>6. CASE Tick \/ Clean \/ Start \/ UNCHANGED vars
  <2>1. UNCHANGED <<measured, acc, lost, hour, booked>>
    BY <1>6 DEF Tick, Clean, Start, vars, hourVars
  <2> QED
    BY <1>a, <1>b, <2>1
<1> QED
  BY <1>1, <1>2, <1>3, <1>4, <1>5, <1>6 DEF Next

(* No sample is counted twice or dropped.                                  *)
THEOREM SamplesKept == Spec => []SamplesConserved
<1> DEFINE AllConserved == \A m \in Metrics : Conserved(m)
<1>1. Init => AllConserved
  <2> SUFFICES ASSUME Init, NEW m \in Metrics PROVE Conserved(m)
    OBVIOUS
  <2>1. \A d \in Days : SamplesOf(m)[d] = 0
    BY DEF Init, SamplesOf, Nothing, Empty
  <2>2. Saved(m) = 0
    BY <2>1, DaysFinite, SumZero DEF Saved
  <2> QED
    BY <2>2 DEF Init, Conserved, InHour, Nothing, Empty
<1>2. MetricsInv /\ MetricsInv' /\ AllConserved /\ [Next]_vars => AllConserved'
  BY ConservedStep
<1>3. AllConserved => SamplesConserved
  BY SavedIsSum DEF SamplesConserved, Conserved
<1> QED
  BY <1>1, <1>2, <1>3, MetricsInvariant, PTL DEF Spec
=============================================================================
