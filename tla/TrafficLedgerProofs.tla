------------------------ MODULE TrafficLedgerProofs -------------------------
(***************************************************************************)
(* Theorems about TrafficLedger, for every calendar, retention, amount of  *)
(* traffic and history: what retention deletes (RowInv), where each unit   *)
(* of traffic is (BalanceInv), the types (RunTypes), which days a run and  *)
(* the configured zone can still reach (DayInv), and from these what a     *)
(* month's row holds (MonthInv).                                           *)
(***************************************************************************)
EXTENDS TrafficLedger, SumLemmas

(* What the proofs use of the constants.                                   *)
LEMMA LedgerConstants ==
    /\ LastDay \in Nat \ {0}
    /\ Days \subseteq Nat /\ Months \subseteq Nat
    /\ \A m \in Months : FirstDayOf[m] \in Days /\ FirstDayOf[m] \in Nat
    /\ \E m \in Months : FirstDayOf[m] = 0
    /\ \A m, n \in Months : m < n => FirstDayOf[m] < FirstDayOf[n]
    /\ RetentionDays \subseteq Nat /\ None \notin Nat
  BY LedgerAssumption DEF Days, Months

-----------------------------------------------------------------------------
(* Every day has a month: the last one that has begun.                     *)
LEMMA MonthExists ==
    ASSUME NEW d \in Nat
    PROVE  \E m \in Months : /\ FirstDayOf[m] <= d
                             /\ \A n \in Months : FirstDayOf[n] <= d => n <= m
<1> DEFINE Since == {d - FirstDayOf[m] : m \in {n \in Months : FirstDayOf[n] <= d}}
<1>1. Since \subseteq Nat
  BY LedgerConstants
<1>2. Since # {}
  <2>1. PICK m \in Months : FirstDayOf[m] = 0
    BY LedgerConstants
  <2>2. FirstDayOf[m] <= d
    BY <2>1
  <2> QED
    BY <2>2
<1>3. PICK x \in Since : \A y \in Since : ~(<<y, x>> \in OpToRel(<, Nat))
  <2> HIDE DEF Since
  <2> QED
    BY <1>1, <1>2, NatLessThanWellFounded, WFMin
<1>4. \A y \in Since : x <= y
  <2>1. \A y \in Nat : y < x => <<y, x>> \in OpToRel(<, Nat)
    BY <1>1 DEF OpToRel
  <2>2. \A y \in Since : y \in Nat /\ x \in Nat /\ ~(y < x)
    BY <1>1, <1>3, <2>1
  <2> QED
    BY <2>2
<1>5. PICK m \in Months : FirstDayOf[m] <= d /\ x = d - FirstDayOf[m]
  OBVIOUS
<1>6. ASSUME NEW n \in Months, FirstDayOf[n] <= d
      PROVE  n <= m
  <2>1. d - FirstDayOf[n] \in Since
    BY <1>6
  <2>2. FirstDayOf[n] <= FirstDayOf[m]
    BY <2>1, <1>4, <1>5, LedgerConstants
  <2>3. ~(m < n)
    BY <2>2, LedgerConstants
  <2> QED
    BY <2>3, LedgerConstants
<1> QED
  BY <1>5, <1>6

(* So MonthOf is what it says.                                             *)
LEMMA MonthOfDay ==
    ASSUME NEW d \in Nat
    PROVE  /\ MonthOf(d) \in Months /\ MonthOf(d) \in Nat
           /\ FirstDayOf[MonthOf(d)] \in Nat /\ FirstDayOf[MonthOf(d)] <= d
           /\ \A n \in Months : FirstDayOf[n] <= d => n <= MonthOf(d)
<1>1. /\ MonthOf(d) \in Months /\ FirstDayOf[MonthOf(d)] <= d
      /\ \A n \in Months : FirstDayOf[n] <= d => n <= MonthOf(d)
  BY MonthExists DEF MonthOf
<1> QED
  BY <1>1, LedgerConstants

(* The months of later days are not earlier.                               *)
LEMMA MonthOfMonotone ==
    ASSUME NEW d \in Nat, NEW e \in Nat, d <= e
    PROVE  MonthOf(d) <= MonthOf(e)
<1>1. FirstDayOf[MonthOf(d)] <= e
  BY MonthOfDay, LedgerConstants
<1> QED
  BY <1>1, MonthOfDay

(* A day before the month of another is in an earlier month.               *)
LEMMA EarlierMonth ==
    ASSUME NEW d \in Nat, NEW e \in Nat, d < FirstDayOf[MonthOf(e)]
    PROVE  MonthOf(d) < MonthOf(e)
<1>1. FirstDayOf[MonthOf(d)] < FirstDayOf[MonthOf(e)]
  BY MonthOfDay, LedgerConstants
<1>2. MonthOf(d) # MonthOf(e)
  BY <1>1, MonthOfDay
<1>3. FirstDayOf[MonthOf(d)] <= e
  BY <1>1, MonthOfDay
<1>4. MonthOf(d) <= MonthOf(e)
  BY <1>3, MonthOfDay
<1>5. MonthOf(d) \in Nat /\ MonthOf(e) \in Nat
  BY MonthOfDay
<1> QED
  BY <1>2, <1>4, <1>5

-----------------------------------------------------------------------------
(* Days, rows and what is taken keep their types; a run's zone is at most  *)
(* a day behind.                                                           *)
RowTypes ==
    /\ today \in Days \ {0} /\ zone \in {0, 1} /\ loc \in [Runs -> {0, 1}]
    /\ step \in [Runs -> Steps]
    /\ live \in Nat /\ taken \in [Runs -> Nat]
    /\ daily \in [Days -> Nat \cup {None}]
    /\ booked \in [Days -> Nat \cup {None}]

(* Inductive: a day whose row was deleted is past every run's day, so that *)
(* nothing is ever booked on it again.                                     *)
RowInv == RowTypes /\ RecentDaysKept

(* At the start no row is missing.                                         *)
LEMMA RowInit == Init => RowInv
  BY LedgerConstants DEF Init, RowInv, RowTypes, RecentDaysKept, Days, Steps

(* A run's day is the clock's day or the day before.                       *)
LEMMA RunDayType ==
    ASSUME RowTypes, NEW r \in Runs
    PROVE  RunDay(r) \in Days /\ RunDay(r) <= today /\ today - RunDay(r) <= 1
<1>1. /\ today \in 0..LastDay /\ today # 0 /\ LastDay \in Nat
      /\ loc[r] \in {0, 1} /\ RunDay(r) = today - loc[r]
  BY LedgerConstants DEF RowTypes, RunDay, LocalDay, Days
<1> QED
  BY <1>1 DEF Days

(* Going on keeps the types, and touches no other run.                     *)
LEMMA GoToType ==
    ASSUME RowTypes, NEW r \in Runs, NEW next \in Steps, GoTo(r, next)
    PROVE  /\ loc' \in [Runs -> {0, 1}] /\ step' \in [Runs -> Steps]
           /\ \A q \in Runs : step'[q] = IF q = r THEN next ELSE step[q]
  BY DEF GoTo, localVars, RowTypes

(* No row of a run's day has been deleted,                                 *)
LEMMA RunRow ==
    ASSUME RowInv, NEW r \in Runs
    PROVE  daily[RunDay(r)] = booked[RunDay(r)]
<1>1. /\ RunDay(r) \in Days /\ RunDay(r) <= today /\ today - RunDay(r) <= 1
      /\ RunDay(r) \in Nat /\ today \in Nat
  BY RunDayType, LedgerConstants DEF RowInv, RowTypes
<1>2. \A q \in RetentionDays : ~(q > 0 /\ RunDay(r) < today - q)
  BY <1>1, LedgerConstants
<1> QED
  BY <1>1, <1>2 DEF RowInv, RecentDaysKept

(* and a save leaves it equal to what is booked on it.                     *)
LEMMA SaveRow ==
    ASSUME RowInv, NEW r \in Runs, SaveHourly(r)
    PROVE  /\ daily'[RunDay(r)] = booked'[RunDay(r)]
           /\ \A d \in Days \ {RunDay(r)} :
                 daily'[d] = daily[d] /\ booked'[d] = booked[d]
<1>1. /\ RunDay(r) \in Days /\ daily[RunDay(r)] = booked[RunDay(r)]
      /\ daily \in [Days -> Nat \cup {None}] /\ booked \in [Days -> Nat \cup {None}]
  BY RunRow, RunDayType DEF RowInv, RowTypes
<1>2. /\ daily' = [daily EXCEPT ![RunDay(r)] = Upserted(@, taken[r])]
      /\ booked' = [booked EXCEPT
                      ![RunDay(r)] = (IF @ = None THEN 0 ELSE @) + taken[r]]
      /\ taken[r] \in Nat
  BY DEF SaveHourly, RowInv, RowTypes
<1>3. daily'[RunDay(r)] = booked'[RunDay(r)]
  BY <1>1, <1>2 DEF Upserted
<1> QED
  BY <1>1, <1>2, <1>3

(* RowInv is inductive: only days older than the retention are deleted.    *)
LEMMA RowStep == RowInv /\ [Next]_vars => RowInv'
<1> SUFFICES ASSUME RowInv, [Next]_vars
             PROVE  RowInv'
  OBVIOUS
<1> USE DEF RowInv
<1>0. /\ today \in Nat /\ zone \in {0, 1} /\ live \in Nat
      /\ taken \in [Runs -> Nat] /\ loc \in [Runs -> {0, 1}]
      /\ step \in [Runs -> Steps] /\ RowTypes
  BY LedgerConstants DEF RowTypes
<1>a. /\ {"idle", "save", "sum", "month", "cleanDays", "cleanMonths", "done"} = Steps
      /\ Runs = {"hourly", "flush"}
  BY DEF Steps, Runs
<1>1. CASE UNCHANGED <<clockVars, dayVars>> /\ RowTypes'
  BY <1>1 DEF RecentDaysKept, clockVars, dayVars
<1>2. ASSUME UNCHANGED <<clockVars, dayVars>>, loc' \in [Runs -> {0, 1}],
             step' \in [Runs -> Steps], live' \in Nat, taken' \in [Runs -> Nat]
      PROVE  RowInv'
  BY <1>1, <1>2 DEF RowTypes, clockVars, dayVars
<1>3. CASE Count
  BY <1>0, <1>2, <1>3 DEF Count, localVars
<1>4. CASE Tick
  <2>1. RowTypes'
    BY <1>4, LedgerConstants DEF Tick, RowTypes, memVars, dayVars, Days
  <2>2. MonthOf(today) <= MonthOf(today')
    BY <1>0, <1>4, MonthOfMonotone DEF Tick
  <2>3. MonthOf(today) \in Nat /\ MonthOf(today') \in Nat
    <3>1. today' \in Nat
      BY <1>0, <1>4 DEF Tick
    <3> QED
      BY <1>0, <3>1, MonthOfDay
  <2>4. \A d \in Days : MonthOf(d) \in Nat
    BY MonthOfDay, LedgerConstants
  <2>5. RecentDaysKept'
    BY <1>0, <1>4, <2>2, <2>3, <2>4, LedgerConstants
    DEF Tick, RecentDaysKept, dayVars
  <2> QED
    BY <2>1, <2>5
<1>5. CASE ChangeZone
  BY <1>5 DEF ChangeZone, RowTypes, RecentDaysKept, localVars, memVars, dayVars
<1>6. ASSUME NEW r \in Runs, Take(r) PROVE RowInv'
  BY <1>0, <1>a, <1>2, <1>6 DEF Take, ResetTotals
<1>7. ASSUME NEW r \in Runs, SaveHourly(r) PROVE RowInv'
  <2>1. today' = today /\ zone' = zone /\ live' = live /\ RunDay(r) \in Days
    BY <1>7, RunDayType DEF SaveHourly, clockVars
  <2>2. taken' \in [Runs -> Nat]
    BY <1>0, <1>7 DEF SaveHourly
  <2>3. loc' \in [Runs -> {0, 1}] /\ step' \in [Runs -> Steps]
    BY <1>0, <1>a, <1>7, GoToType DEF SaveHourly
  <2>4. /\ daily' \in [Days -> Nat \cup {None}]
        /\ booked' \in [Days -> Nat \cup {None}]
    <3>1. /\ daily' = [daily EXCEPT ![RunDay(r)] = Upserted(@, taken[r])]
          /\ booked' = [booked EXCEPT
                          ![RunDay(r)] = (IF @ = None THEN 0 ELSE @) + taken[r]]
          /\ taken[r] \in Nat
      BY <1>0, <1>7 DEF SaveHourly
    <3>2. \A x \in Nat \cup {None} :
             /\ Upserted(x, taken[r]) \in Nat
             /\ (IF x = None THEN 0 ELSE x) + taken[r] \in Nat
      BY <3>1 DEF Upserted
    <3> QED
      BY <2>1, <3>1, <3>2 DEF RowTypes
  <2>5. RowTypes'
    BY <2>1, <2>2, <2>3, <2>4 DEF RowTypes
  <2>6. RecentDaysKept'
    BY <1>7, <2>1, SaveRow DEF RecentDaysKept
  <2> QED
    BY <2>5, <2>6
<1>8. ASSUME NEW r \in Runs, SaveHourlyFails(r) PROVE RowInv'
  BY <1>0, <1>a, <1>2, <1>8, GoToType DEF SaveHourlyFails
<1>9. ASSUME NEW r \in Runs, SumMonth(r) PROVE RowInv'
  BY <1>0, <1>a, <1>2, <1>9 DEF SumMonth, memVars
<1>10. ASSUME NEW r \in Runs, SaveMonth(r) \/ MonthFails(r) PROVE RowInv'
  BY <1>0, <1>a, <1>2, <1>10, GoToType DEF SaveMonth, MonthFails, AfterMonth, memVars
<1>11. CASE CleanDays
  <2>1. PICK r \in RetentionDays :
           daily' = [d \in Days |->
                        IF d \in ExpiredDays(r) THEN None ELSE daily[d]]
    BY <1>11 DEF CleanDays
  <2>2. RowTypes'
    BY <1>a, <1>11, <2>1 DEF CleanDays, RowTypes, clockVars, memVars
  <2>3. ASSUME NEW d \in ExpiredDays(r)
        PROVE  MonthOf(d) < MonthOf(today) /\ r > 0 /\ d < today - r
    <3>1. /\ d \in Nat /\ r \in Nat /\ Today \in Nat /\ Today <= today
      BY RunDayType, LedgerConstants DEF ExpiredDays, Rows, Today, Runs
    <3>2. r > 0 /\ d < Today - r /\ d < FirstDayOf[MonthOf(Today)]
      BY DEF ExpiredDays, ThisMonth, RunMonth, Today
    <3>3. MonthOf(d) < MonthOf(Today)
      BY <3>1, <3>2, EarlierMonth
    <3>4. MonthOf(Today) <= MonthOf(today)
      BY <1>0, <3>1, MonthOfMonotone
    <3>5. MonthOf(d) \in Nat /\ MonthOf(Today) \in Nat /\ MonthOf(today) \in Nat
      BY <1>0, <3>1, MonthOfDay
    <3> QED
      BY <1>0, <3>1, <3>2, <3>3, <3>4, <3>5
  <2>4. \A d \in Days \ ExpiredDays(r) : daily'[d] = daily[d]
    BY <2>1
  <2>5. today' = today /\ booked' = booked
    BY <1>11 DEF CleanDays, clockVars
  <2> QED
    BY <2>2, <2>3, <2>4, <2>5 DEF RecentDaysKept
<1>12. CASE CleanMonths \/ CleanFails
  BY <1>0, <1>a, <1>2, <1>12, GoToType DEF CleanMonths, CleanFails, memVars
<1>13. CASE Exit \/ Crash
  BY <1>a, <1>2, <1>13 DEF Exit, Crash, Restart
<1>14. CASE UNCHANGED vars
  BY <1>0, <1>2, <1>14 DEF vars, localVars, memVars
<1> QED
  BY <1>3, <1>4, <1>5, <1>6, <1>7, <1>8, <1>9, <1>10, <1>11, <1>12, <1>13,
     <1>14 DEF Next

(* CleanOldData keeps the running month and the days within the shortest   *)
(* retention, whatever zones, retentions, crashes and failures there were. *)
THEOREM RecentDays == Spec => []RecentDaysKept
<1>1. RowInv => RecentDaysKept
  BY DEF RowInv
<1> QED
  BY RowInit, RowStep, <1>1, PTL DEF Spec

(* In every reachable state the rows that differ from what was booked are  *)
(* older than some retention.                                              *)
THEOREM RowInvariant == Spec => []RowInv
  BY RowInit, RowStep, PTL DEF Spec

-----------------------------------------------------------------------------
(* What has been booked on each day, and a month's or the whole sum of it. *)
Booking == [Days -> Nat \cup {None}]
Amount(b) == [d \in Days |-> IF b[d] = None THEN 0 ELSE b[d]]
AmountOn(b, D) == SumFunctionOnSet(Amount(b), D)

(* There are finitely many days, so that sums over them are defined.       *)
LEMMA DaysFinite ==
    /\ IsFiniteSet(Days)
    /\ \A D \in SUBSET Days : IsFiniteSet(D)
    /\ \A m : DaysOf(m) \in SUBSET Days
<1>1. IsFiniteSet(Days)
  BY LedgerConstants, FS_Interval DEF Days
<1>2. \A D \in SUBSET Days : IsFiniteSet(D)
  BY <1>1, FS_Subset
<1> QED
  BY <1>1, <1>2 DEF DaysOf

(* Every day has an amount, zero where nothing is booked.                  *)
LEMMA AmountType == ASSUME NEW b \in Booking PROVE Amount(b) \in [Days -> Nat]
  BY DEF Amount, Booking

(* Any set of days has a total.                                            *)
LEMMA AmountOnType ==
    ASSUME NEW b \in Booking, NEW D \in SUBSET Days
    PROVE  AmountOn(b, D) \in Nat
<1>1. \A d \in D : Amount(b)[d] \in Nat
  BY AmountType
<1> QED
  BY <1>1, DaysFinite, SumNat DEF AmountOn

(* The sum of the days that have an entry is that of the amounts.          *)
LEMMA EntriesSum ==
    ASSUME NEW b \in Booking, NEW D \in SUBSET Days
    PROVE  SumFunctionOnSet(b, {d \in D : b[d] # None}) = AmountOn(b, D)
<1> DEFINE T == {d \in D : b[d] # None}
<1>1. /\ T \in SUBSET D /\ \A d \in D : Amount(b)[d] \in Int
      /\ \A d \in T : b[d] = Amount(b)[d]
      /\ \A d \in D \ T : Amount(b)[d] = 0
  BY AmountType DEF Amount
<1> HIDE DEF T
<1>2. SumFunctionOnSet(b, T) = SumFunctionOnSet(Amount(b), D)
  BY <1>1, DaysFinite, SumNonzero
<1> QED
  BY <1>2 DEF T, AmountOn

(* The model's two sums are sums of the amounts,                           *)
LEMMA BookedSums ==
    ASSUME booked \in Booking
    PROVE  /\ BookedTotal = AmountOn(booked, Days)
           /\ \A m : BookedIn(m) = AmountOn(booked, DaysOf(m))
  BY EntriesSum, DaysFinite DEF BookedTotal, BookedIn

(* and so they are in the next state.                                      *)
LEMMA BookedSumsNext ==
    ASSUME booked' \in Booking
    PROVE  /\ BookedTotal' = AmountOn(booked', Days)
           /\ \A m : BookedIn(m)' = AmountOn(booked', DaysOf(m))
<1>1. \A D \in SUBSET Days :
         SumFunctionOnSet(booked', {d \in D : booked'[d] # None}) = AmountOn(booked', D)
  BY EntriesSum
<1>2. BookedTotal' = AmountOn(booked', Days)
  BY <1>1 DEF BookedTotal
<1>3. ASSUME NEW m PROVE BookedIn(m)' = AmountOn(booked', DaysOf(m))
  BY <1>1, DaysFinite DEF BookedIn, DaysOf
<1> QED
  BY <1>2, <1>3

(* A save adds what was taken to the sums its day is in, and to no other.  *)
LEMMA SaveAdds ==
    ASSUME RowInv, NEW r \in Runs, SaveHourly(r)
    PROVE  /\ BookedTotal' = BookedTotal + taken[r]
           /\ \A m : BookedIn(m)' = BookedIn(m) + IF m = RunMonth(r) THEN taken[r] ELSE 0
<1> DEFINE w == RunDay(r)
           a == taken[r]
<1>0. /\ booked \in Booking /\ w \in Days /\ a \in Nat
      /\ booked' = [booked EXCEPT ![w] = (IF @ = None THEN 0 ELSE @) + a]
  BY RunDayType DEF RowInv, RowTypes, SaveHourly, Booking
<1>m. RunMonth(r) = MonthOf(w)
  BY DEF RunMonth
<1> HIDE DEF w, a
<1>1. booked' \in Booking
  BY <1>0, LedgerConstants DEF Booking
<1>2. /\ Amount(booked')[w] = Amount(booked)[w] + a
      /\ \A d \in Days \ {w} : Amount(booked)[d] = Amount(booked')[d]
  <2>1. booked'[w] = Amount(booked)[w] + a /\ booked'[w] # None
    BY <1>0, AmountType, LedgerConstants DEF Amount, Booking
  <2>2. \A d \in Days \ {w} : booked'[d] = booked[d]
    BY <1>0
  <2> QED
    BY <1>0, <2>1, <2>2 DEF Amount
<1>3. \A d \in Days : Amount(booked)[d] \in Nat /\ Amount(booked')[d] \in Nat
  BY <1>0, <1>1, AmountType
<1>4. ASSUME NEW D \in SUBSET Days
      PROVE  AmountOn(booked', D) = AmountOn(booked, D) + IF w \in D THEN a ELSE 0
  <2>1. IsFiniteSet(D) /\ AmountOn(booked, D) \in Nat
    BY <1>0, DaysFinite, AmountOnType
  <2>2. CASE w \in D
    <3>1. AmountOn(booked', D)
            = AmountOn(booked, D) - Amount(booked)[w] + Amount(booked')[w]
      BY <1>2, <1>3, <2>1, <2>2, SumChange DEF AmountOn
    <3> QED
      BY <1>0, <1>2, <1>3, <2>1, <2>2, <3>1
  <2>3. CASE w \notin D
    <3>1. \A d \in D : Amount(booked)[d] \in Int /\ Amount(booked)[d] = Amount(booked')[d]
      BY <1>2, <1>3, <2>3
    <3>2. AmountOn(booked, D) = AmountOn(booked', D)
      BY <2>1, <3>1, SumSame DEF AmountOn
    <3> QED
      BY <2>1, <2>3, <3>2
  <2> QED
    BY <2>2, <2>3
<1>5. BookedTotal' = BookedTotal + a
  BY <1>0, <1>1, <1>4, BookedSums, BookedSumsNext
<1>6. ASSUME NEW m
      PROVE  BookedIn(m)' = BookedIn(m) + IF m = MonthOf(w) THEN a ELSE 0
  <2>1. w \in DaysOf(m) <=> m = MonthOf(w)
    BY <1>0 DEF DaysOf
  <2>2. BookedIn(m) = AmountOn(booked, DaysOf(m))
    BY <1>0, BookedSums
  <2>3. BookedIn(m)' = AmountOn(booked', DaysOf(m))
    BY <1>1, BookedSumsNext
  <2>4. AmountOn(booked', DaysOf(m))
          = AmountOn(booked, DaysOf(m)) + IF w \in DaysOf(m) THEN a ELSE 0
    BY <1>4, DaysFinite
  <2> QED
    BY <2>1, <2>2, <2>3, <2>4
<1> QED
  BY <1>5, <1>6, <1>m DEF a

(* The sums change only with what is booked.                               *)
LEMMA SameBooked ==
    ASSUME UNCHANGED booked
    PROVE  BookedTotal' = BookedTotal /\ \A m : BookedIn(m)' = BookedIn(m)
  BY DEF BookedTotal, BookedIn, DaysOf

-----------------------------------------------------------------------------
(* Balanced, with the counters it needs: what a run has taken it has in    *)
(* hand until it is saved, or lost, and main's flush leaves nothing behind.*)
BalanceInv ==
    /\ Balanced
    /\ observed \in 0..MaxTraffic /\ lost \in Nat
    /\ \A r \in Runs : step[r] # "save" => taken[r] = 0
    /\ step["flush"] # "idle" => live = 0

(* At the start nothing was observed.                                      *)
LEMMA BalanceInit == Init => BalanceInv
<1> SUFFICES ASSUME Init PROVE BalanceInv
  OBVIOUS
<1>1. booked \in Booking /\ \A d \in Days : Amount(booked)[d] = 0
  BY DEF Init, Amount, Booking
<1>2. BookedTotal = 0
  BY <1>1, BookedSums, DaysFinite, SumZero DEF AmountOn
<1>3. MaxTraffic \in Nat
  BY LedgerAssumption
<1> QED
  BY <1>2, <1>3 DEF Init, BalanceInv, Balanced, Runs

(* BalanceInv is inductive: every step moves units from one place to one   *)
(* other, and no step of a run touches what the other has taken.           *)
LEMMA BalanceStep == RowInv /\ BalanceInv /\ [Next]_vars => BalanceInv'
<1> SUFFICES ASSUME RowInv, BalanceInv, [Next]_vars
             PROVE  BalanceInv'
  OBVIOUS
<1> DEFINE h == taken["hourly"]
           f == taken["flush"]
<1>0. /\ live \in Nat /\ h \in Nat /\ f \in Nat /\ observed \in Nat /\ lost \in Nat
      /\ observed <= MaxTraffic /\ MaxTraffic \in Nat /\ BookedTotal \in Nat
      /\ observed = live + h + f + lost + BookedTotal
      /\ \A d \in Days : daily[d] \in {None, booked[d]}
      /\ \A r \in Runs : step[r] # "save" => taken[r] = 0
      /\ step["flush"] # "idle" => live = 0
      /\ RowTypes /\ step \in [Runs -> Steps] /\ taken \in [Runs -> Nat]
  BY LedgerAssumption, BookedSums, AmountOnType
     DEF RowInv, RowTypes, BalanceInv, Balanced, Booking, Runs
<1>a. ASSUME UNCHANGED dayVars
      PROVE  /\ BookedTotal' = BookedTotal
             /\ \A d \in Days : daily'[d] \in {None, booked'[d]}
  BY <1>0, <1>a, SameBooked DEF dayVars
<1>b. /\ {"idle", "save", "sum", "month", "cleanDays", "cleanMonths", "done"} = Steps
      /\ Runs = {"hourly", "flush"}
  BY DEF Steps, Runs
<1>c. ASSUME UNCHANGED <<memVars, dayVars>>, NEW r \in Runs,
             NEW next \in Steps \ {"save"}, step[r] \notin {"idle", "save"},
             \A q \in Runs : step'[q] = IF q = r THEN next ELSE step[q]
      PROVE  BalanceInv'
  <2>1. \A q \in Runs : step'[q] # "save" => step[q] # "save"
    BY <1>c
  <2> QED
    BY <1>0, <1>a, <1>b, <1>c, <2>1 DEF BalanceInv, Balanced, memVars
<1> USE DEF BalanceInv, Balanced
<1>1. CASE Count
  <2>1. /\ UNCHANGED <<step, taken, lost, dayVars>> /\ step["flush"] = "idle"
        /\ observed < MaxTraffic /\ live' = live + 1 /\ observed' = observed + 1
    BY <1>1 DEF Count
  <2>2. observed' \in 0..MaxTraffic
    BY <1>0, <2>1
  <2>3. observed' = live' + taken'["hourly"] + taken'["flush"] + lost' + BookedTotal'
    <3>1. /\ BookedTotal' = BookedTotal /\ lost' = lost
          /\ taken'["hourly"] = h /\ taken'["flush"] = f
      BY <1>a, <2>1
    <3> HIDE DEF h, f
    <3> QED
      BY <1>0, <2>1, <3>1
  <2> QED
    BY <1>0, <1>a, <2>1, <2>2, <2>3
<1>2. CASE Tick \/ ChangeZone \/ UNCHANGED vars
  <2>1. UNCHANGED <<memVars, dayVars, step>>
    BY <1>2 DEF Tick, ChangeZone, vars
  <2> QED
    BY <1>0, <1>a, <2>1 DEF memVars
<1>3. ASSUME NEW r \in Runs, Take(r) PROVE BalanceInv'
  BY <1>0, <1>b, <1>3, <1>a DEF Take, ResetTotals
<1>4. ASSUME NEW r \in Runs, SaveHourly(r) PROVE BalanceInv'
  <2>1. /\ UNCHANGED <<live, observed, lost>> /\ taken' = [taken EXCEPT ![r] = 0]
        /\ BookedTotal' = BookedTotal + taken[r] /\ step[r] = "save"
    BY <1>4, SaveAdds DEF SaveHourly
  <2>2. \A d \in Days : daily'[d] \in {None, booked'[d]}
    BY <1>0, <1>4, SaveRow
  <2>3. \A q \in Runs : step'[q] = IF q = r THEN "sum" ELSE step[q]
    BY <1>0, <1>b, <1>4, GoToType DEF SaveHourly
  <2> QED
    BY <1>0, <1>b, <2>1, <2>2, <2>3
<1>5. ASSUME NEW r \in Runs, SaveHourlyFails(r) PROVE BalanceInv'
  <2>1. \A q \in Runs : step'[q] = IF q = r THEN IF r = "flush" THEN "done" ELSE "sum"
                                   ELSE step[q]
    BY <1>0, <1>b, <1>5, GoToType DEF SaveHourlyFails
  <2>2. /\ UNCHANGED <<live, observed, dayVars>> /\ taken' = [taken EXCEPT ![r] = 0]
        /\ lost' = lost + taken[r] /\ step[r] = "save"
    BY <1>5 DEF SaveHourlyFails
  <2> QED
    BY <1>0, <1>a, <1>b, <2>1, <2>2
<1>6. ASSUME NEW r \in Runs, SumMonth(r) PROVE BalanceInv'
  BY <1>0, <1>b, <1>c, <1>6 DEF SumMonth
<1>7. ASSUME NEW r \in Runs, SaveMonth(r) \/ MonthFails(r) PROVE BalanceInv'
  <2>1. /\ UNCHANGED <<memVars, dayVars>> /\ step[r] \notin {"idle", "save"}
        /\ GoTo(r, AfterMonth(r)) /\ AfterMonth(r) \in Steps \ {"save"}
    BY <1>b, <1>7 DEF SaveMonth, MonthFails, AfterMonth
  <2> QED
    BY <1>0, <1>c, <2>1, GoToType
<1>8. CASE CleanDays
  <2>1. UNCHANGED <<memVars, booked>> /\ step' = [step EXCEPT !["hourly"] = "cleanMonths"]
        /\ step["hourly"] = "cleanDays"
    BY <1>8 DEF CleanDays
  <2>2. \A d \in Days : daily'[d] \in {None, booked'[d]}
    BY <1>0, <1>8 DEF CleanDays
  <2> QED
    BY <1>0, <1>b, <2>1, <2>2, SameBooked DEF memVars
<1>9. CASE CleanMonths \/ CleanFails
  <2>1. /\ UNCHANGED <<memVars, dayVars>> /\ step["hourly"] \notin {"idle", "save"}
        /\ GoTo("hourly", "idle") /\ "idle" \in Steps \ {"save"}
    BY <1>b, <1>9 DEF CleanMonths, CleanFails
  <2> QED
    BY <1>0, <1>b, <1>c, <2>1, GoToType
<1>10. CASE Exit
  <2>1. live = 0 /\ h = 0 /\ f = 0
    BY <1>0, <1>b, <1>10 DEF Exit
  <2> QED
    BY <1>0, <1>a, <1>b, <1>10, <2>1 DEF Exit, Restart
<1>11. CASE Crash
  BY <1>0, <1>a, <1>b, <1>11 DEF Crash, Restart
<1> QED
  BY <1>1, <1>2, <1>3, <1>4, <1>5, <1>6, <1>7, <1>8, <1>9, <1>10, <1>11 DEF Next

(* In every reachable state each unit observed is in one place, and the    *)
(* runs have none in hand but between Take and the save.                   *)
THEOREM BalanceInvariant == Spec => []BalanceInv
  BY BalanceInit, BalanceStep, RowInvariant, PTL DEF Spec

(* No traffic is counted twice or dropped, but for what a crash or a       *)
(* failed statement takes with it.                                         *)
THEOREM TrafficBalanced == Spec => []Balanced
<1>1. BalanceInv => Balanced
  BY DEF BalanceInv
<1> QED
  BY <1>1, BalanceInvariant, PTL

-----------------------------------------------------------------------------
Traffic == 0..MaxTraffic
MonthSum == [month : Months, total : Traffic]

(* The traffic observed is bounded.                                        *)
LEMMA TrafficBound == MaxTraffic \in Nat /\ 0 \in Traffic /\ Traffic \subseteq Nat
  BY LedgerAssumption DEF Traffic

(* No day has more than all, and all is no more than was observed.         *)
LEMMA Bounded ==
    ASSUME RowInv, BalanceInv
    PROVE  /\ {live, observed, lost} \subseteq Traffic
           /\ taken \in [Runs -> Traffic]
           /\ \A D \in SUBSET Days : AmountOn(booked, D) \in Traffic
           /\ \A d \in Days : Amount(booked)[d] \in Traffic
<1>1. /\ booked \in Booking /\ observed \in Traffic
      /\ live \in Nat /\ lost \in Nat /\ taken \in [Runs -> Nat]
      /\ taken["hourly"] \in Nat /\ taken["flush"] \in Nat
      /\ observed = live + taken["hourly"] + taken["flush"] + lost
                      + AmountOn(booked, Days)
  BY BookedSums DEF RowInv, RowTypes, BalanceInv, Balanced, Booking, Traffic, Runs
<1>2. AmountOn(booked, Days) \in Traffic
  BY <1>1, TrafficBound, AmountOnType DEF Traffic
<1>3. ASSUME NEW D \in SUBSET Days PROVE AmountOn(booked, D) \in Traffic
  <2>1. AmountOn(booked, D) <= AmountOn(booked, Days) /\ AmountOn(booked, D) \in Nat
    BY <1>1, AmountType, AmountOnType, DaysFinite, SumPart DEF AmountOn
  <2> QED
    BY <1>2, <2>1, TrafficBound DEF Traffic
<1>4. ASSUME NEW d \in Days PROVE Amount(booked)[d] \in Traffic
  <2>1. AmountOn(booked, Days) = Amount(booked)[d] + AmountOn(booked, Days \ {d})
    BY <1>1, AmountType, DaysFinite, SumRemove DEF AmountOn
  <2>2. AmountOn(booked, Days \ {d}) \in Nat /\ Amount(booked)[d] \in Nat
    BY <1>1, AmountType, AmountOnType
  <2> QED
    BY <1>2, <2>1, <2>2, TrafficBound DEF Traffic
<1>5. AmountOn(booked, Days) \in Nat
  BY <1>1, AmountOnType
<1>6. {live, observed, lost} \subseteq Traffic
  BY <1>1, <1>5, TrafficBound DEF Traffic
<1>7. taken["hourly"] \in Traffic /\ taken["flush"] \in Traffic
  BY <1>1, <1>5, TrafficBound DEF Traffic
<1> QED
  BY <1>1, <1>3, <1>4, <1>6, <1>7 DEF Runs

(* What SumMonth reads is what was booked on those days.                   *)
LEMMA DailySum ==
    ASSUME RowInv, BalanceInv, NEW D \in SUBSET Rows
    PROVE  SumFunctionOnSet(daily, D) = AmountOn(booked, D)
<1>1. D \in SUBSET Days /\ IsFiniteSet(D)
  BY DaysFinite DEF Rows
<1>2. booked \in Booking /\ \A d \in D : daily[d] = booked[d] /\ booked[d] # None
  BY DEF RowInv, RowTypes, BalanceInv, Balanced, Booking, Rows
<1>3. \A d \in D : daily[d] = Amount(booked)[d] /\ daily[d] \in Int
  BY <1>1, <1>2, AmountType DEF Amount
<1> QED
  BY <1>1, <1>3, SumSame DEF AmountOn

(* The types that RowInv and BalanceInv do not give.  Only a run between   *)
(* its SELECT and its INSERT has a sum, and without a flush it is fresh.   *)
RunTypes ==
    /\ moved \subseteq Months /\ changes \in 0..MaxChanges
    /\ passed \in [Runs -> BOOLEAN]
    /\ cleanDay \in Days /\ cleanDay <= today
    /\ sum \in [Runs -> MonthSum \cup {NoSum}]
    /\ \A r \in Runs : step[r] = "month" => sum[r] \in MonthSum
    /\ step["flush"] \notin {"cleanDays", "cleanMonths"}
    /\ fresh \subseteq {r \in Runs : step[r] = "month"}
    /\ step["flush"] = "idle" /\ step["hourly"] = "month" => "hourly" \in fresh
    /\ monthly \in [Months -> Traffic \cup {None}]
    /\ settled \subseteq Months

(* The start is well typed.                                                *)
LEMMA RunTypesInit == Init => RunTypes
<1> SUFFICES ASSUME Init PROVE RunTypes
  OBVIOUS
<1>1. 0 \in Days /\ 0 <= 1 /\ 0 \in 0..MaxChanges
  BY LedgerConstants, LedgerAssumption DEF Days
<1>2. monthly \in [Months -> Traffic \cup {None}]
  BY DEF Init
<1> QED
  BY <1>1, <1>2 DEF Init, RunTypes, Runs

(* Going on to a step of the task leaves the locals well typed.            *)
LEMMA GoToLocals ==
    ASSUME RowTypes, RunTypes, UNCHANGED today, NEW r \in Runs, NEW next,
           GoTo(r, next)
    PROVE  /\ passed' \in [Runs -> BOOLEAN]
           /\ cleanDay' \in Days /\ cleanDay' <= today'
           /\ sum' \in [Runs -> MonthSum \cup {NoSum}]
           /\ \A q \in Runs \ {r} : sum'[q] = sum[q]
<1>1. CASE next \in {"idle", "done"}
  <2>1. 0 \in Days /\ 0 <= today'
    BY LedgerConstants DEF Days, RowTypes
  <2>2. NoSum \in MonthSum \cup {NoSum}
    OBVIOUS
  <2> QED
    BY <1>1, <2>1, <2>2 DEF GoTo, RunTypes
<1>2. CASE next \notin {"idle", "done"}
  BY <1>2 DEF GoTo, RunTypes, localVars
<1> QED
  BY <1>1, <1>2

(* Going on, but not to the INSERT, leaves the rest well typed.            *)
LEMMA GoToRunTypes ==
    ASSUME RowTypes, RunTypes, UNCHANGED clockVars, NEW r \in Runs,
           NEW next \in Steps \ {"month"}, GoTo(r, next), step[r] # "idle",
           r = "flush" => next \notin {"idle", "cleanDays", "cleanMonths"},
           fresh' = fresh \ {r}, monthly' \in [Months -> Traffic \cup {None}],
           settled' \subseteq Months
    PROVE  RunTypes'
<1>1. \A q \in Runs : step'[q] = IF q = r THEN next ELSE step[q]
  BY GoToType
<1>2. Runs = {"hourly", "flush"}
  BY DEF Runs
<1>3. UNCHANGED today
  BY DEF clockVars
<1>4. /\ passed' \in [Runs -> BOOLEAN]
      /\ cleanDay' \in Days /\ cleanDay' <= today'
      /\ sum' \in [Runs -> MonthSum \cup {NoSum}]
      /\ \A q \in Runs \ {r} : sum'[q] = sum[q]
  BY <1>3, GoToLocals
<1>5. \A q \in Runs : step'[q] = "month" => sum'[q] \in MonthSum
  BY <1>1, <1>4 DEF RunTypes
<1>6. fresh' \subseteq {q \in Runs : step'[q] = "month"}
  BY <1>1 DEF RunTypes
<1>7. step'["flush"] \notin {"cleanDays", "cleanMonths"}
  BY <1>1, <1>2 DEF RunTypes
<1>8. step'["flush"] = "idle" /\ step'["hourly"] = "month" => "hourly" \in fresh'
  BY <1>1, <1>2 DEF RunTypes
<1>9. moved' = moved /\ changes' = changes
  BY DEF clockVars
<1> QED
  BY <1>4, <1>5, <1>6, <1>7, <1>8, <1>9 DEF RunTypes

(* RunTypes is inductive, given that sums are bounded.                     *)
LEMMA RunTypesStep ==
    ASSUME RowInv, BalanceInv, RunTypes, [Next]_vars
    PROVE  RunTypes'
<1>0. /\ today \in Nat /\ RowTypes /\ step \in [Runs -> Steps]
      /\ \A r \in Runs : RunDay(r) \in Days /\ RunMonth(r) \in Months
  BY RunDayType, LedgerConstants, MonthOfDay DEF RowInv, RowTypes, RunMonth
<1>a. /\ {"idle", "save", "sum", "month", "cleanDays", "cleanMonths", "done"} = Steps
      /\ Runs = {"hourly", "flush"}
  BY DEF Steps, Runs
<1>1. CASE Count \/ UNCHANGED vars
  BY <1>1 DEF Count, vars, RunTypes, clockVars, localVars, monthVars
<1>2. CASE Tick
  <2>1. /\ cleanDay' = cleanDay /\ today' = today + 1
        /\ passed' \in [Runs -> BOOLEAN]
    BY <1>2 DEF Tick, Active
  <2>2. cleanDay' <= today'
    BY <1>0, <2>1, LedgerConstants DEF RunTypes
  <2> QED
    BY <1>2, <2>1, <2>2 DEF Tick, RunTypes, monthVars
<1>3. CASE ChangeZone
  <2>1. LocalDay(0) \in Nat /\ LocalDay(1) \in Nat
    BY <1>0, LedgerConstants DEF LocalDay, RowInv, RowTypes
  <2>2. moved' \subseteq Months
    BY <1>3, <2>1, MonthOfDay DEF ChangeZone, RunTypes
  <2>3. changes' \in 0..MaxChanges
    BY <1>3, LedgerAssumption DEF ChangeZone, RunTypes
  <2> QED
    BY <1>3, <2>2, <2>3 DEF ChangeZone, RunTypes, localVars, monthVars
<1>4. ASSUME NEW r \in Runs, Take(r) PROVE RunTypes'
  <2>1. /\ UNCHANGED <<clockVars, passed, sum, cleanDay, fresh, monthVars>>
        /\ step[r] = "idle"
        /\ \A q \in Runs : step'[q] = IF q = r THEN "save" ELSE step[q]
    BY <1>0, <1>4 DEF Take
  <2> QED
    BY <1>a, <2>1 DEF RunTypes, clockVars, monthVars
<1>5. ASSUME NEW r \in Runs, SaveHourly(r) PROVE RunTypes'
  <2>1. /\ UNCHANGED <<clockVars, localVars, monthly>> /\ step[r] = "save"
        /\ fresh' = {q \in fresh : sum[q].month # RunMonth(r)}
        /\ settled' = settled \ {RunMonth(r)}
        /\ \A q \in Runs : step'[q] = IF q = r THEN "sum" ELSE step[q]
    BY <1>0, <1>5 DEF SaveHourly, GoTo
  <2>2. step'["flush"] = "idle" => step'["hourly"] # "month"
    BY <1>a, <2>1
  <2>3. fresh' \subseteq {q \in Runs : step'[q] = "month"}
    BY <2>1 DEF RunTypes
  <2> QED
    BY <1>a, <2>1, <2>2, <2>3 DEF RunTypes, clockVars, localVars
<1>6. ASSUME NEW r \in Runs, SaveHourlyFails(r) PROVE RunTypes'
  <2>1. r \notin fresh
    BY <1>6 DEF SaveHourlyFails, RunTypes
  <2>2. fresh' = fresh \ {r}
    BY <1>6, <2>1 DEF SaveHourlyFails
  <2> QED
    BY <1>0, <1>a, <1>6, <2>2, GoToRunTypes DEF SaveHourlyFails, RunTypes, monthVars
<1>7. ASSUME NEW r \in Runs, SumMonth(r) PROVE RunTypes'
  <2>1. Summed(r) \in SUBSET Rows /\ Summed(r) \in SUBSET Days
    BY DEF Summed, Rows
  <2>2. SumFunctionOnSet(daily, Summed(r)) \in Traffic
    BY <2>1, DailySum, Bounded
  <2>3. /\ UNCHANGED <<clockVars, passed, cleanDay, monthVars>>
        /\ fresh' = fresh \cup {r} /\ step[r] = "sum"
        /\ \A q \in Runs : step'[q] = IF q = r THEN "month" ELSE step[q]
    BY <1>0, <1>7 DEF SumMonth
  <2>4. /\ sum' \in [Runs -> MonthSum \cup {NoSum}] /\ sum'[r] \in MonthSum
        /\ \A q \in Runs \ {r} : sum'[q] = sum[q]
    <3>1. [month |-> RunMonth(r), total |-> SumFunctionOnSet(daily, Summed(r))]
            \in MonthSum
      BY <1>0, <2>2 DEF MonthSum
    <3> QED
      BY <1>7, <3>1 DEF SumMonth, RunTypes
  <2>5. \A q \in Runs : step'[q] = "month" => sum'[q] \in MonthSum
    BY <2>3, <2>4 DEF RunTypes
  <2>6. fresh' \subseteq {q \in Runs : step'[q] = "month"}
    BY <2>3 DEF RunTypes
  <2>7. step'["flush"] = "idle" /\ step'["hourly"] = "month" => "hourly" \in fresh'
    BY <1>a, <2>3 DEF RunTypes
  <2> QED
    BY <1>a, <2>3, <2>4, <2>5, <2>6, <2>7 DEF RunTypes, clockVars, monthVars
<1>8. ASSUME NEW r \in Runs, SaveMonth(r) PROVE RunTypes'
  <2>1. sum[r] \in MonthSum
    BY <1>8 DEF SaveMonth, RunTypes
  <2>2. monthly' \in [Months -> Traffic \cup {None}] /\ settled' \subseteq Months
    BY <1>8, <2>1 DEF SaveMonth, RunTypes, MonthSum
  <2> QED
    BY <1>0, <1>a, <1>8, <2>2, GoToRunTypes DEF SaveMonth, AfterMonth
<1>9. ASSUME NEW r \in Runs, MonthFails(r) PROVE RunTypes'
  BY <1>0, <1>a, <1>9, GoToRunTypes DEF MonthFails, AfterMonth, RunTypes, monthVars
<1>10. CASE CleanDays
  <2>1. /\ UNCHANGED <<clockVars, passed, sum, fresh, monthVars>>
        /\ cleanDay' = RunDay("hourly") /\ step["hourly"] = "cleanDays"
        /\ \A q \in Runs : step'[q] = IF q = "hourly" THEN "cleanMonths" ELSE step[q]
    BY <1>0, <1>10 DEF CleanDays, Today
  <2>2. RunDay("hourly") \in Days /\ RunDay("hourly") <= today
    BY <1>0, <1>a, RunDayType
  <2> QED
    BY <1>a, <2>1, <2>2 DEF RunTypes, clockVars, monthVars
<1>11. CASE CleanMonths \/ CleanFails
  <2>1. /\ GoTo("hourly", "idle") /\ UNCHANGED <<clockVars, fresh, settled>>
        /\ step["hourly"] \in {"cleanDays", "cleanMonths"}
    BY <1>11 DEF CleanMonths, CleanFails, monthVars
  <2>2. fresh' = fresh \ {"hourly"}
    BY <2>1 DEF RunTypes
  <2>3. monthly' \in [Months -> Traffic \cup {None}]
    BY <1>11 DEF CleanMonths, CleanFails, RunTypes, monthVars
  <2> QED
    BY <1>0, <1>a, <2>1, <2>2, <2>3, GoToRunTypes DEF RunTypes
<1>12. CASE Exit \/ Crash
  <2>1. 0 \in Days /\ 0 <= today
    BY <1>0, LedgerConstants DEF Days
  <2>2. /\ Restart /\ UNCHANGED <<clockVars, monthVars>>
    BY <1>12 DEF Exit, Crash
  <2> QED
    BY <1>a, <2>1, <2>2 DEF Restart, RunTypes, clockVars, monthVars
<1> QED
  BY <1>1, <1>2, <1>3, <1>4, <1>5, <1>6, <1>7, <1>8, <1>9, <1>10, <1>11,
     <1>12 DEF Next

(* A month that is being saved has a sum, no greater than the traffic.     *)
THEOREM RunTypesInvariant == Spec => []RunTypes
<1>1. RowInv /\ BalanceInv /\ RunTypes /\ [Next]_vars => RunTypes'
  BY RunTypesStep
<1> QED
  BY <1>1, RunTypesInit, RowInvariant, BalanceInvariant, PTL DEF Spec

(* No row, no sum and no total ever exceeds the traffic there was.         *)
THEOREM TypeCorrect == Spec => []TypeOK
<1>1. RowInv /\ BalanceInv /\ RunTypes => TypeOK
  <2> SUFFICES ASSUME RowInv, BalanceInv, RunTypes PROVE TypeOK
    OBVIOUS
  <2>1. booked \in [Days -> Traffic \cup {None}]
    BY Bounded DEF RowInv, RowTypes, Amount
  <2>2. daily \in [Days -> Traffic \cup {None}]
    BY <2>1 DEF RowInv, RowTypes, BalanceInv, Balanced
  <2> QED
    BY <2>1, <2>2, Bounded DEF RowInv, RowTypes, RunTypes, TypeOK, Traffic, MonthSum
<1> QED
  BY <1>1, RowInvariant, BalanceInvariant, RunTypesInvariant, PTL

-----------------------------------------------------------------------------
(* Months are consecutive: midnight passes into the next at most.          *)
LEMMA NextDayMonth ==
    ASSUME NEW e \in Nat \ {0}, NEW m \in Nat,
           m < MonthOf(e), ~(m < MonthOf(e - 1))
    PROVE  m = MonthOf(e - 1)
<1> DEFINE a == MonthOf(e - 1)
           b == MonthOf(e)
<1>0. e - 1 \in Nat
  OBVIOUS
<1>1. /\ a \in Months /\ b \in Months /\ a \in Nat /\ b \in Nat
      /\ FirstDayOf[b] \in Nat /\ FirstDayOf[b] <= e
      /\ \A n \in Months : FirstDayOf[n] <= e - 1 => n <= a
  BY <1>0, MonthOfDay
<1> HIDE DEF a, b
<1>2. ASSUME a + 1 < b PROVE FALSE
  <2>1. a + 1 \in a..b
    BY <1>1, <1>2
  <2>2. a + 1 \in Months
    BY <1>1, <2>1, LedgerAssumption
  <2>3. FirstDayOf[a + 1] < FirstDayOf[b] /\ FirstDayOf[a + 1] \in Nat
    BY <1>1, <1>2, <2>2, LedgerConstants
  <2>4. FirstDayOf[a + 1] <= e - 1
    BY <1>1, <2>3
  <2>5. a + 1 <= a
    BY <1>1, <2>2, <2>4
  <2> QED
    BY <1>1, <2>5
<1>3. m < b /\ ~(m < a)
  BY DEF a, b
<1>4. m = a
  BY <1>1, <1>2, <1>3
<1> QED
  BY <1>4 DEF a

(* AddDate(0, -r, 0) goes at most a month too few back.                    *)
LEMMA CutoffBound ==
    ASSUME cleanDay \in Days, NEW r \in Nat \ {0},
           MonthOf(cleanDay) - r \in Months
    PROVE  /\ CutoffMonth(MonthOf(cleanDay), r) \in Nat
           /\ CutoffMonth(MonthOf(cleanDay), r) <= MonthOf(cleanDay) - r + 1
<1> DEFINE a == MonthOf(cleanDay)
           n == a - r
           x == FirstDayOf[n] + (cleanDay - FirstDayOf[a])
<1>1. /\ a \in Months /\ a \in Nat /\ FirstDayOf[a] \in Nat
      /\ FirstDayOf[a] <= cleanDay /\ cleanDay \in Nat
      /\ n \in Months /\ n \in Nat /\ FirstDayOf[n] \in Nat
  BY MonthOfDay, LedgerConstants
<1>2. x \in Nat
  BY <1>1
<1>3. /\ MonthOf(x) \in Months /\ MonthOf(x) \in Nat
      /\ FirstDayOf[MonthOf(x)] \in Nat /\ FirstDayOf[MonthOf(x)] <= x
  BY <1>2, MonthOfDay
<1>4. CutoffMonth(MonthOf(cleanDay), r) = MonthOf(x)
  BY DEF CutoffMonth
<1>5. CASE r = 1
  <2>1. FirstDayOf[n] < FirstDayOf[a]
    BY <1>1, <1>5, LedgerConstants
  <2>2. x <= cleanDay
    BY <1>1, <2>1
  <2>3. MonthOf(x) <= a
    BY <1>1, <1>2, <2>2, MonthOfMonotone
  <2> QED
    BY <1>1, <1>3, <1>4, <1>5, <2>3
<1>6. CASE r # 1
  <2>1. n + 2 \in n..a
    BY <1>1, <1>6
  <2>2. n + 2 \in Months /\ FirstDayOf[n + 2] \in Nat
    BY <1>1, <2>1, LedgerAssumption, LedgerConstants
  <2>3. cleanDay - FirstDayOf[a] < FirstDayOf[n + 2] - FirstDayOf[n]
    BY <1>1, <2>2, CalendarAssumption
  <2>4. x < FirstDayOf[n + 2]
    BY <1>1, <2>2, <2>3
  <2>5. FirstDayOf[MonthOf(x)] < FirstDayOf[n + 2]
    BY <1>2, <1>3, <2>2, <2>4
  <2>6. ~(n + 2 < MonthOf(x)) /\ MonthOf(x) # n + 2
    BY <1>1, <1>3, <2>2, <2>5, LedgerConstants
  <2> HIDE DEF x, n
  <2>7. MonthOf(x) <= n + 1
    BY <1>1, <1>3, <2>6
  <2> QED
    BY <1>3, <1>4, <2>7 DEF n
<1> QED
  BY <1>5, <1>6

-----------------------------------------------------------------------------
(* The zones in use: the configured one and those the runs have read.      *)
Zones == {zone} \cup {loc[r] : r \in {q \in Runs : Active(q)}}

(* A run whose zone is no longer the configured one has seen it change.    *)
ZoneKnown ==
    \A r \in Runs : Active(r) /\ loc[r] # zone =>
        /\ MonthOf(LocalDay(1)) \in moved
        /\ ~passed[r] => MonthOf(today) \in moved

(* Deleted days are of months past, in every zone in use.                  *)
GoneBehind ==
    \A d \in Days : daily[d] # booked[d] =>
        \/ MonthOf(d) \in moved
        \/ \A z \in Zones : MonthOf(d) < MonthOf(LocalDay(z))

(* Nothing is booked ahead of the day it is in any zone in use, but on the *)
(* first day of a month by a run whose zone is not that of the rest.       *)
Foremost(d) == d = today /\ MonthOf(LocalDay(1)) # MonthOf(today)
BookedBefore ==
    \A d \in Days : booked[d] # None =>
        \/ MonthOf(d) \in moved
        \/ Foremost(d)
        \/ \A z \in Zones : d <= LocalDay(z)

DayInv == ZoneKnown /\ GoneBehind /\ BookedBefore

(* The days the clock and the zones are on, and their months.              *)
LEMMA Around ==
    ASSUME RowTypes
    PROVE  /\ today \in Nat \ {0} /\ today - 1 \in Nat
           /\ LocalDay(0) = today /\ LocalDay(1) = today - 1
           /\ zone \in Zones /\ Zones \subseteq {0, 1}
           /\ \A d \in Days : d \in Nat /\ MonthOf(d) \in Nat
           /\ \A z \in {0, 1} : /\ LocalDay(z) \in Nat
                                /\ MonthOf(LocalDay(z)) \in Months \cap Nat
           /\ MonthOf(LocalDay(1)) <= MonthOf(LocalDay(0))
<1>1. /\ today \in Nat \ {0} /\ today - 1 \in Nat
      /\ LocalDay(0) = today /\ LocalDay(1) = today - 1
  BY LedgerConstants DEF RowTypes, LocalDay
<1>2. zone \in Zones /\ Zones \subseteq {0, 1}
  BY DEF Zones, RowTypes
<1>3. \A d \in Days : d \in Nat /\ MonthOf(d) \in Nat
  BY LedgerConstants, MonthOfDay
<1>4. \A z \in {0, 1} : /\ LocalDay(z) \in Nat
                        /\ MonthOf(LocalDay(z)) \in Months \cap Nat
  BY <1>1, MonthOfDay
<1>5. MonthOf(LocalDay(1)) <= MonthOf(LocalDay(0))
  BY <1>1, MonthOfMonotone
<1> QED
  BY <1>1, <1>2, <1>3, <1>4, <1>5

(* A run is on the day of a zone in use.                                   *)
LEMMA RunZone ==
    ASSUME RowTypes, NEW r \in Runs, Active(r)
    PROVE  /\ loc[r] \in Zones /\ loc[r] \in {0, 1}
           /\ RunDay(r) = LocalDay(loc[r]) /\ RunMonth(r) = MonthOf(LocalDay(loc[r]))
           /\ RunDay(r) \in Nat /\ RunDay(r) \in Days
<1>1. loc[r] \in Zones /\ loc[r] \in {0, 1}
  BY DEF Zones, RowTypes
<1> QED
  BY <1>1, RunDayType, Around DEF RunDay, RunMonth

(* Where two zones are in use, the month of the day before was moved.      *)
LEMMA Apart ==
    ASSUME RowTypes, ZoneKnown, NEW y \in Zones, NEW z \in Zones, y # z
    PROVE  MonthOf(LocalDay(1)) \in moved
<1>1. PICK x \in Zones : x # zone
  OBVIOUS
<1>2. PICK r \in Runs : Active(r) /\ loc[r] # zone
  BY <1>1 DEF Zones
<1> QED
  BY <1>2 DEF ZoneKnown

(* At the start nothing is booked.                                         *)
LEMMA DayInit == Init => DayInv
<1> SUFFICES ASSUME Init PROVE DayInv
  OBVIOUS
<1> QED
  BY DEF Init, DayInv, ZoneKnown, GoneBehind, BookedBefore, Active

(* Steps that leave the clock, the zones and the rows, and begin no run    *)
(* but in the configured zone.                                             *)
LEMMA DayStays ==
    ASSUME DayInv, UNCHANGED <<clockVars, dayVars>>,
           \A r \in Runs : Active(r)' =>
              \/ loc'[r] = zone
              \/ Active(r) /\ loc'[r] = loc[r] /\ passed'[r] = passed[r]
    PROVE  DayInv'
<1>0. UNCHANGED <<today, zone, moved, daily, booked>>
  BY DEF clockVars, dayVars
<1>1. ZoneKnown'
  BY <1>0 DEF DayInv, ZoneKnown, LocalDay
<1>2. Zones' \subseteq Zones
  BY <1>0 DEF Zones
<1>3. GoneBehind'
  BY <1>0, <1>2 DEF DayInv, GoneBehind, LocalDay
<1>4. BookedBefore'
  BY <1>0, <1>2 DEF DayInv, BookedBefore, Foremost, LocalDay
<1> QED
  BY <1>1, <1>3, <1>4 DEF DayInv

(* Going on or ending begins no run.                                       *)
LEMMA GoToStays ==
    ASSUME RowTypes, DayInv, UNCHANGED <<clockVars, dayVars>>,
           NEW r \in Runs, NEW next \in Steps, GoTo(r, next), Active(r),
           passed \in [Runs -> BOOLEAN]
    PROVE  DayInv'
<1>1. \A q \in Runs : step'[q] = IF q = r THEN next ELSE step[q]
  BY GoToType
<1>2. CASE next \in {"idle", "done"}
  <2>1. \A q \in Runs \ {r} : loc'[q] = loc[q] /\ passed'[q] = passed[q]
    BY <1>2 DEF GoTo, RowTypes
  <2>2. \A q \in Runs : Active(q)' => q # r /\ Active(q)
    BY <1>1, <1>2 DEF Active
  <2> QED
    BY <2>1, <2>2, DayStays
<1>3. CASE next \notin {"idle", "done"}
  <2>1. loc' = loc /\ passed' = passed
    BY <1>3 DEF GoTo, localVars
  <2>2. \A q \in Runs : Active(q)' => Active(q)
    BY <1>1 DEF Active
  <2> QED
    BY <2>1, <2>2, DayStays
<1> QED
  BY <1>2, <1>3

(* Midnight: the days before are behind, in every zone.                    *)
LEMMA DayTick == RowInv /\ DayInv /\ Tick => DayInv'
<1> SUFFICES ASSUME RowInv, DayInv, Tick PROVE DayInv'
  OBVIOUS
<1>0. /\ today' = today + 1 /\ UNCHANGED <<zone, moved, step, loc, daily, booked>>
      /\ \A r \in Runs : ~passed[r] /\ passed'[r] = Active(r) /\ Active(r)' = Active(r)
  BY DEF Tick, dayVars, Active
<1>1. RowTypes
  BY DEF RowInv
<1>2. /\ Zones' = Zones /\ Zones \subseteq {0, 1} /\ today \in Nat \ {0}
      /\ LocalDay(1)' = today /\ LocalDay(1) = today - 1
      /\ \A z \in Zones : /\ LocalDay(z) = today - z /\ LocalDay(z) \in Nat
                          /\ today' - z = LocalDay(z) + 1
  <2>1. Zones' = Zones
    BY <1>0 DEF Zones
  <2>2. /\ Zones \subseteq {0, 1} /\ today \in Nat \ {0}
        /\ \A z \in {0, 1} : LocalDay(z) = today - z /\ LocalDay(z) \in Nat
    BY <1>1, Around DEF LocalDay
  <2>3. LocalDay(1)' = today
    BY <1>0, <2>2 DEF LocalDay
  <2>4. \A z \in {0, 1} : today' - z = LocalDay(z) + 1
    BY <1>0, <2>2
  <2> QED
    BY <2>1, <2>2, <2>3, <2>4
<1>3. ZoneKnown'
  BY <1>0, <1>2 DEF DayInv, ZoneKnown
<1>4. GoneBehind'
  <2>1. ASSUME NEW d \in Days, NEW z \in Zones, MonthOf(d) < MonthOf(LocalDay(z))
        PROVE  MonthOf(d) < MonthOf(today' - z)
    <3>1. LocalDay(z) \in Nat /\ LocalDay(z) + 1 \in Nat /\ today' - z = LocalDay(z) + 1
      BY <1>2
    <3>2. MonthOf(LocalDay(z)) <= MonthOf(LocalDay(z) + 1)
      BY <3>1, MonthOfMonotone
    <3>3. /\ MonthOf(LocalDay(z)) \in Nat /\ MonthOf(LocalDay(z) + 1) \in Nat
          /\ MonthOf(d) \in Nat
      BY <1>1, <3>1, MonthOfDay, Around
    <3> QED
      BY <2>1, <3>1, <3>2, <3>3
  <2>2. \A z : LocalDay(z)' = today' - z
    BY <1>0 DEF LocalDay
  <2>3. \A d \in Days : daily'[d] # booked'[d] =>
           \/ MonthOf(d) \in moved
           \/ \A z \in Zones : MonthOf(d) < MonthOf(today' - z)
    BY <1>0, <2>1 DEF DayInv, GoneBehind
  <2> QED
    BY <1>0, <1>2, <2>2, <2>3 DEF GoneBehind, MonthOf
<1>5. BookedBefore'
  <2>1. ASSUME NEW d \in Days, booked[d] # None, MonthOf(d) \notin moved,
               NEW z \in Zones
        PROVE  d <= today' - z
    <3>1. d \in Nat /\ z \in {0, 1}
      BY <1>1, <1>2, Around
    <3>2. d = today \/ d <= LocalDay(z)
      BY <2>1 DEF DayInv, BookedBefore, Foremost
    <3> QED
      BY <1>0, <1>2, <3>1, <3>2
  <2>2. \A z : LocalDay(z)' = today' - z
    BY <1>0 DEF LocalDay
  <2> QED
    BY <1>0, <1>2, <2>1, <2>2 DEF BookedBefore
<1> QED
  BY <1>3, <1>4, <1>5 DEF DayInv

(* A change of the zone spoils only the months of the two days it may be.  *)
LEMMA DayChangeZone == RowInv /\ DayInv /\ ChangeZone => DayInv'
<1> SUFFICES ASSUME RowInv, DayInv, ChangeZone PROVE DayInv'
  OBVIOUS
<1>0. /\ zone' = 1 - zone /\ UNCHANGED <<today, step, loc, passed, daily, booked>>
      /\ moved' = moved \cup {MonthOf(today), MonthOf(today - 1)}
      /\ \A r \in Runs : Active(r)' = Active(r)
      /\ \A z : LocalDay(z)' = LocalDay(z)
  BY Around DEF ChangeZone, localVars, dayVars, Active, RowInv, LocalDay
<1>1. RowTypes
  BY DEF RowInv
<1>2. /\ zone \in {0, 1} /\ zone \in Zones /\ Zones \subseteq {0, 1}
      /\ today \in Nat \ {0} /\ today - 1 \in Nat
      /\ LocalDay(0) = today /\ LocalDay(1) = today - 1
      /\ MonthOf(today) \in Nat /\ MonthOf(today - 1) \in Nat
      /\ MonthOf(today - 1) <= MonthOf(today)
  BY <1>1, Around DEF RowTypes
<1>3. ZoneKnown'
  BY <1>0, <1>2 DEF ZoneKnown
<1>4. Zones' \subseteq Zones \cup {1 - zone}
  BY <1>0 DEF Zones
<1>5. GoneBehind'
  <2>1. ASSUME NEW d \in Days, MonthOf(d) \notin moved',
               \A z \in Zones : MonthOf(d) < MonthOf(LocalDay(z)), NEW z \in Zones'
        PROVE  MonthOf(d) < MonthOf(LocalDay(z))
    <3>1. MonthOf(d) \in Nat /\ MonthOf(d) < MonthOf(LocalDay(zone))
      BY <1>1, <1>2, <2>1, Around
    <3>2. CASE zone = 1
      BY <1>2, <1>4, <2>1, <3>1, <3>2
    <3>3. CASE zone = 0
      <4>1. MonthOf(d) < MonthOf(today) /\ MonthOf(d) # MonthOf(today - 1)
        BY <1>0, <1>2, <2>1, <3>1, <3>3
      <4>2. MonthOf(d) < MonthOf(today - 1)
        BY <1>2, <3>1, <4>1, NextDayMonth
      <4> QED
        BY <1>2, <1>4, <3>3, <4>1, <4>2
    <3> QED
      BY <1>2, <3>2, <3>3
  <2>2. \A d \in Days : daily[d] # booked[d] /\ MonthOf(d) \notin moved' =>
           \A z \in Zones : MonthOf(d) < MonthOf(LocalDay(z))
    BY <1>0 DEF DayInv, GoneBehind
  <2>3. \A z : MonthOf(LocalDay(z))' = MonthOf(LocalDay(z))
    BY <1>0 DEF MonthOf
  <2> QED
    BY <1>0, <2>1, <2>2, <2>3 DEF GoneBehind
<1>6. BookedBefore'
  <2>1. ASSUME NEW d \in Days, booked[d] # None, MonthOf(d) \notin moved', NEW z \in Zones'
        PROVE  d <= LocalDay(z)
    <3>1. d \in Nat /\ d # today
      BY <1>0, <1>1, <2>1, Around
    <3>2. d <= LocalDay(zone) /\ (z \in Zones => d <= LocalDay(z))
      BY <1>0, <1>2, <2>1, <3>1 DEF DayInv, BookedBefore, Foremost
    <3> QED
      BY <1>2, <1>4, <3>1, <3>2
  <2> QED
    BY <1>0, <2>1 DEF BookedBefore
<1> QED
  BY <1>3, <1>5, <1>6 DEF DayInv

(* Steps of a run that leave the clock and what the runs have read.        *)
LEMMA ZonesStay ==
    ASSUME UNCHANGED <<clockVars, loc>>, \A q \in Runs : Active(q)' = Active(q)
    PROVE  /\ UNCHANGED <<today, zone, moved>> /\ Zones' = Zones
           /\ \A z : LocalDay(z)' = LocalDay(z)
  BY DEF clockVars, Zones, LocalDay

(* A save books on the run's day.                                          *)
LEMMA DaySave ==
    ASSUME RowInv, DayInv, NEW r \in Runs, SaveHourly(r)
    PROVE  DayInv'
<1>0. /\ UNCHANGED <<clockVars, loc, passed>> /\ Active(r)
      /\ \A q \in Runs : Active(q)' = Active(q)
  BY DEF SaveHourly, GoTo, localVars, Active, RowInv, RowTypes
<1>1. /\ UNCHANGED <<today, zone, moved>> /\ Zones' = Zones
      /\ \A z : LocalDay(z)' = LocalDay(z)
  BY <1>0, ZonesStay
<1>2. ZoneKnown'
  BY <1>0, <1>1 DEF DayInv, ZoneKnown
<1>3. GoneBehind'
  BY <1>1, SaveRow DEF DayInv, GoneBehind
<1>4. BookedBefore'
  <2> DEFINE w == RunDay(r)
  <2>1. \/ MonthOf(w) \in moved
        \/ Foremost(w)
        \/ \A z \in Zones : w <= LocalDay(z)
    <3>1. /\ loc[r] \in Zones /\ w = LocalDay(loc[r]) /\ w \in Nat
          /\ Zones \subseteq {0, 1}
          /\ LocalDay(0) = today /\ LocalDay(1) = today - 1 /\ today \in Nat
      BY <1>0, RunZone, Around DEF RowInv
    <3>2. CASE \A z \in Zones : z = loc[r]
      BY <3>1, <3>2
    <3>3. CASE loc[r] = 1
      BY <3>1, <3>3
    <3>4. CASE loc[r] = 0 /\ \E z \in Zones : z # loc[r]
      <4>1. w = today /\ MonthOf(LocalDay(1)) \in moved
        BY <3>1, <3>4, Apart DEF RowInv, DayInv
      <4> QED
        BY <4>1 DEF Foremost
    <3> QED
      BY <3>1, <3>2, <3>3, <3>4
  <2>2. \A d \in Days : d # w /\ booked'[d] # None => booked[d] # None
    BY SaveRow
  <2> HIDE DEF w
  <2> QED
    BY <1>1, <2>1, <2>2 DEF DayInv, BookedBefore, Foremost
<1> QED
  BY <1>2, <1>3, <1>4 DEF DayInv

(* CleanOldData deletes days of earlier months only.                       *)
LEMMA DayClean == RowInv /\ DayInv /\ CleanDays => DayInv'
<1> SUFFICES ASSUME RowInv, DayInv, CleanDays PROVE DayInv'
  OBVIOUS
<1>0. /\ UNCHANGED <<clockVars, loc, passed, booked>> /\ Active("hourly")
      /\ \A q \in Runs : Active(q)' = Active(q)
  BY DEF CleanDays, Active, RowInv, RowTypes
<1>1. /\ UNCHANGED <<today, zone, moved>> /\ Zones' = Zones
      /\ \A z : LocalDay(z)' = LocalDay(z)
  BY <1>0, ZonesStay
<1>2. ZoneKnown'
  BY <1>0, <1>1 DEF DayInv, ZoneKnown
<1>3. BookedBefore'
  BY <1>0, <1>1 DEF DayInv, BookedBefore, Foremost
<1>4. GoneBehind'
  <2>1. PICK r \in RetentionDays :
           daily' = [d \in Days |->
                        IF d \in ExpiredDays(r) THEN None ELSE daily[d]]
    BY DEF CleanDays
  <2>2. ASSUME NEW d \in ExpiredDays(r), MonthOf(d) \notin moved, NEW z \in Zones
        PROVE  MonthOf(d) < MonthOf(LocalDay(z))
    <3> DEFINE y == loc["hourly"]
    <3>1. /\ y \in Zones /\ Today = LocalDay(y) /\ Today \in Nat
          /\ ThisMonth = MonthOf(Today)
      BY <1>0, RunZone DEF Runs, Today, ThisMonth, RunMonth, RowInv
    <3>2. /\ Zones \subseteq {0, 1} /\ today \in Nat \ {0}
          /\ LocalDay(0) = today /\ LocalDay(1) = today - 1
          /\ MonthOf(LocalDay(0)) \in Nat /\ MonthOf(LocalDay(1)) \in Nat
          /\ MonthOf(LocalDay(1)) <= MonthOf(LocalDay(0))
      BY Around DEF RowInv
    <3>3. d \in Nat /\ MonthOf(d) \in Nat /\ MonthOf(d) < MonthOf(LocalDay(y))
      <4>1. d \in Nat /\ d < FirstDayOf[MonthOf(Today)]
        BY <3>1, LedgerConstants DEF ExpiredDays, Rows
      <4> QED
        BY <3>1, <4>1, EarlierMonth, MonthOfDay
    <3> HIDE DEF y
    <3>4. CASE y = z
      BY <3>3, <3>4
    <3>5. CASE y = 1 /\ z = 0
      BY <3>2, <3>3, <3>5
    <3>6. CASE y = 0 /\ z = 1
      <4>1. MonthOf(today - 1) \in moved
        BY <3>1, <3>2, <3>6, Apart DEF RowInv, DayInv
      <4> QED
        BY <2>2, <3>2, <3>3, <3>6, <4>1, NextDayMonth
    <3> QED
      BY <3>1, <3>2, <3>4, <3>5, <3>6
  <2>3. \A d \in Days \ ExpiredDays(r) : daily'[d] = daily[d]
    BY <2>1
  <2> QED
    BY <1>0, <1>1, <2>2, <2>3 DEF DayInv, GoneBehind
<1> QED
  BY <1>2, <1>3, <1>4 DEF DayInv

(* DayInv is inductive.                                                    *)
LEMMA DayStep == RowInv /\ RunTypes /\ DayInv /\ [Next]_vars => DayInv'
<1> SUFFICES ASSUME RowInv, RunTypes, DayInv, [Next]_vars PROVE DayInv'
  OBVIOUS
<1>0. /\ RowTypes /\ step \in [Runs -> Steps] /\ loc \in [Runs -> {0, 1}]
      /\ passed \in [Runs -> BOOLEAN]
  BY DEF RowInv, RowTypes, RunTypes
<1>a. /\ {"idle", "save", "sum", "month", "cleanDays", "cleanMonths", "done"} = Steps
      /\ Runs = {"hourly", "flush"}
  BY DEF Steps, Runs
<1>1. CASE Tick \/ ChangeZone \/ CleanDays
  BY <1>1, DayTick, DayChangeZone, DayClean
<1>2. CASE Count \/ UNCHANGED vars
  <2>1. UNCHANGED <<clockVars, dayVars, loc, passed, step>>
    BY <1>2 DEF Count, localVars, vars
  <2> QED
    BY <2>1, DayStays DEF Active
<1>3. ASSUME NEW r \in Runs, Take(r) PROVE DayInv'
  <2>1. /\ UNCHANGED <<clockVars, dayVars, passed>> /\ loc' = [loc EXCEPT ![r] = zone]
        /\ \A q \in Runs : step'[q] = IF q = r THEN "save" ELSE step[q]
    BY <1>0, <1>3 DEF Take
  <2>2. \A q \in Runs : Active(q)' =>
           \/ loc'[q] = zone
           \/ Active(q) /\ loc'[q] = loc[q] /\ passed'[q] = passed[q]
    BY <1>0, <2>1 DEF Active
  <2> QED
    BY <2>1, <2>2, DayStays
<1>4. ASSUME NEW r \in Runs, SaveHourly(r) PROVE DayInv'
  BY <1>4, DaySave
<1>5. ASSUME NEW r \in Runs, SumMonth(r) PROVE DayInv'
  <2>1. /\ UNCHANGED <<clockVars, dayVars, loc, passed>> /\ Active(r)
        /\ \A q \in Runs : step'[q] = IF q = r THEN "month" ELSE step[q]
    BY <1>0, <1>5 DEF SumMonth, Active
  <2>2. \A q \in Runs : Active(q)' => Active(q)
    BY <2>1 DEF Active
  <2> QED
    BY <2>1, <2>2, DayStays
<1>6. ASSUME NEW r \in Runs, SaveHourlyFails(r) \/ SaveMonth(r) \/ MonthFails(r)
      PROVE  DayInv'
  <2>1. /\ UNCHANGED <<clockVars, dayVars>> /\ Active(r)
        /\ \E next \in Steps : GoTo(r, next)
    BY <1>a, <1>6 DEF SaveHourlyFails, SaveMonth, MonthFails, AfterMonth, Active
  <2> QED
    BY <1>0, <2>1, GoToStays
<1>7. CASE CleanMonths \/ CleanFails
  <2>1. /\ UNCHANGED <<clockVars, dayVars>> /\ Active("hourly")
        /\ GoTo("hourly", "idle")
    BY <1>7 DEF CleanMonths, CleanFails, Active
  <2> QED
    BY <1>0, <1>a, <2>1, GoToStays
<1>8. CASE Exit \/ Crash
  <2>1. UNCHANGED <<clockVars, dayVars>> /\ \A q \in Runs : ~Active(q)'
    BY <1>8 DEF Exit, Crash, Restart, Active
  <2> QED
    BY <2>1, DayStays
<1> QED
  BY <1>1, <1>2, <1>3, <1>4, <1>5, <1>6, <1>7, <1>8 DEF Next

(* A day whose row was deleted is behind every run, and no day is booked   *)
(* ahead of the zone, but in months with a change of the zone.             *)
THEOREM DayInvariant == Spec => []DayInv
  BY DayInit, DayStep, RowInvariant, RunTypesInvariant, PTL DEF Spec

-----------------------------------------------------------------------------
(* No sum under way is ahead of what was booked in its month; a fresh one  *)
(* is all of it.                                                           *)
SumRight ==
    \A r \in Runs : step[r] = "month" =>
        /\ sum[r].total <= BookedIn(sum[r].month)
        /\ r \in fresh /\ sum[r].month \notin moved =>
              sum[r].total = BookedIn(sum[r].month)

(* The two halves of MonthComplete.                                        *)
MonthsCovered ==
    \A m \in Months : monthly[m] # None => monthly[m] <= BookedIn(m)
SettledRight ==
    \A m \in settled \ moved :
        \/ monthly[m] = BookedIn(m)
        \/ /\ monthly[m] = None
           /\ \E r \in RetentionMonths : r > 0 /\ m <= MonthOf(today) - r

MonthInv == SumRight /\ MonthsCovered /\ SettledRight

(* What is booked in a month is a total.                                   *)
LEMMA BookedInType ==
    ASSUME RowInv
    PROVE  \A m : BookedIn(m) \in Nat
<1>1. booked \in Booking
  BY DEF RowInv, RowTypes, Booking
<1> QED
  BY <1>1, BookedSums, AmountOnType, DaysFinite

(* At the start no month has a row.                                        *)
LEMMA MonthInit == Init => MonthInv
  BY DEF Init, MonthInv, SumRight, MonthsCovered, SettledRight

(* The days SumMonth reads are days of the run's month,                    *)
LEMMA SummedInMonth ==
    ASSUME RowInv, BalanceInv, NEW r \in Runs, Active(r)
    PROVE  \A d \in Summed(r) : d \in DaysOf(RunMonth(r)) /\ booked[d] # None
<1>0. /\ RunDay(r) \in Nat /\ RunMonth(r) \in Nat /\ RunMonth(r) = MonthOf(RunDay(r))
      /\ FirstDayOf[RunMonth(r)] \in Nat /\ RunMonth(r) \in Months
      /\ \A d \in Days : d \in Nat /\ MonthOf(d) \in Nat
  BY RunZone, Around, MonthOfDay DEF RowInv, RunMonth
<1>1. SUFFICES ASSUME NEW d \in Summed(r)
               PROVE  d \in DaysOf(RunMonth(r)) /\ booked[d] # None
  OBVIOUS
<1>2. d \in Days /\ daily[d] # None /\ FirstDayOf[RunMonth(r)] <= d /\ d <= RunDay(r)
  BY DEF Summed, Rows
<1>3. RunMonth(r) <= MonthOf(d) /\ MonthOf(d) <= RunMonth(r)
  BY <1>0, <1>2, MonthOfDay, MonthOfMonotone
<1>4. MonthOf(d) = RunMonth(r)
  BY <1>0, <1>2, <1>3
<1>5. booked[d] # None
  BY <1>2 DEF BalanceInv, Balanced
<1> QED
  BY <1>2, <1>4, <1>5 DEF DaysOf

(* and all of those on which something was booked.                         *)
LEMMA SummedDays ==
    ASSUME RowInv, BalanceInv, DayInv, NEW r \in Runs, Active(r),
           RunMonth(r) \notin moved
    PROVE  Summed(r) = {d \in DaysOf(RunMonth(r)) : booked[d] # None}
<1> DEFINE m == RunMonth(r)
<1>0. /\ RunDay(r) \in Nat /\ RunDay(r) = LocalDay(loc[r]) /\ loc[r] \in Zones
      /\ m = MonthOf(RunDay(r)) /\ m = MonthOf(LocalDay(loc[r])) /\ m \in Nat
      /\ loc[r] \in {0, 1}
      /\ \A d \in Days : d \in Nat /\ MonthOf(d) \in Nat
  BY RunZone, Around, MonthOfDay DEF RowInv, RunMonth
<1>1. ASSUME NEW d \in DaysOf(m), booked[d] # None
      PROVE  d \in Summed(r)
  <2>1. d \in Days /\ MonthOf(d) = m /\ d \in Nat
    BY <1>0 DEF DaysOf
  <2>2. FirstDayOf[m] <= d
    BY <2>1, MonthOfDay
  <2>3. d <= RunDay(r)
    <3>1. CASE Foremost(d)
      <4>1. d = today /\ MonthOf(LocalDay(1)) # MonthOf(today) /\ today = LocalDay(0)
        BY <3>1, Around DEF Foremost, RowInv
      <4>2. loc[r] # 1
        BY <1>0, <2>1, <4>1
      <4> QED
        BY <1>0, <2>1, <4>1, <4>2
    <3> QED
      BY <1>0, <1>1, <2>1, <3>1 DEF DayInv, BookedBefore
  <2>4. daily[d] = booked[d]
    BY <1>0, <2>1 DEF DayInv, GoneBehind
  <2> QED
    BY <1>1, <2>1, <2>2, <2>3, <2>4 DEF Summed, Rows
<1>2. Summed(r) \subseteq {d \in DaysOf(m) : booked[d] # None}
  BY SummedInMonth
<1>3. {d \in DaysOf(m) : booked[d] # None} \subseteq Summed(r)
  BY <1>1
<1> QED
  BY <1>2, <1>3

(* The sum of the rows present is no more than what was booked, and that   *)
(* of all the days booked where the zone was not changed.                  *)
LEMMA MonthTotal ==
    ASSUME RowInv, BalanceInv, DayInv, NEW r \in Runs, Active(r)
    PROVE  /\ SumFunctionOnSet(daily, Summed(r)) <= BookedIn(RunMonth(r))
           /\ RunMonth(r) \notin moved =>
                 SumFunctionOnSet(daily, Summed(r)) = BookedIn(RunMonth(r))
<1> DEFINE m == RunMonth(r)
           S == Summed(r)
           T == {d \in DaysOf(m) : booked[d] # None}
<1>1. /\ S \in SUBSET Rows /\ S \in SUBSET Days /\ S \in SUBSET T
      /\ T \in SUBSET DaysOf(m) /\ DaysOf(m) \in SUBSET Days
  BY SummedInMonth, DaysFinite DEF Summed, Rows
<1>2. booked \in Booking /\ BookedIn(m) = AmountOn(booked, DaysOf(m))
  BY BookedSums DEF RowInv, RowTypes, Booking
<1>3. SumFunctionOnSet(daily, S) = AmountOn(booked, S)
  BY <1>1, DailySum
<1>4. AmountOn(booked, S) <= AmountOn(booked, DaysOf(m))
  <2>1. S \in SUBSET DaysOf(m) /\ IsFiniteSet(DaysOf(m))
    BY <1>1, DaysFinite
  <2>2. \A d \in DaysOf(m) : Amount(booked)[d] \in Nat
    BY <1>1, <1>2, AmountType
  <2> HIDE DEF S, m
  <2> QED
    BY <2>1, <2>2, SumPart DEF AmountOn
<1>5. ASSUME m \notin moved PROVE SumFunctionOnSet(daily, S) = BookedIn(m)
  <2>1. S = T
    BY <1>5, SummedDays
  <2>2. \A d \in T : daily[d] = booked[d] /\ daily[d] \in Int
    <3>1. ASSUME NEW d \in T PROVE daily[d] = booked[d] /\ daily[d] \in Int
      <4>1. d \in Days /\ daily[d] # None
        BY <1>1, <2>1 DEF Rows
      <4>2. daily[d] \in Nat
        BY <4>1 DEF RowInv, RowTypes
      <4> QED
        BY <4>1, <4>2 DEF BalanceInv, Balanced
    <3> QED
      BY <3>1
  <2>3. BookedIn(m) = SumFunctionOnSet(booked, T) /\ IsFiniteSet(T)
    BY <1>1, DaysFinite DEF BookedIn
  <2> HIDE DEF S, T
  <2>4. SumFunctionOnSet(daily, T) = SumFunctionOnSet(booked, T)
    BY <2>2, <2>3, SumSame
  <2> QED
    BY <2>1, <2>3, <2>4
<1> QED
  BY <1>2, <1>3, <1>4, <1>5

(* Steps that leave the rows and what is booked.                           *)
LEMMA MonthStays ==
    ASSUME MonthInv, UNCHANGED <<booked, monthly, settled>>, moved \subseteq moved',
           MonthOf(today) <= MonthOf(today'),
           MonthOf(today) \in Nat, MonthOf(today') \in Nat, settled \subseteq Nat,
           \A r \in Runs : step'[r] = "month" =>
              /\ step[r] = "month" /\ sum'[r] = sum[r]
              /\ r \in fresh' => r \in fresh
    PROVE  MonthInv'
<1>1. \A m : BookedIn(m)' = BookedIn(m)
  BY SameBooked
<1>2. SumRight'
  <2>1. ASSUME NEW r \in Runs, step'[r] = "month"
        PROVE  /\ sum'[r].total <= BookedIn(sum'[r].month)
               /\ r \in fresh' /\ sum'[r].month \notin moved' =>
                     sum'[r].total = BookedIn(sum'[r].month)
    BY <2>1 DEF MonthInv, SumRight
  <2>2. \A r : BookedIn(sum[r].month)' = BookedIn(sum'[r].month)
    BY DEF BookedIn, DaysOf
  <2> QED
    BY <2>1, <2>2 DEF SumRight
<1>3. MonthsCovered'
  BY <1>1 DEF MonthInv, MonthsCovered
<1>4. SettledRight'
  <2>1. ASSUME NEW m \in settled, m \notin moved
        PROVE  \/ monthly[m] = BookedIn(m)
               \/ /\ monthly[m] = None
                  /\ \E r \in RetentionMonths : r > 0 /\ m <= MonthOf(today') - r
    <3>1. \A r \in RetentionMonths :
             m <= MonthOf(today) - r => m <= MonthOf(today') - r
      BY LedgerAssumption
    <3> QED
      BY <2>1, <3>1 DEF MonthInv, SettledRight
  <2>2. settled' = settled /\ monthly' = monthly /\ MonthOf(today)' = MonthOf(today')
    BY DEF MonthOf
  <2> QED
    BY <1>1, <2>1, <2>2 DEF SettledRight
<1> QED
  BY <1>2, <1>3, <1>4 DEF MonthInv

(* The SELECT: the sum of the run is right, that of the other stays.       *)
LEMMA MonthSumMonth ==
    ASSUME RowInv, BalanceInv, RunTypes, DayInv, MonthInv,
           NEW r \in Runs, SumMonth(r)
    PROVE  MonthInv'
<1> DEFINE new == [month |-> RunMonth(r), total |-> SumFunctionOnSet(daily, Summed(r))]
<1>0. /\ UNCHANGED <<today, moved, booked, monthly, settled>> /\ Active(r)
      /\ \A q \in Runs \ {r} : step'[q] = step[q] /\ (q \in fresh' => q \in fresh)
  BY DEF SumMonth, clockVars, dayVars, monthVars, Active, RowInv, RowTypes
<1>s. sum' = [sum EXCEPT ![r] = new]
  BY DEF SumMonth
<1>1. \A m : BookedIn(m)' = BookedIn(m)
  BY <1>0, SameBooked
<1>2. /\ new.total <= BookedIn(new.month)
      /\ new.month \notin moved => new.total = BookedIn(new.month)
  BY <1>0, MonthTotal
<1> HIDE DEF new
<1>3. SumRight'
  <2>1. ASSUME NEW q \in Runs, step'[q] = "month"
        PROVE  /\ sum'[q].total <= BookedIn(sum'[q].month)
               /\ q \in fresh' /\ sum'[q].month \notin moved =>
                     sum'[q].total = BookedIn(sum'[q].month)
    <3>1. CASE q # r
      <4>1. sum'[q] = sum[q] /\ step[q] = "month" /\ (q \in fresh' => q \in fresh)
        BY <1>0, <1>s, <2>1, <3>1
      <4>2. /\ sum[q].total <= BookedIn(sum[q].month)
            /\ q \in fresh /\ sum[q].month \notin moved =>
                  sum[q].total = BookedIn(sum[q].month)
        BY <4>1 DEF MonthInv, SumRight
      <4> QED
        BY <4>1, <4>2
    <3>2. CASE q = r
      <4>1. sum'[q] = new
        BY <1>s, <3>2 DEF RunTypes
      <4> QED
        BY <1>2, <4>1
    <3> QED
      BY <3>1, <3>2
  <2>2. \A q : BookedIn(sum[q].month)' = BookedIn(sum'[q].month)
    BY <1>0 DEF BookedIn, DaysOf
  <2> QED
    BY <1>0, <2>1, <2>2 DEF SumRight
<1>4. MonthsCovered' /\ SettledRight'
  BY <1>0, <1>1 DEF MonthInv, MonthsCovered, SettledRight
<1> QED
  BY <1>3, <1>4 DEF MonthInv

(* A save adds to what is booked, so no row and no sum gets ahead of it,   *)
(* and those of its month are no longer taken for complete.                *)
LEMMA MonthSave ==
    ASSUME RowInv, RunTypes, MonthInv, NEW r \in Runs, SaveHourly(r)
    PROVE  MonthInv'
<1> DEFINE w == RunMonth(r)
           a == taken[r]
<1>0. /\ UNCHANGED <<today, moved, monthly, sum>> /\ a \in Nat
      /\ settled' = settled \ {w} /\ fresh' = {q \in fresh : sum[q].month # w}
      /\ \A q \in Runs : step'[q] = IF q = r THEN "sum" ELSE step[q]
  BY DEF SaveHourly, GoTo, localVars, clockVars, RowInv, RowTypes
<1>1. \A m : BookedIn(m)' = BookedIn(m) + IF m = w THEN a ELSE 0
  BY SaveAdds
<1> HIDE DEF w, a
<1>2. \A m : BookedIn(m) \in Nat
  BY BookedInType
<1>3. SumRight'
  <2>1. ASSUME NEW q \in Runs, step'[q] = "month"
        PROVE  /\ sum[q].total <= BookedIn(sum[q].month)'
               /\ q \in fresh' /\ sum[q].month \notin moved =>
                     sum[q].total = BookedIn(sum[q].month)'
    <3> DEFINE m == sum[q].month
               t == sum[q].total
    <3>1. /\ step[q] = "month" /\ t \in Nat /\ t <= BookedIn(m)
          /\ q \in fresh /\ m \notin moved => t = BookedIn(m)
      BY <1>0, <2>1, TrafficBound DEF MonthInv, SumRight, RunTypes, MonthSum
    <3>2. BookedIn(m)' = BookedIn(m) + IF m = w THEN a ELSE 0
      <4>1. \A n : n = m => BookedIn(n)' = BookedIn(m)'
        BY <1>0 DEF BookedIn, DaysOf
      <4> QED
        BY <1>1, <4>1
    <3>3. BookedIn(m) \in Nat
      BY <1>2
    <3>4. q \in fresh' => m # w /\ q \in fresh
      BY <1>0
    <3> HIDE DEF m, t
    <3>5. t <= BookedIn(m)' /\ (q \in fresh' /\ m \notin moved => t = BookedIn(m)')
      BY <1>0, <3>1, <3>2, <3>3, <3>4
    <3> QED
      BY <3>5 DEF m, t
  <2> QED
    BY <1>0, <2>1 DEF SumRight
<1>4. MonthsCovered'
  <2>1. ASSUME NEW m \in Months, monthly[m] # None
        PROVE  monthly[m] <= BookedIn(m)'
    <3>1. monthly[m] <= BookedIn(m) /\ BookedIn(m) \in Nat
      BY <1>2, <2>1 DEF MonthInv, MonthsCovered
    <3>2. monthly[m] \in Nat
      BY <2>1, TrafficBound DEF RunTypes
    <3> QED
      BY <1>0, <1>1, <3>1, <3>2
  <2> QED
    BY <1>0, <2>1 DEF MonthsCovered
<1>5. SettledRight'
  <2>1. \A m \in settled' : BookedIn(m)' = BookedIn(m) /\ m \in settled
    BY <1>0, <1>1, <1>2
  <2> QED
    BY <1>0, <2>1 DEF MonthInv, SettledRight
<1> QED
  BY <1>3, <1>4, <1>5 DEF MonthInv

(* A month's row becomes what was booked in it, if the sum is fresh.       *)
LEMMA MonthSaveMonth ==
    ASSUME RowInv, RunTypes, MonthInv, NEW r \in Runs, SaveMonth(r)
    PROVE  MonthInv'
<1> DEFINE w == sum[r].month
           t == sum[r].total
<1>0. /\ UNCHANGED <<today, moved, booked>> /\ step[r] = "month" /\ w \in Months
      /\ monthly' = [monthly EXCEPT ![w] = t]
      /\ settled' = IF r \in fresh THEN settled \cup {w} ELSE settled \ {w}
      /\ fresh' = fresh \ {r} /\ monthly \in [Months -> Traffic \cup {None}]
      /\ settled \subseteq Months
  BY DEF SaveMonth, clockVars, dayVars, RunTypes, MonthSum
<1>1. \A m : BookedIn(m)' = BookedIn(m) /\ BookedIn(m) \in Nat
  BY <1>0, SameBooked, BookedInType
<1>2. /\ t <= BookedIn(w)
      /\ r \in fresh /\ w \notin moved => t = BookedIn(w)
  BY <1>0 DEF MonthInv, SumRight
<1>3. \A q \in Runs : step'[q] = "month" =>
         step[q] = "month" /\ sum'[q] = sum[q] /\ q # r
  <2>1. AfterMonth(r) \in Steps \ {"month"} /\ GoTo(r, AfterMonth(r))
    BY DEF SaveMonth, AfterMonth, Steps
  <2>2. \A q \in Runs : step'[q] = IF q = r THEN AfterMonth(r) ELSE step[q]
    BY <2>1, GoToType DEF RowInv
  <2>3. \A q \in Runs \ {r} : sum'[q] = sum[q]
    BY <1>0, <2>1, GoToLocals DEF RowInv
  <2> QED
    BY <2>1, <2>2, <2>3
<1>4. monthly'[w] = t /\ \A m \in Months \ {w} : monthly'[m] = monthly[m]
  BY <1>0
<1>5. SumRight'
  <2>1. ASSUME NEW q \in Runs, step'[q] = "month"
        PROVE  /\ sum'[q].total <= BookedIn(sum'[q].month)
               /\ q \in fresh' /\ sum'[q].month \notin moved =>
                     sum'[q].total = BookedIn(sum'[q].month)
    BY <1>0, <1>3, <2>1 DEF MonthInv, SumRight
  <2>2. \A q : BookedIn(sum[q].month)' = BookedIn(sum'[q].month)
    BY <1>0 DEF BookedIn, DaysOf
  <2> QED
    BY <1>0, <2>1, <2>2 DEF SumRight
<1> HIDE DEF w, t
<1>6. MonthsCovered'
  <2>1. ASSUME NEW m \in Months, monthly'[m] # None
        PROVE  monthly'[m] <= BookedIn(m)
    BY <1>1, <1>2, <1>4, <2>1 DEF MonthInv, MonthsCovered
  <2> QED
    BY <1>0, <1>1, <2>1 DEF MonthsCovered
<1>7. SettledRight'
  <2>1. ASSUME NEW m \in settled', m \notin moved
        PROVE  \/ monthly'[m] = BookedIn(m)
               \/ /\ monthly'[m] = None
                  /\ \E q \in RetentionMonths : q > 0 /\ m <= MonthOf(today) - q
    <3>1. CASE m = w
      BY <1>0, <1>2, <1>4, <2>1, <3>1
    <3>2. CASE m # w
      <4>1. m \in settled /\ m \in Months
        BY <1>0, <2>1, <3>2
      <4> QED
        BY <1>4, <2>1, <3>2, <4>1 DEF MonthInv, SettledRight
    <3> QED
      BY <3>1, <3>2
  <2> QED
    BY <1>0, <1>1, <2>1 DEF SettledRight
<1> QED
  BY <1>5, <1>6, <1>7 DEF MonthInv

(* Only months older than a retention lose their row.                      *)
LEMMA MonthCleanMonths ==
    RowInv /\ RunTypes /\ MonthInv /\ CleanMonths => MonthInv'
<1> SUFFICES ASSUME RowInv, RunTypes, MonthInv, CleanMonths
             PROVE  MonthInv'
  OBVIOUS
<1>0. UNCHANGED <<today, moved, booked, settled, fresh>>
  BY DEF CleanMonths, clockVars, dayVars
<1>1. \A m : BookedIn(m)' = BookedIn(m)
  BY <1>0, SameBooked
<1>2. PICK r \in RetentionMonths :
         monthly' = [m \in Months |->
                        IF m \in ExpiredMonths(r) THEN None ELSE monthly[m]]
  BY DEF CleanMonths
<1>3. ASSUME NEW m \in ExpiredMonths(r)
      PROVE  r > 0 /\ m <= MonthOf(today) - r
  <2> DEFINE a == MonthOf(cleanDay)
             c == CutoffMonth(a, r)
  <2>1. /\ m \in Months /\ r > 0 /\ a - r \in Months /\ m < c
    BY DEF ExpiredMonths
  <2>2. /\ cleanDay \in Days /\ cleanDay \in Nat /\ today \in Nat /\ cleanDay <= today
        /\ m \in Nat /\ r \in Nat \ {0}
    BY <2>1, LedgerConstants, LedgerAssumption, Around DEF RunTypes, RowInv
  <2>3. c \in Nat /\ c <= a - r + 1
    BY <2>1, <2>2, CutoffBound
  <2>4. a <= MonthOf(today) /\ a \in Nat /\ MonthOf(today) \in Nat
    BY <2>2, MonthOfMonotone, MonthOfDay
  <2> HIDE DEF a, c
  <2> QED
    BY <2>1, <2>2, <2>3, <2>4
<1>4. \A m \in Months :
         \/ monthly'[m] = monthly[m]
         \/ monthly'[m] = None /\ m \in ExpiredMonths(r)
  BY <1>2
<1>5. \A q \in Runs : step'[q] = "month" =>
         step[q] = "month" /\ sum'[q] = sum[q]
  <2>1. "idle" \in Steps /\ "hourly" \in Runs /\ GoTo("hourly", "idle")
    BY DEF CleanMonths, Steps, Runs
  <2>2. \A q \in Runs : step'[q] = IF q = "hourly" THEN "idle" ELSE step[q]
    BY <2>1, GoToType DEF RowInv
  <2>3. \A q \in Runs \ {"hourly"} : sum'[q] = sum[q]
    BY <1>0, <2>1, GoToLocals DEF RowInv
  <2> QED
    BY <2>2, <2>3
<1>6. SumRight'
  <2>1. ASSUME NEW q \in Runs, step'[q] = "month"
        PROVE  /\ sum'[q].total <= BookedIn(sum'[q].month)
               /\ q \in fresh' /\ sum'[q].month \notin moved =>
                     sum'[q].total = BookedIn(sum'[q].month)
    BY <1>0, <1>5, <2>1 DEF MonthInv, SumRight
  <2>2. \A q : BookedIn(sum[q].month)' = BookedIn(sum'[q].month)
    BY <1>0 DEF BookedIn, DaysOf
  <2> QED
    BY <1>0, <2>1, <2>2 DEF SumRight
<1>7. MonthsCovered'
  BY <1>0, <1>1, <1>4 DEF MonthInv, MonthsCovered
<1>8. SettledRight'
  <2>1. ASSUME NEW m \in settled, m \notin moved
        PROVE  \/ monthly'[m] = BookedIn(m)
               \/ /\ monthly'[m] = None
                  /\ \E q \in RetentionMonths : q > 0 /\ m <= MonthOf(today) - q
    <3>1. m \in Months
      BY DEF RunTypes
    <3> QED
      BY <1>3, <1>4, <2>1, <3>1 DEF MonthInv, SettledRight
  <2> QED
    BY <1>0, <1>1, <2>1 DEF SettledRight
<1> QED
  BY <1>6, <1>7, <1>8 DEF MonthInv

(* MonthInv is inductive.                                                  *)
LEMMA MonthStep ==
    RowInv /\ BalanceInv /\ RunTypes /\ DayInv /\ MonthInv /\ [Next]_vars => MonthInv'
<1> SUFFICES ASSUME RowInv, BalanceInv, RunTypes, DayInv, MonthInv, [Next]_vars
             PROVE  MonthInv'
  OBVIOUS
<1>0. /\ today \in Nat /\ today + 1 \in Nat
      /\ MonthOf(today) \in Nat /\ MonthOf(today + 1) \in Nat
      /\ MonthOf(today) <= MonthOf(today + 1) /\ settled \subseteq Nat
      /\ RowTypes /\ step \in [Runs -> Steps]
  <2>1. today \in Nat /\ today + 1 \in Nat /\ today <= today + 1
    BY Around DEF RowInv
  <2> QED
    BY <2>1, MonthOfDay, MonthOfMonotone, LedgerConstants DEF RunTypes, RowInv, RowTypes
<1>a. ASSUME UNCHANGED <<booked, monthly, settled>>, moved \subseteq moved',
             today' \in {today, today + 1},
             \A r \in Runs : step'[r] = "month" =>
                /\ step[r] = "month" /\ sum'[r] = sum[r]
                /\ r \in fresh' => r \in fresh
      PROVE  MonthInv'
  <2>1. MonthOf(today) <= MonthOf(today') /\ MonthOf(today') \in Nat
    BY <1>0, <1>a
  <2> QED
    BY <1>0, <1>a, <2>1, MonthStays
<1>b. /\ {"idle", "save", "sum", "month", "cleanDays", "cleanMonths", "done"} = Steps
      /\ Runs = {"hourly", "flush"}
  BY DEF Steps, Runs
<1>c. ASSUME UNCHANGED <<clockVars, dayVars, monthVars>>, fresh' \subseteq fresh,
             NEW r \in Runs, NEW next \in Steps \ {"month"}, GoTo(r, next)
      PROVE  MonthInv'
  <2>1. \A q \in Runs : step'[q] = IF q = r THEN next ELSE step[q]
    BY <1>0, <1>c, GoToType
  <2>2. \A q \in Runs \ {r} : sum'[q] = sum[q]
    BY <1>0, <1>c, GoToLocals DEF clockVars
  <2> QED
    BY <1>a, <1>c, <2>1, <2>2 DEF clockVars, dayVars, monthVars
<1>1. ASSUME NEW r \in Runs, SumMonth(r) \/ SaveHourly(r) \/ SaveMonth(r)
      PROVE  MonthInv'
  BY <1>1, MonthSumMonth, MonthSave, MonthSaveMonth
<1>2. CASE Tick \/ ChangeZone
  BY <1>2, <1>a DEF Tick, ChangeZone, dayVars, monthVars, localVars
<1>3. CASE Count \/ UNCHANGED vars
  BY <1>3, <1>a DEF Count, vars, clockVars, dayVars, monthVars, localVars
<1>4. ASSUME NEW r \in Runs, Take(r) PROVE MonthInv'
  <2>1. /\ UNCHANGED <<clockVars, dayVars, monthVars, sum, fresh>>
        /\ \A q \in Runs : step'[q] = IF q = r THEN "save" ELSE step[q]
    BY <1>0, <1>4 DEF Take
  <2> QED
    BY <1>a, <2>1 DEF clockVars, dayVars, monthVars
<1>5. ASSUME NEW r \in Runs, SaveHourlyFails(r) \/ MonthFails(r) PROVE MonthInv'
  <2>1. /\ UNCHANGED <<clockVars, dayVars, monthVars>> /\ fresh' \subseteq fresh
        /\ \E next \in Steps \ {"month"} : GoTo(r, next)
    BY <1>b, <1>5 DEF SaveHourlyFails, MonthFails, AfterMonth
  <2> QED
    BY <1>c, <2>1
<1>6. CASE CleanFails
  BY <1>b, <1>c, <1>6 DEF CleanFails
<1>7. CASE CleanMonths
  BY <1>7, MonthCleanMonths
<1>8. CASE CleanDays
  <2>1. /\ UNCHANGED <<clockVars, booked, monthVars, sum, fresh>>
        /\ \A q \in Runs : step'[q] = IF q = "hourly" THEN "cleanMonths" ELSE step[q]
    BY <1>0, <1>8 DEF CleanDays
  <2> QED
    BY <1>a, <2>1 DEF clockVars, monthVars
<1>9. CASE Exit \/ Crash
  <2>1. UNCHANGED <<clockVars, dayVars, monthVars>> /\ \A q \in Runs : step'[q] = "idle"
    BY <1>9 DEF Exit, Crash, Restart
  <2> QED
    BY <1>a, <2>1 DEF clockVars, dayVars, monthVars
<1> QED
  BY <1>1, <1>2, <1>3, <1>4, <1>5, <1>6, <1>7, <1>8, <1>9 DEF Next

(* In every reachable state no sum under way and no row is ahead of what   *)
(* was booked, wherever the two runs are; a sum that no booking on its     *)
(* month has overtaken, and a row written with one, are all of it, and     *)
(* remain so when the month's days have been deleted.                      *)
THEOREM MonthInvariant == Spec => []MonthInv
  BY MonthInit, MonthStep, RowInvariant, BalanceInvariant, RunTypesInvariant,
     DayInvariant, PTL DEF Spec

(* No month's row exceeds what was booked on its days; the row of a month  *)
(* last written with a sum later than its last booking is the sum of all   *)
(* its days, deleted ones included, for as long as the retention keeps it. *)
THEOREM MonthsComplete == Spec => []MonthComplete
<1>1. MonthInv => MonthComplete
  BY DEF MonthInv, MonthsCovered, SettledRight, MonthComplete
<1> QED
  BY <1>1, MonthInvariant, PTL

(* Without a flush a row is only replaced by one that is no smaller.       *)
LEMMA MonthGrows ==
    RowInv /\ RunTypes /\ MonthInv /\ [Next]_vars =>
        [\A m \in Months \ moved :
            /\ monthly[m] # None /\ monthly'[m] # None
            /\ step["flush"] = "idle"
            => monthly'[m] >= monthly[m]]_vars
<1> SUFFICES ASSUME RowInv, RunTypes, MonthInv, [Next]_vars,
                    NEW m \in Months \ moved, monthly[m] # None, monthly'[m] # None,
                    step["flush"] = "idle"
             PROVE  monthly'[m] >= monthly[m]
  OBVIOUS
<1>1. monthly[m] \in Nat /\ monthly[m] <= BookedIn(m) /\ BookedIn(m) \in Nat
  BY TrafficBound, BookedInType DEF RunTypes, MonthInv, MonthsCovered
<1>2. ASSUME NEW r \in Runs, SaveMonth(r) PROVE monthly'[m] >= monthly[m]
  <2>1. /\ monthly' = [monthly EXCEPT ![sum[r].month] = sum[r].total]
        /\ step[r] = "month" /\ monthly \in [Months -> Traffic \cup {None}]
    BY <1>2 DEF SaveMonth, RunTypes
  <2>2. r \in fresh
    BY <2>1 DEF Runs, RunTypes
  <2>3. CASE m = sum[r].month
    <3>1. monthly'[m] = BookedIn(m)
      BY <2>1, <2>2, <2>3 DEF MonthInv, SumRight
    <3> QED
      BY <1>1, <3>1
  <2>4. CASE m # sum[r].month
    BY <1>1, <2>1, <2>4
  <2> QED
    BY <2>3, <2>4
<1>3. CASE CleanMonths
  <2>1. monthly'[m] \in {monthly[m], None}
    BY <1>3 DEF CleanMonths
  <2> QED
    BY <1>1, <2>1
<1>4. CASE (\A r \in Runs : ~SaveMonth(r)) /\ ~CleanMonths
  <2>1. monthly' = monthly
    BY <1>4
    DEF Next, Count, Tick, ChangeZone, Take, SaveHourly, SaveHourlyFails, SumMonth,
        MonthFails, CleanDays, CleanFails, Exit, Crash, vars, monthVars
  <2> QED
    BY <1>1, <2>1
<1> QED
  BY <1>2, <1>3, <1>4

(* The total of a month does not shrink when its days are deleted, nor     *)
(* over failed statements, crashes and restarts, but beside main's flush.  *)
THEOREM NeverShrinks == Spec => MonthNeverShrinks
  BY MonthGrows, RowInvariant, RunTypesInvariant, MonthInvariant, PTL
  DEF Spec, MonthNeverShrinks
=============================================================================
