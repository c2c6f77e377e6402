--------------------------- MODULE TrafficLedger ----------------------------
(***************************************************************************)
(* store/sqlite.go: the traffic by day and by month.  Once an hour         *)
(* runHourlyTasks takes the totals out of memory, adds them to the row of  *)
(* the day, overwrites the row of the month by the sum of its days and     *)
(* deletes the rows past their retention; main's flush does the first half *)
(* once when the process stops, while an hourly run may be anywhere: only  *)
(* DB.Close, after the flush, waits for it.                                *)
(*                                                                         *)
(* Every statement reads the clock anew, so midnight can fall between any  *)
(* two; the zone is read once per run.  Upload, download and their LAN and *)
(* WAN parts go through the same statements: traffic is one number.        *)
(***************************************************************************)
EXTENDS Integers, FiniteSets, Functions

CONSTANTS
    LastDay,         \* bound on the clock, in days of the first zone
    FirstDayOf,      \* FirstDayOf[m]: the first day of month m
    RetentionDays,   \* values of alert.retention_days; 0 is for ever
    RetentionMonths, \* values of alert.monthly_retention_months; 0 likewise
    MaxTraffic,      \* bound on the units of traffic observed
    MaxChanges,      \* bound on the changes of server.timezone
    None             \* no row

Days == 0..LastDay
Months == DOMAIN FirstDayOf

ASSUME LedgerAssumption ==
    /\ LastDay \in Nat \ {0} /\ MaxTraffic \in Nat /\ MaxChanges \in Nat
    /\ Months \subseteq Nat /\ FirstDayOf \in [Months -> Days]
    /\ \E m \in Months : FirstDayOf[m] = 0
    /\ \A m, n \in Months : m < n => FirstDayOf[m] < FirstDayOf[n]
    /\ \A m, n \in Months : m..n \subseteq Months
    /\ RetentionDays \subseteq Nat /\ RetentionMonths \subseteq Nat
    /\ None \notin Nat

VARIABLES
    today,     \* the clock's day in the zone furthest ahead
    zone,      \* the configured zone: 0, or 1 where it is still the day before
    step,      \* where each run is: "idle", its next statement, or "done"
    passed,    \* passed[r]: midnight has passed since r began
    loc,       \* loc[r]: the zone r has read
    taken,     \* taken[r]: the totals r has taken and not yet saved
    sum,       \* sum[r]: the month r has summed, and its sum
    cleanDay,  \* the day on which the hourly run began to delete
    live,      \* the totals in memory
    daily,     \* daily_network: the row of each day
    monthly,   \* monthly_network: the row of each month
    observed,  \* history: all the traffic counted
    lost,      \* history: the traffic lost in a crash or a failed statement
    booked,    \* history: what has been added to the row of each day
    fresh,     \* history: runs whose sum is later than the last booking on
               \* the month they have summed
    settled,   \* history: months whose row was last written with such a sum
    moved,     \* history: months during which the zone was changed
    changes    \* history: how often

clockVars == <<today, zone, moved, changes>>
localVars == <<passed, loc, sum, cleanDay>>
memVars == <<live, taken, observed, lost>>
dayVars == <<daily, booked>>
monthVars == <<monthly, settled>>
vars == <<clockVars, step, localVars, memVars, dayVars, fresh, monthVars>>

Runs == {"hourly", "flush"}

MonthOf(d) ==
    CHOOSE m \in Months :
        /\ FirstDayOf[m] <= d
        /\ \A n \in Months : FirstDayOf[n] <= d => n <= m

(* No month has more days than any two in a row.                           *)
ASSUME CalendarAssumption ==
    \A d \in Days, m \in Months : m + 2 \in Months =>
        d - FirstDayOf[MonthOf(d)] < FirstDayOf[m + 2] - FirstDayOf[m]

LocalDay(z) == today - z
RunDay(r) == LocalDay(loc[r])
RunMonth(r) == MonthOf(RunDay(r))

Rows == {d \in Days : daily[d] # None}
DaysOf(m) == {d \in Days : MonthOf(d) = m}

NoSum == [month |-> 0, total |-> 0]

Init ==
    /\ today = 1 /\ zone \in {0, 1} /\ moved = {} /\ changes = 0
    /\ step = [r \in Runs |-> "idle"] /\ passed = [r \in Runs |-> FALSE]
    /\ loc = [r \in Runs |-> 0] /\ sum = [r \in Runs |-> NoSum]
    /\ taken = [r \in Runs |-> 0] /\ cleanDay = 0 /\ fresh = {}
    /\ live = 0 /\ observed = 0 /\ lost = 0
    /\ daily = [d \in Days |-> None] /\ booked = [d \in Days |-> None]
    /\ monthly = [m \in Months |-> None] /\ settled = {}

-----------------------------------------------------------------------------
(* The collector, which main stops before the flush, counts traffic.       *)
Count ==
    /\ step["flush"] = "idle" /\ observed < MaxTraffic
    /\ live' = live + 1 /\ observed' = observed + 1
    /\ UNCHANGED <<clockVars, step, localVars, taken, lost, dayVars, fresh,
                   monthVars>>

Active(r) == step[r] \notin {"idle", "done"}

(* Midnight.  A run takes seconds: it meets at most one.                   *)
Tick ==
    /\ today < LastDay
    /\ \A r \in Runs : ~passed[r]
    /\ passed' = [r \in Runs |-> Active(r)]
    /\ today' = today + 1
    /\ UNCHANGED <<zone, moved, changes, step, loc, sum, cleanDay, memVars, dayVars,
                   fresh, monthVars>>

(* A new server.timezone, from PUT /api/config or before a restart.        *)
ChangeZone ==
    /\ changes < MaxChanges /\ changes' = changes + 1
    /\ zone' = 1 - zone
    /\ moved' = moved \cup {MonthOf(LocalDay(0)), MonthOf(LocalDay(1))}
    /\ UNCHANGED <<today, step, localVars, memVars, dayVars, fresh, monthVars>>

-----------------------------------------------------------------------------
(* Faulty variant: the totals are read and stay. *)
KeepTotals == live' = live
ResetTotals == live' = 0

(* A run goes on, or ends and forgets what it had read.                    *)
GoTo(r, next) ==
    /\ step' = [step EXCEPT ![r] = next]
    /\ IF next \in {"idle", "done"}
       THEN /\ passed' = [passed EXCEPT ![r] = FALSE]
            /\ loc' = [loc EXCEPT ![r] = 0]
            /\ sum' = [sum EXCEPT ![r] = NoSum]
            /\ cleanDay' = IF r = "hourly" THEN 0 ELSE cleanDay
       ELSE UNCHANGED localVars

(* What comes after the month's row, written or not: the hourly run goes   *)
(* on to delete, the flush is done.                                        *)
AfterMonth(r) == IF r = "flush" THEN "done" ELSE "cleanDays"

(* GetHourlyTotalsAndReset, of the hourly task or of main's flush.  After  *)
(* a listener error the hourly task goes on beside and after the flush.    *)
Take(r) ==
    /\ step[r] = "idle"
    /\ step' = [step EXCEPT ![r] = "save"]
    /\ loc' = [loc EXCEPT ![r] = zone]
    /\ taken' = [taken EXCEPT ![r] = live] /\ ResetTotals
    /\ UNCHANGED <<clockVars, passed, sum, cleanDay, observed, lost, dayVars,
                   fresh, monthVars>>

(* Faulty variant: the day's row is overwritten. *)
Overwritten(row, amount) == amount
(* ON CONFLICT(date) DO UPDATE SET upload = daily.upload + excluded.upload *)
Upserted(row, amount) == IF row = None THEN amount ELSE row + amount

(* Any sum of this month that was read before is out of date from here on. *)
SaveHourly(r) ==
    /\ step[r] = "save" /\ GoTo(r, "sum")
    /\ daily' = [daily EXCEPT ![RunDay(r)] = Upserted(@, taken[r])]
    /\ booked' = [booked EXCEPT
                    ![RunDay(r)] = (IF @ = None THEN 0 ELSE @) + taken[r]]
    /\ fresh' = {q \in fresh : sum[q].month # RunMonth(r)}
    /\ settled' = settled \ {RunMonth(r)}
    /\ taken' = [taken EXCEPT ![r] = 0]
    /\ UNCHANGED <<clockVars, live, observed, lost, monthly>>

(* When it fails the error is logged and the totals are gone; the hourly   *)
(* task goes on, the flush returns.                                        *)
SaveHourlyFails(r) ==
    /\ step[r] = "save" /\ GoTo(r, IF r = "flush" THEN "done" ELSE "sum")
    /\ lost' = lost + taken[r] /\ taken' = [taken EXCEPT ![r] = 0]
    /\ UNCHANGED <<clockVars, live, observed, dayVars, fresh, monthVars>>

(* Faulty variant: today's row is not in the sum. *)
SummedBefore(r) == {d \in Rows : d >= FirstDayOf[RunMonth(r)] /\ d < RunDay(r)}
(* WHERE date >= startDate AND date <= endDate                             *)
Summed(r) == {d \in Rows : d >= FirstDayOf[RunMonth(r)] /\ d <= RunDay(r)}

(* The SELECT of SaveMonthlyNetwork; its INSERT is a statement of its own. *)
SumMonth(r) ==
    /\ step[r] = "sum" /\ step' = [step EXCEPT ![r] = "month"]
    /\ sum' = [sum EXCEPT
                 ![r] = [month |-> RunMonth(r),
                         total |-> SumFunctionOnSet(daily, Summed(r))]]
    /\ fresh' = fresh \cup {r}
    /\ UNCHANGED <<clockVars, passed, loc, cleanDay, memVars, dayVars,
                   monthVars>>

(* yearMonth was taken with the sum: the row is that of the summed month,  *)
(* and an older sum overwrites a newer one.                                *)
SaveMonth(r) ==
    /\ step[r] = "month" /\ GoTo(r, AfterMonth(r))
    /\ monthly' = [monthly EXCEPT ![sum[r].month] = sum[r].total]
    /\ settled' = IF r \in fresh THEN settled \cup {sum[r].month}
                  ELSE settled \ {sum[r].month}
    /\ fresh' = fresh \ {r}
    /\ UNCHANGED <<clockVars, memVars, dayVars>>

MonthFails(r) ==
    /\ step[r] \in {"sum", "month"} /\ GoTo(r, AfterMonth(r))
    /\ fresh' = fresh \ {r}
    /\ UNCHANGED <<clockVars, memVars, dayVars, monthVars>>

-----------------------------------------------------------------------------
(* The month and the day on which the hourly run deletes.                  *)
Today == RunDay("hourly")
ThisMonth == RunMonth("hourly")

(* Faulty variant: the running month's days are deleted too. *)
ExpiredAny(r) == {d \in Rows : r > 0 /\ d < Today - r}
(* Faulty variant: off by one. *)
ExpiredEarly(r) ==
    {d \in Rows : r > 0 /\ d <= Today - r /\ d < FirstDayOf[ThisMonth]}
(* WHERE date < cutoff AND date < monthStart                               *)
ExpiredDays(r) ==
    {d \in Rows : r > 0 /\ d < Today - r /\ d < FirstDayOf[ThisMonth]}

CleanDays ==
    /\ step["hourly"] = "cleanDays"
    /\ step' = [step EXCEPT !["hourly"] = "cleanMonths"]
    /\ cleanDay' = Today
    /\ \E r \in RetentionDays :
          daily' = [d \in Days |->
                       IF d \in ExpiredDays(r) THEN None ELSE daily[d]]
    /\ UNCHANGED <<clockVars, passed, loc, sum, memVars, booked, fresh,
                   monthVars>>

(* CleanOldData: an error in the first DELETE leaves out the second.       *)
CleanFails ==
    /\ step["hourly"] \in {"cleanDays", "cleanMonths"} /\ GoTo("hourly", "idle")
    /\ UNCHANGED <<clockVars, memVars, dayVars, fresh, monthVars>>

(* AddDate(0, -r, 0) keeps the day of the month: what overflows the month  *)
(* before (February 31st) falls into the next.                             *)
CutoffMonth(month, r) ==
    MonthOf(FirstDayOf[month - r] + (cleanDay - FirstDayOf[month]))

(* WHERE year_month < cutoff; `now' was read before both statements.       *)
ExpiredMonths(r) ==
    LET month == MonthOf(cleanDay)
    IN {m \in Months :
           r > 0 /\ month - r \in Months /\ m < CutoffMonth(month, r)}

CleanMonths ==
    /\ step["hourly"] = "cleanMonths" /\ GoTo("hourly", "idle")
    /\ \E r \in RetentionMonths :
          monthly' = [m \in Months |->
                         IF m \in ExpiredMonths(r) THEN None ELSE monthly[m]]
    /\ UNCHANGED <<clockVars, memVars, dayVars, fresh, settled>>

-----------------------------------------------------------------------------
(* The process ends with all it has in memory; NewDB opens the same file   *)
(* at some later time.  A process that is down is like one that idles.     *)
Restart ==
    /\ live' = 0
    /\ step' = [r \in Runs |-> "idle"] /\ passed' = [r \in Runs |-> FALSE]
    /\ loc' = [r \in Runs |-> 0] /\ sum' = [r \in Runs |-> NoSum]
    /\ taken' = [r \in Runs |-> 0] /\ cleanDay' = 0 /\ fresh' = {}

(* DB.Close has waited for the hourly run and main returns.                *)
Exit ==
    /\ step["flush"] = "done" /\ step["hourly"] = "idle"
    /\ Restart
    /\ UNCHANGED <<clockVars, observed, lost, dayVars, monthVars>>

(* A crash loses what is in memory; the rows stay.                         *)
Crash ==
    /\ Restart
    /\ lost' = lost + live + taken["hourly"] + taken["flush"]
    /\ UNCHANGED <<clockVars, observed, dayVars, monthVars>>

Next ==
    \/ Count \/ Tick \/ ChangeZone
    \/ \E r \in Runs :
          \/ Take(r) \/ SaveHourly(r) \/ SaveHourlyFails(r)
          \/ SumMonth(r) \/ SaveMonth(r) \/ MonthFails(r)
    \/ CleanDays \/ CleanMonths \/ CleanFails
    \/ Exit \/ Crash

Spec == Init /\ [][Next]_vars
-----------------------------------------------------------------------------
BookedIn(m) == SumFunctionOnSet(booked, {d \in DaysOf(m) : booked[d] # None})
BookedTotal == SumFunctionOnSet(booked, {d \in Days : booked[d] # None})

Steps == {"idle", "save", "sum", "month", "cleanDays", "cleanMonths", "done"}

TypeOK ==
    /\ today \in Days \ {0} /\ zone \in {0, 1} /\ moved \subseteq Months
    /\ changes \in 0..MaxChanges
    /\ step \in [Runs -> Steps]
    /\ passed \in [Runs -> BOOLEAN] /\ loc \in [Runs -> {0, 1}]
    /\ cleanDay \in Days
    /\ {live, observed, lost} \subseteq 0..MaxTraffic
    /\ taken \in [Runs -> 0..MaxTraffic]
    /\ sum \in [Runs -> [month : Months, total : 0..MaxTraffic] \cup {NoSum}]
    /\ daily \in [Days -> 0..MaxTraffic \cup {None}]
    /\ booked \in [Days -> 0..MaxTraffic \cup {None}]
    /\ monthly \in [Months -> 0..MaxTraffic \cup {None}]
    /\ fresh \subseteq Runs /\ settled \subseteq Months

(* No traffic is counted twice or dropped, but for what a crash or a       *)
(* failed statement takes with it (an orderly end takes nothing), and the  *)
(* row of a day holds all that was saved on it, over hourly runs, flushes  *)
(* beside them, restarts and changes of zone.                              *)
Balanced ==
    /\ observed = live + taken["hourly"] + taken["flush"] + lost + BookedTotal
    /\ \A d \in Days : daily[d] \in {None, booked[d]}

(* CleanOldData keeps the days within the shortest retention ever set, and *)
(* "the current month's rows".                                             *)
RecentDaysKept ==
    \A d \in Days :
        \/ daily[d] = booked[d]
        \/ /\ MonthOf(d) < MonthOf(today)
           /\ \E r \in RetentionDays : r > 0 /\ d < today - r

(* The row of a month never holds more than was booked on its days.  If it *)
(* was last written with a sum later than the last booking, it holds all   *)
(* of it, deleted days included, for as long as the retention keeps it.    *)
(* Not so where the zone was changed (the day goes back), nor where one of *)
(* two overlapping runs wrote an older sum over the other's: until a later *)
(* run sums that month, its row lacks what the other had booked.           *)
MonthComplete ==
    /\ \A m \in Months : monthly[m] # None => monthly[m] <= BookedIn(m)
    /\ \A m \in settled \ moved :
          \/ monthly[m] = BookedIn(m)
          \/ /\ monthly[m] = None
             /\ \E r \in RetentionMonths : r > 0 /\ m <= MonthOf(today) - r

(* Deleting days "would permanently shrink the monthly total when          *)
(* retention_days is shorter than the elapsed days of the month": it does  *)
(* not.  In a month without a change of zone a row shrinks only beside or  *)
(* after main's flush, when the hourly run writes the sum it had read      *)
(* before the flush was booked, or the flush that of before the run.       *)
MonthNeverShrinks ==
    [][\A m \in Months \ moved :
          /\ monthly[m] # None /\ monthly'[m] # None
          /\ step["flush"] = "idle"
          => monthly'[m] >= monthly[m]]_vars
=============================================================================
