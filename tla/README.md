# Verification of go-monitor

go-monitor is one Go process: it samples the machine it runs on, shows the
samples on a web page, mails alerts, and keeps the network traffic by hour, day
and month in a SQLite file.  This directory holds TLA+ specifications of its
stateful parts, the TLC instances that check them, and proofs for TLAPS of the
results that hold for every instance.  Paths below are relative to `src/`.

Check an instance with `tlc -config MCShutdown_shutdown.cfg MCShutdown`, a proof
module with `tlapm ShutdownProofs.tla`.

## 1. The system

| Component | State | Operations | Talks to |
|---|---|---|---|
| alert decisions (`alerter/alerter.go`: `CheckWithConfig`, `shouldFire`, `send`) | `conditionStartTimes`, `lastSent`, `closed` | one check per sample; pruning of both tables at `stateTTL` | called by the collector; fills the mail queue |
| alert delivery (`alerter/alerter.go`: `worker`, `handleJob`, `sendMailWithTimeout`, `Close`) | channel `jobs`, `stopCh`, the workers | enqueue, take, record, mail, drain, close with a timeout | history store (`onAlert`, if there is one), the mail server |
| configuration (`config/config.go`, `PUT`/`GET /api/config` in `server/server.go`) | the data under `mu`, the file, `saveMu`; the JSON cache and its generation | `Load`, `Reload`, `MaskSensitive`, `invalidateConfigJSON` | collector (`UpdateSnapshot`, `NotifyIntervalChanged`), LAN/WAN classifier |
| collector loop (`collector/collector.go`) | settings snapshot, `reloadCh`, ticker, last sample, hourly metric sums | start, collect, stop, new interval | counters, alerter, the sample store of the web page |
| network counters and LAN/WAN classifier (`collector/network.go`, `collector/nftables_netlink_linux.go`) | last counters by interface, traffic totals, LAN/WAN totals and their baselines | collect, read and reset the totals, switch the classifier | the kernel's counters |
| disk I/O, CPU, TCP counters | last counters | collect | `/proc` |
| gauges (memory, temperature, processes, uptime) | none | read | `/proc`, `/sys` |
| history store (`store/sqlite.go`) | tables `daily_network`, `monthly_network`, `daily_metrics`, `alert_history`, `auth_sessions`; `hourlyWg` | the hourly task, the flush at shutdown, retention, session rows, queries | collector totals, configuration |
| sessions and login limiter (`server/server.go`) | session map, limiter map, rows in `auth_sessions` | login, logout, authentication, eviction, clean-up, restore | history store |
| update check (`server/update.go`, `version/version.go`) | cached answer, lock | check, cached read | GitHub |
| start and stop (`main.go`) | the order of the tear-down | start everything; on a signal or listener error stop everything | all of the above |
| HTTP routing, pages (`server/router.go`, `server/template.go`) | none | route | server |

What makes the code hard is that these share state from several goroutines.
A PUT handler touches the configuration, the collector, the cache and the
classifier one after the other, without one lock around them; handlers of other
requests do the same at the same time.  The alert pool and the hourly task use
the database while `main` is about to close it.  Two tables forget what is older
than a day while windows and intervals that depend on them may be longer.  The
hourly task zeroes the totals before it has saved them, and midnight, a failing
statement or a crash may come between any two of its statements.  The kernel's
counters restart, wrap and disappear under a collector that reads them without a
lock.  The session map and its table are changed one after the other.  The list of
such places, with their lines, is under `hazards` in `PROJECT.json`.

What each part has to guarantee:

- decisions: an alert fires exactly when its condition has held for the
  configured time; a mail about the same condition stays out for the interval.
- delivery: an accepted mail is handled once and offered to the history; closing
  drains the queue, ends in bounded time, and leaks no worker.
- configuration: clients see one durable register; file and memory agree; no
  stale JSON stays in the cache; the collector ends up with the final settings.
- history store: no traffic is booked twice or dropped silently; retention
  deletes nothing that is needed again.
- counters: no byte is counted twice, none is lost but with a counter that
  restarts, and a rate is about the time between two rounds.
- metrics: every sample weighs the same in the average of its day.
- sessions: a logout is final, a remembered session survives a restart, neither
  map nor table grows without bound.
- stop: nothing counted is lost, nobody uses a closed database, and it ends.

## 2. The modules

`AlertThrottle` and `ConfigRegister` are abstract specifications; `AlertPolicy`
and `ConfigReload` implement them.  `Shutdown` composes the goroutines, each
reduced to the steps that touch shared state.  `...Proofs` modules extend the
modules they prove about, `SumLemmas` has what they need about sums, and `MC...`
modules give the constants values.  Two components have two specifications each
whose theorems are in one module: their names differ by a prefix (`DeliverySpec`,
`ClassSpec`).  `AlertService` declares the one variable both halves of the
alerter have, `closed`.  The definitions commented "Faulty variant" are not part
of a specification: they are plausible slips (a dropped guard, an off-by-one, a
missing reset) against which the properties have been tried, one variant for each
property (`mutants` in `PROJECT.json`).  Variables said to be history in a module's comments have no
counterpart in the code; no guard reads them.

### AlertPolicy (and AlertThrottle)

A step is one call of `CheckWithConfig` (only the collector goroutine calls it),
a new settings snapshot, or `Close`.  A sample says of each condition whether
its metric was collected and whether its threshold was reached: the thresholds
themselves are data.  `Evaluated`, `Pruned`, `WindowFull`, `ShouldFire`,
`WindowAfter`, `Admitted` and `SentAfter` are the pieces of `shouldFire`, `send`
and the two prune functions.  A condition in `Windowed` uses `shouldFire` with
`alert.duration`; the others use `shouldFireNow`.  A mail the pool cannot take
because its queue is full has its `lastSent` entry all the same, as in the code;
whether it is taken is `AlertDelivery`'s question.

`AlertThrottle` keeps, instead of a table of times, how long each subject has
been silent and the interval in force.  A mail is allowed after that interval, or
after a silence longer than `Memory`, the one exception; nothing is ever pruned.
The mapping is `interval <- cfg.interval`, `silence[c] <- min(now - lastMail[c],
StateTTL + 1)` and `Memory <- StateTTL`.  The configuration accepts any positive
interval, so those above `stateTTL` (24 h) are in the instance and in the theorem:
of them the code keeps `stateTTL` and no more (section 5).

### AlertDelivery

`Admit` and `Enqueue` are the two halves of `send`, apart because `sendMu` is
released in between; `Take`, `SeeStop`, `DrainEmpty`, `Notify`, `Connect`,
`Answer` and `Expire` are a worker's steps; `CloseMark`, `CloseStop`,
`CloseDone` and `CloseExpire` are `Close`.  `StopCollector` comes first because
`main` calls `col.Stop` before `al.Close`; `Admit` takes no new alert after it.
The mail server is the environment: it may accept the connection or not, answer
or not.  Time is a tick that cannot pass a deadline the code has set.

`Notify` is the callback `main` installs: `SaveAlert` may fail (`unsaved`), is not
called without a database (`unsaved` too), and fails on a closed one (`tooLate`).
`CloseDB` and `Exit` are what `main` does once `Close` has returned, whether the
pool has ended or `closeTimeout` has passed: the database is closed and the
process ends under workers that are still busy.  That `DB.Close` may wait first
for the hourly task is `Shutdown`'s part.

### ConfigReload (and ConfigRegister)

A configuration is the set of the updates in it together with the two fields
other components read, the refresh interval and `lan_wan_split`.  One program
counter per PUT walks through `Reload` (lock, clone and merge, reject or save,
swap, unlock) and the rest of `updateConfigHandler`; one per GET through
`getConfigHandler` and `maskedConfigJSON` (generation and cache under one lock,
marshal without it, store under it again).  The collector has the reload token
and the ticker.  `Crash` loses everything but the file and starts again from it.

`ConfigRegister` is a *regular* register.  It is not atomic, and the code is
not: while an update is unacknowledged, a GET that hits the cache can return the
older configuration after another GET has already returned the newer one.
That cannot happen once the update has been acknowledged.

### Shutdown

`main` goes through its tear-down; handlers, the session cleaner, the collector,
an alert worker and the hourly task go on with theirs until they are stopped.
`hasDB` is whether `NewDB` has succeeded.  Traffic is counted in units that move
from the totals to the row of the day.  Each statement of the hourly task and of
the flush is a step of its own, as `SaveMonthlyNetwork` reads and writes in two.
Statements succeed here; that they fail is `TrafficLedger`'s subject.

### TrafficLedger

The rows of `daily_network` and `monthly_network` over days, months, restarts
and changes of zone.  There are two runs: the hourly one (`runHourlyTasks`, again
and again) and `main`'s flush, once per process.  Each is the sequence `Take`,
`SaveHourly`, `SumMonth`, `SaveMonth`, and for the hourly run `CleanDays` and
`CleanMonths`, with a failing alternative at each statement that handles the error
as the code does: the hourly task goes on, the flush returns.

The two overlap freely.  `main` stops the collector before the flush (`Count` is
disabled from then on) but waits for the hourly task only in `DB.Close`, after it
(`Exit`); and after a listener error the task is not even told to stop, so it may
begin another run.  The month's row is summed and written in two statements, so
the older of two sums may be the one that stays.  The history variables `fresh`
(runs whose sum is later than the last booking on its month) and `settled` (months
last written with such a sum) tell the two cases apart.

Each statement reads the clock, `CleanOldData` once for its two.  Days are
numbers, a month is known by its first day, and the zone (read once per run)
decides whether the local day is the clock's or the one before.  A run meets at
most one midnight.  `CutoffMonth` is `AddDate(0, -n, 0)` with its overflow of the
day of the month.  `Exit` is an orderly end, `Crash` any other, which loses what is
in memory; both are followed by a start from the file.

### InterfaceTotals and ClassTotals

The two halves of `CollectNetwork`, apart because they share nothing: the first
works under `networkMu` on the interfaces, the second under `classifierMu` and
`lanWanMu` on the LAN/WAN counters, and `GetHourlyTotalsAndReset` takes their
totals under two locks one after the other (`TakeTotals` and `TakeClassTotals`).

In `InterfaceTotals` a round is `Parse` (the counters are read without a lock,
with a fresh list of cards, the list of an earlier scan, or none when the scan
fails) and `Fold` (everything up to `networkMu.Unlock`).  The environment is the
kernel: packets, cards that are unplugged and come back, counters that wrap,
cards that join a bond and leave it.  `timely` says whether the pause was within
the 600 s for which a rate is computed.  Two sets of history variables say what
the totals are compared with.  `passed` and `slaved` count the bytes that went
through the cards.  `unread`, `inHand` and `due` follow the bytes each interface
counts, independently of its counter's values: from the kernel into the hands of
the round that reads them, and from there into what is due from the program if
the interface had been seen before.  `dropped` is the part of a round that went
back, `erased` what a counter had come to when it restarted at zero.

In `ClassTotals` a round is `BeginRead` (the read lock and the choice of the
backend), `ReadCounters`, `ReadV4Only` (`ip6tables` has failed) or `ReadFails`,
and `FoldClasses`.  `EnableLanWanSplit` and `DisableLanWanSplit` come from PUT
handlers at any time that no round holds the lock.  `classDue`, `classDropped`
and `classErased` are as above; `over` is the IPv6 bytes that readings have left
out.  How the rules are installed, through `nft`, `iptables` or netlink, matters
only in that counters then start at zero.

### DailyMetrics

`Round` ends in `AccumulateMetrics`; `Take` is `GetHourlyMetricsAndReset`,
`SaveDailyMetrics` the upsert with its `CASE`s, `Clean` is `CleanOldMetrics`.  An
average is kept as the fraction that the code's floats approximate, so that the
merge can be checked exactly.  `legacy` is a row written before the sample
columns were added: the migration gives it zero samples.

### Sessions

The map, the rows of "remember me" sessions and everybody who changes one of
them and then the other: logins (`Insert`, then `SaveSession`), logouts and
visits (out of the map, then `DeleteSession`), the cleaner (`CleanMap`,
`CleanRow`, `Sweep`), the eviction that leaves the row, and `Start` after a
crash, which reads the rows back.  Every statement may fail.  A token is new at
each login; requests that come with no token or an unknown one change nothing.

## 3. The runs

| Run | Question | Result |
|---|---|---|
| `policy` | does an alert fire exactly at the end of its window, and do the mails implement the throttle with the interval in force, whatever settings and samples come? | holds |
| `delivery` | is every accepted mail handled once and, unless `Close` has given up, offered to the open database; does the pool drain and end? | holds |
| `delivery_abandon` | does `Close` wait long enough for the mail in flight? | no: dialling is outside the deadline |
| `config` | do concurrent PUTs and GETs and a crash behave as one durable register; do file, memory and cache agree; does the collector end up with the final settings and ticker period? | holds |
| `config_split` | does the LAN/WAN classifier end up as configured? | no: read and application of the setting are two steps |
| `shutdown` | is all traffic saved, does nobody else use the closed database, does the tear-down end? | holds |
| `shutdown_serve_error` | does it end after a listener error too? | no: with a database it waits for a signal |
| `ledger` | over midnight, failures, crashes, restarts, retention and a flush beside an hourly run: is traffic booked once, are recent days kept, are the months' rows whole unless a stale sum was written last? | holds |
| `interfaces` | do the totals never exceed the traffic and, with the dropped rounds, miss no more than what restarted counters had come to; are the rates those of the last pause? | holds |
| `classes` | likewise for the LAN and WAN totals while the classifier is switched; is it never torn down while it is read? | holds |
| `metrics` | is every sample in one place, and is a day's row that of its samples? | holds |
| `sessions` | are logouts final, do remembered sessions survive, do map and table stay bounded, over failures and restarts? | holds |

Each of the violations is a finding in `PROJECT.json`, with the comment or text
of the repository it contradicts.

### Bounds

- `AlertPolicy`: one windowed and one immediate condition, and a `stateTTL` of a
  few ticks, so that a table entry is made, outlives its time and is made again;
  windows lie below and at `stateTTL`, intervals below, at and above it, so that
  an interval other settings have would let a mail through that the one in force
  does not.  Conditions do not influence
  each other except through the pruning they share.  The clock stops at
  `MaxTime`, so the end of it is no deadlock (`CHECK_DEADLOCK FALSE`).
- `AlertDelivery`: two workers, a queue of two and three mails: the queue is
  full with both workers free or busy, and both drain at once.  A tick is ten
  seconds: dial 1, dialogue 3, close 4, for 10 s, 30 s and 35 s, so that one
  delivery can take as long as `Close` waits.  In `delivery_abandon`, whose
  question is that difference, it is five: 2, 6, 7.
- `ConfigReload`: two PUTs that touch different fields, two GETs and a crash for
  the register and the convergence: handlers can be overtaken in each of their
  steps, with the reload token pending or not.  Three PUTs, two of which set
  `lan_wan_split` in opposite directions, in `config_split`.
- `Shutdown`: one request, one worker, two units of traffic (one saved before
  the tear-down and one in flight), one alert.  The hourly task may run any
  number of times, also during the tear-down.
- `TrafficLedger`: months of one and of three days, so that midnight ends a month
  or not, a retention of one day is shorter than the days elapsed in the second
  month, and its last days have no counterpart in the first, where `AddDate`
  overflows.  Two units of traffic make overwriting and adding differ, and are one
  each for an hourly run and the flush beside it.  `server.timezone` changes once,
  at any time (`MaxChanges`); the process ends and starts any number of times.
- `InterfaceTotals`: a card and a bond, in either of which counters wrap or
  restart, both directions, three packets before, between and after two events
  that disturb the counters.  Counters start at one (`OldBytes`), so one that
  restarts can stay below its last value, reach it or grow past it before it is
  read again.  Interfaces meet only in that one that went back
  drops the round of all, which takes two.
- `ClassTotals`: two classes, as one that went back drops the round of all, five
  packets and three failures or switches: off, on, and a failed IPv6 reading.
- `DailyMetrics`: two metrics, of which one may be missing, two usages, so that
  an average differs from its peak, four rounds over up to four hours, three days
  and a retention of one day, so that a row expires.
- `Sessions`: two logins for a map of one, so that the second evicts the first;
  a plain session lasts one tick and a remembered one two of three; two failures
  and two crashes, so that a restored session is evicted, lost and restored again.
  When tokens and time are used up nothing more happens (`CHECK_DEADLOCK FALSE`).

### Fairness

Fairness is assumed only for what the Go scheduler and the clock owe.  A
goroutine that can run does (weak fairness); time passes (weak fairness of
the ticks), which is what makes a deadline expire.  A goroutine that selects on its
ticker and its stop channel may always find the ticker ready, but `select`
chooses among ready channels at random, so it takes the stop channel in the end:
strong fairness of the three exits in `Shutdown`.  The mail server owes no
answer, clients need not send a request, nobody has to send a signal, and a
crash or a failing statement need not happen.  In `ConfigReload` a PUT that has
begun runs to its end and the collector's loop goes on; a GET may hang.  In
`Sessions` the cleaner's ticker goes on firing and the service is started again
(`Restart=on-failure`); nobody has to log in, to visit or to log out.

## 4. What is proved

For every value of the constants that the named assumptions allow, every safety
property that a passing run checks, and both refinements.  Names in italics are
the inductive invariants; TLC has checked them on the instances too.

`AlertProofs` and `NetworkProofs` extend both specifications of their component
(`AlertPolicy` and `AlertDelivery`; `InterfaceTotals` and `ClassTotals`), but a
theorem is about one of them: `Spec` is that of the first and `DeliverySpec` or
`ClassSpec` that of the second.  The second is not assumed where the first is
proved, nor the other way round.

- `AlertProofs`, decisions.  `TypeCorrect`.  *`MailMemory`*, inductive with the
  type invariant: `lastSent[c]` is the last mail about `c`, or it is forgotten
  and that mail was longer than `StateTTL` ago.  It is needed because the
  throttle compares with the forgotten time.  From it `ThrottleRefinement`:
  `Spec => ThrottleSpec`, for intervals on either side of `StateTTL`: what
  `lastSent` has forgotten the abstract throttle sees as a silence of
  `StateTTL + 1`.  *`WindowMemory`*: an entry of
  `conditionStartTimes` is the start of the condition's run of met samples or,
  once that is older than `StateTTL`, something later in it.  From it
  `WindowSoundness` (never early) and `WindowCompleteness` (never late while
  the run is within `StateTTL`).
- `AlertProofs`, delivery.  *`DeliveryInv`* ties where each worker, the sender and
  `Close` are to where each mail is; the lemmas `TakeFirst` and `AppendNew` say
  what the channel's head and tail do to the set of its mails.  From it
  `DeliveryTypes`, `JobsNeverLost` and `CloseDrains`.  An empty pool would be
  drained by nobody: the module assumes at least one worker.  While workers drain,
  `main` is in `Close`, so none of them has found the database closed when it
  returns because they have ended.
- `ConfigReloadProofs`.  *`ConfigInv`* says what the holder of `saveMu` has in
  hand at each of its steps, that only it can make file and memory differ, and
  what a GET in progress has read: no less than was acknowledged when it
  started and, while its generation is current, fresh enough to be cached.  From it
  `FileCoherence`, `CacheCoherence` and `RegisterRefinement`.
- `ShutdownProofs`.  *`ShutdownInv`* is the balance of the traffic over the
  places it can be in, and what each wait of `main` has established.  From it
  `TypeCorrect`, `FlushComplete` and `NobodyElseLate`.
- `SumLemmas`.  The sums of the community modules are folds, defined by a
  recursive function on the subsets of a set.  That this function exists and is
  unique is shown by induction on the size of the subsets.  The library's
  induction theorems take an operator as a parameter; `NumberInduction` and
  `SetInduction` take a set instead and rest on the well-founded order of the
  numbers, which the prover can use.  From there: the order of the terms does not
  matter (`SumRemove`), changing one term changes the sum by the difference
  (`SumChange`), sums split, add and are monotone.
- `TrafficLedgerProofs`, in layers, each inductive given the ones before.
  *`RowInv`* adds to `RecentDaysKept` the types of days and rows; a deleted day
  is past the run's day, so nothing is booked on it again (`RecentDays`).
  *`BalanceInv`* is `Balanced` and that the task has something in hand only
  between the take and the save; `SaveAdds` says that a save adds what it has in
  hand to one day, its month and the whole, and to no other (`TrafficBalanced`).
  *`RunTypes`* bounds every row and sum by the traffic observed (`TypeCorrect`).
  *`DayInv`* is about where the clock, the configured zone and the zone of a run
  under way can be: deleted days are in months behind all of them, and nothing is
  booked ahead of them, but in months in which the zone changed.
  *`MonthInv`* follows: a sum under way is no more than what was booked in its
  month, and one in `fresh` is all of it (`SummedDays`), since a booking takes
  every sum of its month out of `fresh`, whichever run has it; a row in `settled`
  was written with such a sum and not booked on since.  Hence `MonthsComplete`;
  `NeverShrinks` adds that as long as the flush has not begun the hourly run's sum
  is always fresh.  Months are consecutive numbers here, since `AddDate` counts in
  them (`LedgerAssumption`), and no month has more days than any two in a row
  (`CalendarAssumption`), which bounds what the overflow of `AddDate(0, -n, 0)` can
  delete.
- `NetworkProofs`, interfaces.  *`IfaceTypes`* says what a round has in hand.
  `TotalsSound` is not inductive: a round adds bytes that passed before it.
  *`SoundInv`* leaves room for them: `Due` is what the round in progress will
  add for an interface, `Later` what the rounds after it may add of the bytes
  its counter shows already.  A reading moves bytes from `Later` to `Due`, a fold
  from `Due` to the totals, and what wraps or vanishes only makes them less; a
  card in a bond counts on two interfaces, which `slaved` pays for.
  *`CompleteInv`* says how much less a reading shows than the interface has
  counted: `ShortNow` for the reading in the round's hands, `ShortLater` for the
  next one.  Neither is negative; only a counter that restarts makes one grow, by
  no more than `erased` grows; a reading moves `ShortLater` into `ShortNow`, and a
  fold `ShortNow` into what is missing from the totals, or else drops the round.
  *`RateInv`* bounds the sum of `Due` by the bytes since the reading before, and
  that of `Later`, over the interfaces of the last round, by those since then.  From
  these `TotalsAreSound`, `TotalsAreComplete`, `RatesAreFresh` and
  `IfaceTypeCorrect`.
- `NetworkProofs`, classes.  *`ClassSoundInv`* leaves the same room: the positive
  steps from the last value over the reading to the counter.  From it
  `ClassSoundHolds`, over failed readings and restarts of the counters; with it
  `ClassTypeCorrect` and `ReadHeldHolds`.  *`ClassCompleteInv`* is *`CompleteInv`*
  for classes, with `over` on both sides, since a reading without IPv6 shows less
  than was counted and the one after it more (`ClassCompleteHolds`).
- `DailyMetricsProofs`.  *`MetricsInv`*: in the accumulator, the hour and the
  booked samples no sum is above its peak times its samples, and without samples
  there is no sum.  `FirstHour` and `LaterHour` are the two cases of the upsert;
  the second rests on two lemmas about weighted averages.  `MaxExists` says that
  a finite set of numbers has a greatest one, which gives `sample_count` a value.
  From it `MetricsTypes` and `RowsAreRight`.  *`Conserved`* is the balance of one
  metric's samples: a take moves the accumulator's into the hour, an upsert the
  hour's into one day (`SamplesKept`).
- `SessionsProofs`.  *`SessionInv`* says where a token may be: which rows and
  pending deletions a session of each kind and stage can have, and that only an
  excuse named in `LogoutFinal` leaves a row behind a logout.  From it
  `SessionTypes`, `LogoutFinalHolds`, `RememberedKeptHolds`, `CookieGoodHolds`.
  `MapBoundedHolds` is by the cardinality of what an eviction leaves.

Only model-checked: the liveness properties (`WorkersEnd`, `EventuallyOffered`,
`Converges`, `ShutdownCompletes`, `ExpiredRowsGo`), since they rest on fairness
and `ENABLED`, which the prover does not handle, and the three violations.

## 5. Observations without a run

- `alert.duration` above 24 h never fires: the window is pruned first
  (`alerter/alerter.go:372`).  `FiresWhenDue` says so with its bound.
- Handlers that outlast the 10 s drain, and an alert worker `Close` has given
  up, find the database closed; the error is only logged (`LateOnlyIfAbandoned`).
  A worker may also lose its alert to the end of the process (`EventuallyOffered`).
- A failed save of the hourly totals loses that hour: they were zeroed before
  (`store/sqlite.go:630`).  `Balanced` says that nothing else is lost.
- On the 29th to the 31st, `AddDate(0, -n, 0)` can overflow a short month, and
  one month more is deleted than on other days (`store/sqlite.go:414`).
- The traffic of the last hour before midnight is saved after it, on the next
  day; if midnight falls between saving and summing at the end of a month, its
  row misses the last booking.  This is why `MonthComplete` speaks of months
  whose row was written with a sum later than their last booking.
- A change of `server.timezone` at the turn of a month can delete days that the
  next run sums again.  This is why `MonthComplete` and `MonthNeverShrinks`
  exempt the months in which the zone changes.
- The hourly averages of CPU, memory and disk are not flushed at shutdown, unlike
  the traffic; those of the last hour before midnight are saved on the next day.
  A `daily_metrics` row from before the sample columns loses its average and its
  `sample_count` at its first merge, and keeps its peaks (`RowsSound`).
- An `alert.interval` above 24 h is not kept: `lastSent` is pruned after
  `stateTTL` (`alerter/alerter.go:380`), although the comment at lines 203-204
  says that `send` enforces the interval.  `AlertThrottle` has it as its one
  exception, `Memory`: such an interval is kept for `stateTTL`.
- A window survives while its alert is switched off (`alerter/alerter.go:112`):
  the first met sample afterwards can fire.  `WindowSound` speaks of the samples
  that were evaluated.
- An hourly task that overlaps `main`'s flush, or goes on after it because of a
  listener error, can overwrite the month's row with a sum read before the flush
  was booked (`store/sqlite.go:272`), and the flush with one read before the task's
  booking.  `TrafficLedger` has the interleaving; `MonthComplete` and
  `MonthNeverShrinks` name it as their exception.  The next hourly run of the same
  month repairs the row; if the month has ended by then, it stays short.  The day's
  row is right in any case (`Balanced`, `AllFlushed`).
- A counter that restarts and grows past its last value before the next reading
  goes unnoticed (`collector/network.go:488` for interfaces, `:567` for classes):
  the totals lack what it had counted, though no round is dropped.  Hence `erased`
  in `TotalsComplete` and `classErased` in `ClassComplete`, which bound it.
- A card that joins a bond is counted beside the bond until the next scan, up to
  five minutes later (`collector/network.go:441`); hence `slaved` in
  `TotalsSound`.  An interface that is back after some rounds brings all its bytes
  into one rate (`RatesFresh` exempts that round), while the totals are right.
- After a failed `ip6tables` the next reading drops the round or counts IPv6
  bytes again (`collector/network.go:354`); hence `over` in `ClassSound` and
  `ClassComplete`.  A first reading of zero is not a baseline: what follows it is
  counted from the next.
- A logout of a session that was evicted, or whose rows could not be loaded, finds
  nothing in the map and leaves the row (`server/server.go:434`); so does one
  whose statement fails.  `LogoutFinal` names these as its excuses.
- A restart restores the rows of evicted sessions and can fill the map beyond
  `maxSessions`; logins do not let it grow further (`MapBounded`).

## 6. What is not modelled

Gauges, routing and templates keep no state.  The set-up of nftables and
iptables rules, SMTP commands, SQL text and YAML syntax are I/O and wording; what
they do to the state is in the modules above.  Read-only queries are not actions.
Disk I/O, CPU and TCP counters are the scheme of `InterfaceTotals` without totals,
for one goroutine alone.  The update check is one `TryLock` and a cached answer
that no other part reads.  The limiter of login attempts, the rows of
`alert_history`, the defaults `Load` fills in and the way `collect` waits for its
parallel collectors are left out.  `Shutdown` has one alert worker where
`AlertDelivery` has any number, and no failing statements.  The alert `Close` of
`AlertPolicy` may come at any time, which is more than `main` does.

## 7. Plan

In this order; each gets a module, an instance and, where it pays, proofs.

1. `LoginLimiter`: attempts by address, the lock of five minutes, the bounded map
   and the cleaner that forgets an address.
2. `Settings`: what `Load` makes of a written configuration (defaults for
   zeros), so that a restart gives the settings that were in effect.
3. The collection itself: parallel collectors joined in `collect`, each with the
   failures it turns into a missing metric.

Theorems planned: that `Shutdown` implements an abstract "save all, then close"
specification, and the safety properties of the modules above.
