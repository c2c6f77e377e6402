------------------------------ MODULE Shutdown ------------------------------
(***************************************************************************)
(* main.go: how the program stops, composed of what each goroutine does    *)
(* with the database and the traffic totals while main tears it down:      *)
(* HTTP handlers, the session cleaner, the collector, a worker of the      *)
(* alert pool and the hourly task of store.DB.  The components' own        *)
(* modules have their details; here a goroutine is a short cycle.          *)
(*                                                                         *)
(* Traffic is counted in units: the collector adds one to the totals, the  *)
(* hourly task and main move them to the day's row (SaveHourlyNetwork) and *)
(* copy the sum of the days to the month's row (SaveMonthlyNetwork).       *)
(***************************************************************************)
EXTENDS Naturals, FiniteSets

CONSTANTS
    Handlers,        \* HTTP requests that can run at the same time
    MaxTraffic,      \* bound on the units of traffic observed
    MaxAlerts        \* bound on the alerts raised

ASSUME ShutdownAssumption ==
    /\ MaxTraffic \in Nat /\ MaxAlerts \in Nat
    /\ Handlers \cap {"cleaner", "worker", "hourly"} = {}

VARIABLES
    hasDB,      \* store.NewDB has succeeded
    main,       \* where main is
    ctxDone,    \* a signal has cancelled ctx
    serveErr,   \* ListenAndServe has failed
    handler,    \* handler[h]: "none" or "running"
    cleaner,    \* Server.cleanupStale: "wait", "clean", "exited"
    srvDone,    \* Server.done is closed
    collector,  \* "wait", "collect", "exited"
    colDone,    \* Collector.done is closed
    pending,    \* alert jobs in the queue
    raised,     \* alerts raised so far
    worker,     \* "wait", "record", "mail", "exited"
    poolDone,   \* Alerter.stopCh is closed
    hourly,     \* "wait", "daily", "sum", "month", "clean", "exited"
    hourTotals, \* totals the hourly task has taken and not yet saved
    hourSum,    \* the sum of the days it has read
    mainTotals, \* totals main has taken and not yet saved
    mainSum,    \* the sum of the days main has read
    live,       \* the totals in memory
    daily,      \* saved in the day's row
    monthly,    \* saved in the month's row
    observed,   \* history: all traffic counted since the start
    dbOpen,
    late,       \* history: who has used the database after it was closed
    gaveUp      \* history: whom main did not wait for any longer

mainVars == <<hasDB, main, ctxDone, serveErr, gaveUp>>
serverVars == <<handler, cleaner, srvDone>>
colVars == <<collector, colDone, observed>>
poolVars == <<pending, raised, worker, poolDone>>
hourVars == <<hourly, hourTotals, hourSum>>
flushVars == <<mainTotals, mainSum>>
dbVars == <<daily, monthly, dbOpen, late>>
vars == <<mainVars, serverVars, colVars, poolVars, hourVars, flushVars, live,
          dbVars>>

Init ==
    /\ hasDB \in BOOLEAN /\ gaveUp = {}
    /\ main = "serving" /\ ctxDone = FALSE /\ serveErr = FALSE
    /\ handler = [h \in Handlers |-> "none"]
    /\ cleaner = "wait" /\ srvDone = FALSE
    /\ collector = "wait" /\ colDone = FALSE /\ observed = 0
    /\ pending = 0 /\ raised = 0 /\ worker = "wait" /\ poolDone = FALSE
    /\ hourly = IF hasDB THEN "wait" ELSE "exited"
    /\ hourTotals = 0 /\ hourSum = 0
    /\ mainTotals = 0 /\ mainSum = 0
    /\ live = 0
    /\ daily = 0 /\ monthly = 0 /\ dbOpen = hasDB /\ late = {}

(* Using a closed database fails with an error, which is only logged.      *)
UseDB(who) == late' = IF hasDB /\ ~dbOpen THEN late \cup {who} ELSE late

-----------------------------------------------------------------------------
(* The environment: a signal, or a listener that fails.                    *)
Signal ==
    /\ ~ctxDone
    /\ ctxDone' = TRUE
    /\ UNCHANGED <<hasDB, main, serveErr, gaveUp, serverVars, colVars, poolVars, hourVars,
                   flushVars, live, dbVars>>

ServeError ==
    /\ main = "serving" /\ ~serveErr
    /\ serveErr' = TRUE
    /\ UNCHANGED <<hasDB, main, ctxDone, gaveUp, serverVars, colVars, poolVars, hourVars,
                   flushVars, live, dbVars>>

(* Even after that, requests come in on the connections there are.         *)
Accept(h) ==
    /\ main = "serving"
    /\ handler[h] = "none"
    /\ handler' = [handler EXCEPT ![h] = "running"]
    /\ UNCHANGED <<mainVars, cleaner, srvDone, colVars, poolVars, hourVars,
                   flushVars, live, dbVars>>

(* A handler uses the database and answers.                                *)
Respond(h) ==
    /\ handler[h] = "running"
    /\ handler' = [handler EXCEPT ![h] = "none"]
    /\ UseDB(h)
    /\ UNCHANGED <<mainVars, cleaner, srvDone, colVars, poolVars, hourVars,
                   flushVars, live, daily, monthly, dbOpen>>

-----------------------------------------------------------------------------
(* cleanupStale: on its ticker it deletes the expired sessions.            *)
CleanerStep(from, to) ==
    /\ cleaner = from /\ cleaner' = to
    /\ UNCHANGED <<mainVars, handler, srvDone, colVars, poolVars, hourVars,
                   flushVars, live, daily, monthly, dbOpen>>

CleanerTick == CleanerStep("wait", "clean") /\ UNCHANGED late
CleanerClean == CleanerStep("clean", "wait") /\ UseDB("cleaner")
CleanerExit == srvDone /\ CleanerStep("wait", "exited") /\ UNCHANGED late

(* The collector: one collection counts traffic and may raise an alert.    *)
CollectorTick ==
    /\ collector = "wait"
    /\ collector' = "collect"
    /\ UNCHANGED <<mainVars, serverVars, colDone, observed, poolVars, hourVars,
                   flushVars, live, dbVars>>

Collect ==
    /\ collector = "collect"
    /\ collector' = "wait"
    /\ \E traffic \in {0, 1} :
          /\ observed + traffic <= MaxTraffic
          /\ observed' = observed + traffic
          /\ live' = live + traffic
    /\ \E alert \in {0, 1} :
          /\ raised + alert <= MaxAlerts
          /\ raised' = raised + alert
          /\ pending' = IF poolDone THEN pending ELSE pending + alert
    /\ UNCHANGED <<mainVars, serverVars, colDone, worker, poolDone, hourVars,
                   flushVars, dbVars>>

CollectorExit ==
    /\ collector = "wait" /\ colDone
    /\ collector' = "exited"
    /\ UNCHANGED <<mainVars, serverVars, colDone, observed, poolVars, hourVars,
                   flushVars, live, dbVars>>

(* A worker of the alert pool records an alert, then mails it.             *)
WorkerStep(from, to) ==
    /\ worker = from /\ worker' = to
    /\ UNCHANGED <<mainVars, serverVars, colVars, raised, poolDone, hourVars,
                   flushVars, live, daily, monthly, dbOpen>>

(* Faulty variant: a worker takes a job without looking. *)
WorkerTakeBlind ==
    /\ pending' = pending - 1
    /\ WorkerStep("wait", "record") /\ UNCHANGED late

WorkerTake ==
    /\ pending > 0 /\ pending' = pending - 1
    /\ WorkerStep("wait", "record") /\ UNCHANGED late
WorkerRecord == WorkerStep("record", "mail") /\ UseDB("worker") /\ UNCHANGED pending
WorkerMailed == WorkerStep("mail", "wait") /\ UNCHANGED <<pending, late>>
WorkerExit ==
    /\ poolDone /\ pending = 0
    /\ WorkerStep("wait", "exited") /\ UNCHANGED <<pending, late>>

-----------------------------------------------------------------------------
(* The hourly task takes the totals and zeroes them, ...                   *)
HourTick ==
    /\ hourly = "wait"
    /\ hourly' = "daily"
    /\ hourTotals' = live /\ live' = 0
    /\ UNCHANGED <<mainVars, serverVars, colVars, poolVars, hourSum, flushVars,
                   dbVars>>

(* ... adds them to the day's row, ...                                     *)
HourSaveDaily ==
    /\ hourly = "daily"
    /\ hourly' = "sum"
    /\ daily' = daily + hourTotals /\ hourTotals' = 0
    /\ UseDB("hourly")
    /\ UNCHANGED <<mainVars, serverVars, colVars, poolVars, hourSum, flushVars,
                   live, monthly, dbOpen>>

(* ... sums the month's days in one statement ...                          *)
HourSum ==
    /\ hourly = "sum"
    /\ hourly' = "month"
    /\ hourSum' = daily
    /\ UseDB("hourly")
    /\ UNCHANGED <<mainVars, serverVars, colVars, poolVars, hourTotals,
                   flushVars, live, daily, monthly, dbOpen>>

(* ... overwrites the month's row in another, ...                          *)
HourSaveMonthly ==
    /\ hourly = "month"
    /\ hourly' = "clean"
    /\ monthly' = hourSum
    /\ UseDB("hourly")
    /\ UNCHANGED <<mainVars, serverVars, colVars, poolVars, hourTotals, hourSum,
                   flushVars, live, daily, dbOpen>>

(* ... saves the metrics and deletes what is past its retention.           *)
HourClean ==
    /\ hourly = "clean"
    /\ hourly' = "wait"
    /\ UseDB("hourly")
    /\ UNCHANGED <<mainVars, serverVars, colVars, poolVars, hourTotals, hourSum,
                   flushVars, live, daily, monthly, dbOpen>>

(* Faulty variant: the hourly task ends only after a listener error. *)
HourlyExitOnError ==
    /\ hourly = "wait" /\ serveErr
    /\ hourly' = "exited"
    /\ UNCHANGED <<mainVars, serverVars, colVars, poolVars, hourTotals, hourSum,
                   flushVars, live, dbVars>>

(* Between two runs it ends when ctx is done.                              *)
HourlyExit ==
    /\ hourly = "wait" /\ ctxDone
    /\ hourly' = "exited"
    /\ UNCHANGED <<mainVars, serverVars, colVars, poolVars, hourTotals, hourSum,
                   flushVars, live, dbVars>>

-----------------------------------------------------------------------------
GiveUp(who, from, to) ==
    /\ main = from /\ main' = to
    /\ gaveUp' = gaveUp \cup who
    /\ UNCHANGED <<hasDB, ctxDone, serveErr>>
Goto(from, to) == GiveUp({}, from, to)
Others == <<serverVars, colVars, poolVars, hourVars, flushVars, live, dbVars>>

(* Stop serving on a signal or an error, and drain the requests.           *)
Leave == (ctxDone \/ serveErr) /\ Goto("serving", "drain") /\ UNCHANGED Others

Drain ==
    /\ \A h \in Handlers : handler[h] = "none"
    /\ Goto("drain", "closeServer") /\ UNCHANGED Others

(* ... for 10 seconds at most.                                             *)
DrainExpire ==
    /\ \E h \in Handlers : handler[h] = "running"
    /\ GiveUp(Handlers, "drain", "closeServer") /\ UNCHANGED Others

(* svr.Close ends the cleaner and waits for it.                            *)
CloseServer ==
    /\ Goto("closeServer", "awaitServer")
    /\ srvDone' = TRUE
    /\ UNCHANGED <<handler, cleaner, colVars, poolVars, hourVars, flushVars,
                   live, dbVars>>
ServerClosed ==
    /\ cleaner = "exited"
    /\ Goto("awaitServer", "stopCollector") /\ UNCHANGED Others

(* Faulty variant: the collector's done channel is not closed. *)
StopCollectorUnsignalled ==
    /\ Goto("stopCollector", "awaitCollector")
    /\ UNCHANGED Others

(* col.Stop ends the collector and waits for a running collection.         *)
StopCollector ==
    /\ Goto("stopCollector", "awaitCollector")
    /\ colDone' = TRUE
    /\ UNCHANGED <<serverVars, collector, observed, poolVars, hourVars,
                   flushVars, live, dbVars>>
(* Faulty variant: col.Stop does not wait. *)
CollectorLeft == Goto("awaitCollector", "closeAlerter") /\ UNCHANGED Others

CollectorStopped ==
    /\ collector = "exited"
    /\ Goto("awaitCollector", "closeAlerter") /\ UNCHANGED Others

(* al.Close ends the pool and waits for it, for a limited time.            *)
CloseAlerter ==
    /\ Goto("closeAlerter", "awaitPool")
    /\ poolDone' = TRUE
    /\ UNCHANGED <<serverVars, colVars, pending, raised, worker, hourVars,
                   flushVars, live, dbVars>>
AfterPool == IF hasDB THEN "take" ELSE "defers"
AlerterClosed ==
    /\ worker = "exited"
    /\ Goto("awaitPool", AfterPool) /\ UNCHANGED Others
AlerterExpire ==
    /\ worker # "exited"
    /\ GiveUp({"worker"}, "awaitPool", AfterPool) /\ UNCHANGED Others

(* GetHourlyTotalsAndReset and FlushNetworkTotals.                         *)
TakeTotals ==
    /\ Goto("take", "daily")
    /\ mainTotals' = live /\ live' = 0
    /\ UNCHANGED <<serverVars, colVars, poolVars, hourVars, mainSum, dbVars>>
FlushDaily ==
    /\ Goto("daily", "sum")
    /\ daily' = daily + mainTotals /\ mainTotals' = 0
    /\ UNCHANGED <<serverVars, colVars, poolVars, hourVars, mainSum, live,
                   monthly, dbOpen, late>>
FlushSum ==
    /\ Goto("sum", "month")
    /\ mainSum' = daily
    /\ UNCHANGED <<serverVars, colVars, poolVars, hourVars, mainTotals, live,
                   dbVars>>
FlushMonthly ==
    /\ Goto("month", "closeDB")
    /\ monthly' = mainSum
    /\ UNCHANGED <<serverVars, colVars, poolVars, hourVars, flushVars, live,
                   daily, dbOpen, late>>

(* Faulty variant: DB.Close does not wait. *)
CloseDBNow ==
    /\ Goto("closeDB", "defers")
    /\ dbOpen' = FALSE
    /\ UNCHANGED <<serverVars, colVars, poolVars, hourVars, flushVars, live,
                   daily, monthly, late>>

(* DB.Close waits for the hourly task, without a limit.                    *)
CloseDB ==
    /\ hourly = "exited"
    /\ Goto("closeDB", "defers")
    /\ dbOpen' = FALSE
    /\ UNCHANGED <<serverVars, colVars, poolVars, hourVars, flushVars, live,
                   daily, monthly, late>>

(* The deferred calls, and the end of the process.                         *)
Exit == Goto("defers", "exited") /\ UNCHANGED Others

MainStep ==
    \/ Leave \/ Drain \/ DrainExpire \/ CloseServer \/ ServerClosed
    \/ StopCollector \/ CollectorStopped \/ CloseAlerter \/ AlerterClosed
    \/ AlerterExpire
    \/ TakeTotals \/ FlushDaily \/ FlushSum \/ FlushMonthly \/ CloseDB \/ Exit

Running ==
    \/ Signal \/ ServeError
    \/ \E h \in Handlers : Accept(h) \/ Respond(h)
    \/ CleanerTick \/ CleanerClean \/ CleanerExit
    \/ CollectorTick \/ Collect \/ CollectorExit
    \/ WorkerTake \/ WorkerRecord \/ WorkerMailed \/ WorkerExit
    \/ HourTick \/ HourSaveDaily \/ HourSum \/ HourSaveMonthly \/ HourClean
    \/ HourlyExit
    \/ MainStep

(* The other goroutines end with the process.                              *)
Next ==
    \/ main # "exited" /\ Running
    \/ main = "exited" /\ UNCHANGED vars

Spec == Init /\ [][Next]_vars

(* Goroutines are scheduled; one that waits for its ticker or its stop     *)
(* channel is not kept from the latter for ever, since select picks among  *)
(* the ready channels at random.  Nobody has to send a signal.             *)
Fairness ==
    /\ WF_vars(main # "exited" /\ MainStep)
    /\ \A h \in Handlers : WF_vars(main # "exited" /\ Respond(h))
    /\ WF_vars(main # "exited" /\ CleanerClean)
    /\ WF_vars(main # "exited" /\ Collect)
    /\ WF_vars(main # "exited" /\ (WorkerTake \/ WorkerRecord \/ WorkerMailed
                                   \/ WorkerExit))
    /\ WF_vars(main # "exited" /\ (HourSaveDaily \/ HourSum \/ HourSaveMonthly
                                   \/ HourClean))
    /\ SF_vars(main # "exited" /\ CleanerExit)
    /\ SF_vars(main # "exited" /\ CollectorExit)
    /\ SF_vars(main # "exited" /\ HourlyExit)

FairSpec == Spec /\ Fairness

-----------------------------------------------------------------------------
TypeOK ==
    /\ main \in {"serving", "drain", "closeServer", "awaitServer",
                 "stopCollector", "awaitCollector", "closeAlerter", "awaitPool",
                 "take", "daily", "sum", "month", "closeDB", "defers", "exited"}
    /\ ctxDone \in BOOLEAN /\ serveErr \in BOOLEAN
    /\ handler \in [Handlers -> {"none", "running"}]
    /\ cleaner \in {"wait", "clean", "exited"} /\ srvDone \in BOOLEAN
    /\ collector \in {"wait", "collect", "exited"} /\ colDone \in BOOLEAN
    /\ pending \in 0..MaxAlerts /\ raised \in 0..MaxAlerts
    /\ worker \in {"wait", "record", "mail", "exited"} /\ poolDone \in BOOLEAN
    /\ hourly \in {"wait", "daily", "sum", "month", "clean", "exited"}
    /\ {hourTotals, hourSum, mainTotals, mainSum, live, daily, monthly,
        observed} \subseteq 0..MaxTraffic
    /\ hasDB \in BOOLEAN /\ dbOpen \in BOOLEAN
    /\ late \subseteq Handlers \cup {"cleaner", "worker", "hourly"}
    /\ gaveUp \subseteq Handlers \cup {"worker"}

(* "Flush traffic accumulated since the last hourly boundary so a restart  *)
(* does not lose up to an hour of network stats": when main is through,    *)
(* every unit ever counted is in the day's row.                            *)
AllFlushed ==
    hasDB /\ main \in {"defers", "exited"} => daily = observed

(* "So we never use the DB after Close returns": the cleaner and the hourly*)
(* task never do; a request or an alert worker only if main gave up on it. *)
LateOnlyIfAbandoned == late \subseteq gaveUp

(* The tear-down ends after a signal, whatever is in flight, and without a *)
(* database after a listener error too.                                    *)
ShutdownCompletes == ctxDone \/ (serveErr /\ ~hasDB) ~> main = "exited"

(* "Exit the shutdown path (instead of log.Fatal) so deferred cleanup and  *)
(* the explicit tear-down below still run": after any listener error.      *)
TearDownRuns == serveErr ~> main = "exited"
=============================================================================
