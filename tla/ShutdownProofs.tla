--------------------------- MODULE ShutdownProofs ---------------------------
(***************************************************************************)
(* Theorems about Shutdown, for any number of requests, units of traffic   *)
(* and alerts.                                                             *)
(***************************************************************************)
EXTENDS Shutdown, TLAPS

(* How far main has come.                                                  *)
Through == {"defers", "exited"}
TotalsTaken == {"daily", "sum", "month", "closeDB"} \cup Through
PoolLeft == {"take"} \cup TotalsTaken
CollectorGone == {"closeAlerter", "awaitPool"} \cup PoolLeft
ServerGone == {"stopCollector", "awaitCollector"} \cup CollectorGone

(* Every unit of traffic is in exactly one place, and main has taken the   *)
(* last one before it closes the database.                                 *)
TrafficInv ==
    /\ observed = daily + hourTotals + mainTotals + live
    /\ hourly # "daily" => hourTotals = 0
    /\ main # "daily" => mainTotals = 0
    /\ main \in CollectorGone => collector = "exited"
    /\ hasDB /\ main \in TotalsTaken => live = 0
    /\ hasDB /\ main \in Through => hourly = "exited"
    /\ ~hasDB => main \notin PoolLeft \ Through /\ hourly = "exited"

(* Whoever still runs when main has gone on was given up.                  *)
LateInv ==
    /\ late \subseteq gaveUp
    /\ hasDB /\ ~dbOpen => main \in Through
    /\ main \notin {"serving", "drain"} =>
          \A h \in Handlers : handler[h] = "running" => h \in gaveUp
    /\ main \in ServerGone => cleaner = "exited"
    /\ main \in PoolLeft => worker = "exited" \/ "worker" \in gaveUp

ShutdownInv == TypeOK /\ TrafficInv /\ LateInv /\ pending <= raised

LEMMA ShutdownInvInit ==
    ASSUME Init PROVE ShutdownInv
<1>1. MaxTraffic \in Nat /\ MaxAlerts \in Nat
  BY ShutdownAssumption
<1>2. 0 \in 0..MaxTraffic /\ 0 \in 0..MaxAlerts
  BY <1>1
<1>3. TypeOK
  BY <1>2 DEF Init, TypeOK
<1>4. TrafficInv
  BY DEF Init, TrafficInv, CollectorGone, PoolLeft, TotalsTaken, Through
<1>5. LateInv
  BY DEF Init, LateInv, ServerGone, CollectorGone, PoolLeft, TotalsTaken, Through
<1>6. pending <= raised
  BY DEF Init
<1> QED BY <1>3, <1>4, <1>5, <1>6 DEF ShutdownInv

-----------------------------------------------------------------------------
LEMMA ServerStepsInv ==
    ASSUME ShutdownInv,
           Signal \/ ServeError \/ (\E h \in Handlers : Accept(h) \/ Respond(h))
             \/ CleanerTick \/ CleanerClean \/ CleanerExit
    PROVE  ShutdownInv'
<1> USE DEF ShutdownInv, Signal, ServeError, Accept, Respond, CleanerTick,
            CleanerClean, CleanerExit, CleanerStep, UseDB, mainVars, serverVars,
            colVars, poolVars, hourVars, flushVars, dbVars
<1>1. TypeOK'
  <2>1. CASE Signal \/ ServeError
    <3>1. ctxDone' \in BOOLEAN /\ serveErr' \in BOOLEAN
      BY <2>1 DEF TypeOK
    <3>2. UNCHANGED <<hasDB, main, gaveUp, handler, cleaner, srvDone, collector,
                      colDone, observed, pending, raised, worker, poolDone, hourly,
                      hourTotals, hourSum, mainTotals, mainSum, live, daily,
                      monthly, dbOpen, late>>
      BY <2>1
    <3> QED BY <3>1, <3>2 DEF TypeOK
  <2>2. CASE \E h \in Handlers : Accept(h)
    BY <2>2 DEF TypeOK
  <2>3. CASE \E h \in Handlers : Respond(h)
    BY <2>3 DEF TypeOK
  <2>4. CASE CleanerTick \/ CleanerClean \/ CleanerExit
    BY <2>4 DEF TypeOK
  <2> QED BY <2>1, <2>2, <2>3, <2>4
<1>2. TrafficInv'
  BY DEF TrafficInv
<1>3. LateInv'
  BY DEF LateInv, TypeOK, ServerGone, CollectorGone, PoolLeft, TotalsTaken, Through
<1> QED BY <1>1, <1>2, <1>3

LEMMA CollectorStepsInv ==
    ASSUME ShutdownInv, CollectorTick \/ Collect \/ CollectorExit
    PROVE  ShutdownInv'
<1> USE DEF ShutdownInv, CollectorTick, Collect, CollectorExit, mainVars,
            serverVars, colVars, poolVars, hourVars, flushVars, dbVars
<1>1. /\ MaxTraffic \in Nat /\ MaxAlerts \in Nat
      /\ {daily, hourTotals, mainTotals, live, observed, pending, raised} \subseteq Nat
  BY ShutdownAssumption DEF TypeOK
<1>2. TrafficInv'
  BY <1>1 DEF TrafficInv, CollectorGone, PoolLeft, TotalsTaken, Through
<1>3. TypeOK' /\ pending' <= raised'
  BY <1>1 DEF TypeOK, TrafficInv
<1>4. LateInv'
  BY DEF LateInv
<1> QED BY <1>2, <1>3, <1>4

LEMMA WorkerStepsInv ==
    ASSUME ShutdownInv, WorkerTake \/ WorkerRecord \/ WorkerMailed \/ WorkerExit
    PROVE  ShutdownInv'
<1> USE DEF ShutdownInv, WorkerTake, WorkerRecord, WorkerMailed, WorkerExit,
            WorkerStep, UseDB, mainVars, serverVars, colVars, poolVars, hourVars,
            flushVars, dbVars
<1>1. MaxAlerts \in Nat /\ pending \in Nat /\ raised \in Nat
  BY ShutdownAssumption DEF TypeOK
<1>2. TypeOK' /\ pending' <= raised'
  BY <1>1 DEF TypeOK
<1>3. TrafficInv'
  BY DEF TrafficInv
<1>4. LateInv'
  BY DEF LateInv, PoolLeft, TotalsTaken
<1> QED BY <1>2, <1>3, <1>4

(* The hourly task moves traffic between places and adds none.             *)
LEMMA HourlyStepsInv ==
    ASSUME ShutdownInv, HourTick \/ HourSaveDaily \/ HourSum \/ HourSaveMonthly
                          \/ HourClean \/ HourlyExit
    PROVE  ShutdownInv'
<1> USE DEF ShutdownInv, HourTick, HourSaveDaily, HourSum, HourSaveMonthly,
            HourClean, HourlyExit, UseDB, mainVars, serverVars, colVars, poolVars,
            hourVars, flushVars, dbVars
<1>1. /\ MaxTraffic \in Nat /\ observed <= MaxTraffic
      /\ {daily, hourTotals, mainTotals, live, observed} \subseteq Nat
  BY ShutdownAssumption DEF TypeOK
<1>2. TrafficInv'
  BY <1>1 DEF TrafficInv
<1>3. TypeOK'
  BY <1>1 DEF TypeOK, TrafficInv
<1>4. LateInv'
  BY DEF LateInv, TrafficInv
<1> QED BY <1>2, <1>3, <1>4

(* main waits for everybody it does not give up.                           *)
LEMMA MainStepsInv ==
    ASSUME ShutdownInv, MainStep PROVE ShutdownInv'
<1> USE DEF ShutdownInv, Goto, GiveUp, Others, AfterPool, mainVars, serverVars,
            colVars, poolVars, hourVars, flushVars, dbVars,
            ServerGone, CollectorGone, PoolLeft, TotalsTaken, Through
<1>1. /\ MaxTraffic \in Nat /\ observed <= MaxTraffic
      /\ {daily, hourTotals, mainTotals, live, observed} \subseteq Nat
  BY ShutdownAssumption DEF TypeOK
<1>2. CASE Leave \/ Drain \/ DrainExpire \/ CloseServer \/ ServerClosed
  <2> USE DEF Leave, Drain, DrainExpire, CloseServer, ServerClosed
  <2>1. TypeOK'
    <3>1. CASE Leave
      BY <3>1 DEF TypeOK
    <3>2. CASE Drain
      BY <3>2 DEF TypeOK
    <3>3. CASE DrainExpire
      BY <3>3 DEF TypeOK
    <3>4. CASE CloseServer
      BY <3>4 DEF TypeOK
    <3>5. CASE ServerClosed
      BY <3>5 DEF TypeOK
    <3> QED BY <1>2, <3>1, <3>2, <3>3, <3>4, <3>5
  <2>2. TrafficInv'
    BY <1>2 DEF TrafficInv
  <2>3. LateInv'
    BY <1>2 DEF LateInv, TypeOK
  <2> QED BY <1>2, <2>1, <2>2, <2>3
<1>3. CASE StopCollector \/ CollectorStopped \/ CloseAlerter \/ AlerterClosed
           \/ AlerterExpire
  <2> USE DEF StopCollector, CollectorStopped, CloseAlerter, AlerterClosed,
              AlerterExpire
  <2>1. TypeOK'
    <3>1. CASE StopCollector
      BY <3>1 DEF TypeOK
    <3>2. CASE CollectorStopped
      BY <3>2 DEF TypeOK
    <3>3. CASE CloseAlerter
      BY <3>3 DEF TypeOK
    <3>4. CASE AlerterClosed
      BY <3>4 DEF TypeOK
    <3>5. CASE AlerterExpire
      BY <3>5 DEF TypeOK
    <3> QED BY <1>3, <3>1, <3>2, <3>3, <3>4, <3>5
  <2>2. TrafficInv'
    BY <1>3 DEF TrafficInv
  <2>3. LateInv'
    BY <1>3 DEF LateInv
  <2> QED BY <1>3, <2>1, <2>2, <2>3
<1>4. CASE TakeTotals \/ FlushDaily \/ FlushSum \/ FlushMonthly \/ CloseDB \/ Exit
  <2> USE DEF TakeTotals, FlushDaily, FlushSum, FlushMonthly, CloseDB, Exit
  <2>1. TrafficInv'
    BY <1>1, <1>4 DEF TrafficInv
  <2>2. TypeOK'
    <3>1. CASE TakeTotals
      BY <3>1, <1>1 DEF TypeOK, TrafficInv
    <3>2. CASE FlushDaily
      BY <3>2, <1>1 DEF TypeOK, TrafficInv
    <3>3. CASE FlushSum
      BY <3>3, <1>1 DEF TypeOK, TrafficInv
    <3>4. CASE FlushMonthly
      BY <3>4, <1>1 DEF TypeOK, TrafficInv
    <3>5. CASE CloseDB
      BY <3>5, <1>1 DEF TypeOK, TrafficInv
    <3>6. CASE Exit
      BY <3>6, <1>1 DEF TypeOK, TrafficInv
    <3> QED BY <1>4, <3>1, <3>2, <3>3, <3>4, <3>5, <3>6
  <2>3. LateInv'
    BY <1>4 DEF LateInv
  <2> QED BY <1>4, <2>1, <2>2, <2>3
<1> QED BY <1>2, <1>3, <1>4 DEF MainStep

LEMMA ShutdownInvNext ==
    ASSUME ShutdownInv, [Next]_vars PROVE ShutdownInv'
<1>1. CASE UNCHANGED vars
  BY <1>1 DEF vars, mainVars, serverVars, colVars, poolVars, hourVars, flushVars,
              dbVars, ShutdownInv, TypeOK, TrafficInv, LateInv
<1> QED
  BY <1>1, ServerStepsInv, CollectorStepsInv, WorkerStepsInv, HourlyStepsInv,
     MainStepsInv DEF Next, Running

THEOREM ShutdownInvariant == Spec => []ShutdownInv
<1>1. ShutdownInv /\ [Next]_vars => ShutdownInv'
  BY ShutdownInvNext
<1> QED BY <1>1, ShutdownInvInit, PTL DEF Spec

(* No place ever holds more traffic than was observed, no queue more       *)
(* alerts than were raised.                                                *)
THEOREM TypeCorrect == Spec => []TypeOK
<1>1. ShutdownInv => TypeOK
  BY DEF ShutdownInv
<1> QED BY <1>1, ShutdownInvariant, PTL

(* The final flush leaves no traffic behind, wherever the hourly task is   *)
(* when main takes the totals.                                             *)
THEOREM FlushComplete == Spec => []AllFlushed
<1>1. ShutdownInv => AllFlushed
  BY ShutdownAssumption
     DEF ShutdownInv, TypeOK, TrafficInv, AllFlushed, TotalsTaken, Through
<1> QED BY <1>1, ShutdownInvariant, PTL

(* Only those main gave up on can find the database closed.                *)
THEOREM NobodyElseLate == Spec => []LateOnlyIfAbandoned
<1>1. ShutdownInv => LateOnlyIfAbandoned
  BY DEF ShutdownInv, LateInv, LateOnlyIfAbandoned
<1> QED BY <1>1, ShutdownInvariant, PTL
=============================================================================
