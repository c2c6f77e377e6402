--------------------------- MODULE AlertDelivery ---------------------------
(***************************************************************************)
(* alerter/alerter.go, the delivery half: send hands jobs over a bounded   *)
(* channel to a pool of workers, which record each alert and mail it with  *)
(* a dial timeout and an I/O deadline; Close stops the pool and waits for  *)
(* it, but not for ever.  The collector is the only sender and main stops  *)
(* it before it calls Close; when Close has returned, main closes the      *)
(* database and exits, whatever a worker that was given up on is doing.    *)
(*                                                                         *)
(* Time is in ticks.  A timer runs while a worker talks to the mail server *)
(* and while Close waits; time does not pass beyond an expired timer until *)
(* its owner has reacted.                                                  *)
(***************************************************************************)
EXTENDS AlertService, Integers, FiniteSets, Sequences, SequencesExt

CONSTANTS
    Workers,         \* defaultWorkers goroutines
    QueueSize,       \* defaultQueueSize
    MaxJobs,         \* bound on the mails handed to send
    DialTimeout,     \* smtpDialTimeout
    OverallTimeout,  \* smtpOverallTimeout
    CloseTimeout,    \* closeTimeout
    NoJob

ASSUME DeliveryAssumption ==
    /\ Workers # {}
    /\ QueueSize \in Nat /\ MaxJobs \in Nat
    /\ DialTimeout \in Nat /\ OverallTimeout \in Nat /\ CloseTimeout \in Nat
    /\ NoJob \notin Nat

VARIABLES
    sender,      \* collector goroutine: "idle", "holding" a job, "stopped"
    nextJob,     \* the job send is building or builds next
    accepted,    \* history: jobs for which send returned true
    jobs,        \* the channel
    stopCh,      \* TRUE once stopCh is closed
    closer,      \* main in Close: "open", "marked", "waiting", "done", "expired"
    closeTimer,  \* time since Close began to wait
    at,          \* at[w]: "select", "drain", "notify", "dial", "smtp", "exited"
    draining,    \* draining[w]: w is in the inner loop, after stopCh
    job,         \* job[w]: the job in w's hands, or NoJob
    timer,       \* timer[w]: time since w dialled
    deadline,    \* deadline[w]: value of the timer at which I/O fails
    handled,     \* jobs whose handleJob returned, mailed or failed
    db,          \* the database: "none" (NewDB failed), "open", "closed"
    gone,        \* main has returned and the process with it
    recorded,    \* jobs in the alert history
    unsaved,     \* history: jobs SaveAlert failed on while the database was
                 \* open, or that had no database at all
    tooLate      \* history: jobs that met a closed database

sendVars == <<sender, nextJob, accepted>>
closeVars == <<closed, stopCh, closer, closeTimer>>
workVars == <<at, draining, job, timer, deadline, handled>>
baseVars == <<db, gone>>
saveVars == <<recorded, unsaved, tooLate>>
deliveryVars == <<sendVars, jobs, closeVars, workVars, baseVars, saveVars>>

Job == 1..MaxJobs

DeliveryInit ==
    /\ sender = "idle" /\ nextJob = 1 /\ accepted = {}
    /\ jobs = <<>>
    /\ closed = FALSE /\ stopCh = FALSE /\ closer = "open" /\ closeTimer = 0
    /\ at = [w \in Workers |-> "select"]
    /\ draining = [w \in Workers |-> FALSE]
    /\ job = [w \in Workers |-> NoJob]
    /\ timer = [w \in Workers |-> 0]
    /\ deadline = [w \in Workers |-> 0]
    /\ handled = {}
    /\ db \in {"none", "open"} /\ gone = FALSE
    /\ recorded = {} /\ unsaved = {} /\ tooLate = {}

-----------------------------------------------------------------------------
(* send, under sendMu: admitted unless closed.                             *)
Admit ==
    /\ sender = "idle" /\ nextJob <= MaxJobs
    /\ ~closed
    /\ sender' = "holding"
    /\ UNCHANGED <<nextJob, accepted, jobs, closeVars, workVars, baseVars,
                   saveVars>>

(* Faulty variant: a full channel still accepts the job. *)
EnqueueOverfull ==
    /\ sender = "holding"
    /\ sender' = "idle"
    /\ nextJob' = nextJob + 1
    /\ jobs' = Append(jobs, nextJob)
    /\ accepted' = accepted \cup {nextJob}
    /\ UNCHANGED <<closeVars, workVars, baseVars, saveVars>>

(* Faulty variant: a dropped job is reported as accepted. *)
EnqueueDropped ==
    /\ sender = "holding"
    /\ sender' = "idle"
    /\ nextJob' = nextJob + 1
    /\ jobs' = IF Len(jobs) < QueueSize THEN Append(jobs, nextJob) ELSE jobs
    /\ accepted' = accepted \cup {nextJob}
    /\ UNCHANGED <<closeVars, workVars, baseVars, saveVars>>

(* send, after sendMu: a full channel drops the job.                       *)
Enqueue ==
    /\ sender = "holding"
    /\ sender' = "idle"
    /\ nextJob' = nextJob + 1
    /\ \/ /\ Len(jobs) < QueueSize
          /\ jobs' = Append(jobs, nextJob)
          /\ accepted' = accepted \cup {nextJob}
       \/ /\ Len(jobs) >= QueueSize
          /\ UNCHANGED <<jobs, accepted>>
    /\ UNCHANGED <<closeVars, workVars, baseVars, saveVars>>

(* col.Stop returns once no collection is running.                         *)
StopCollector ==
    /\ sender = "idle"
    /\ sender' = "stopped"
    /\ UNCHANGED <<nextJob, accepted, jobs, closeVars, workVars, baseVars,
                   saveVars>>

-----------------------------------------------------------------------------
(* Close: sets closed under sendMu ...                                     *)
CloseMark ==
    /\ sender = "stopped"
    /\ closer = "open"
    /\ closed' = TRUE
    /\ closer' = "marked"
    /\ UNCHANGED <<sendVars, jobs, stopCh, closeTimer, workVars, baseVars,
                   saveVars>>

(* ... closes stopCh and starts to wait ...                                *)
CloseStop ==
    /\ closer = "marked"
    /\ stopCh' = TRUE
    /\ closer' = "waiting"
    /\ UNCHANGED <<sendVars, jobs, closed, closeTimer, workVars, baseVars, saveVars>>

(* ... for all workers, or for closeTimeout.                               *)
CloseDone ==
    /\ closer = "waiting"
    /\ \A w \in Workers : at[w] = "exited"
    /\ closer' = "done"
    /\ UNCHANGED <<sendVars, jobs, closed, stopCh, closeTimer, workVars,
                   baseVars, saveVars>>

CloseExpire ==
    /\ closer = "waiting"
    /\ closeTimer = CloseTimeout
    /\ closer' = "expired"
    /\ UNCHANGED <<sendVars, jobs, closed, stopCh, closeTimer, workVars,
                   baseVars, saveVars>>

-----------------------------------------------------------------------------
Loop(w) == IF draining[w] THEN "drain" ELSE "select"

(* worker receives a job, in either loop.                                  *)
Take(w) ==
    /\ at[w] \in {"select", "drain"}
    /\ jobs # <<>>
    /\ at' = [at EXCEPT ![w] = "notify"]
    /\ job' = [job EXCEPT ![w] = Head(jobs)]
    /\ jobs' = Tail(jobs)
    /\ UNCHANGED <<sendVars, closeVars, draining, timer, deadline, handled,
                   baseVars, saveVars>>

(* Faulty variant: a stopped worker leaves the channel as it is. *)
SeeStopAndExit(w) ==
    /\ at[w] = "select"
    /\ stopCh
    /\ at' = [at EXCEPT ![w] = "exited"]
    /\ UNCHANGED <<sendVars, jobs, closeVars, draining, job, timer, deadline,
                   handled, baseVars, saveVars>>

(* The outer select sees stopCh, even if there are jobs.                   *)
SeeStop(w) ==
    /\ at[w] = "select"
    /\ stopCh
    /\ at' = [at EXCEPT ![w] = "drain"]
    /\ draining' = [draining EXCEPT ![w] = TRUE]
    /\ UNCHANGED <<sendVars, jobs, closeVars, job, timer, deadline, handled,
                   baseVars, saveVars>>

(* The inner loop finds the channel empty.                                 *)
DrainEmpty(w) ==
    /\ at[w] = "drain"
    /\ jobs = <<>>
    /\ at' = [at EXCEPT ![w] = "exited"]
    /\ UNCHANGED <<sendVars, jobs, closeVars, draining, job, timer, deadline,
                   handled, baseVars, saveVars>>

(* handleJob: notifyAlert, then deliver dials.  onAlert calls SaveAlert,   *)
(* which may fail; without a database there is no onAlert.                 *)
Notify(w) ==
    /\ at[w] = "notify"
    /\ \/ /\ db = "open"
          /\ recorded' = recorded \cup {job[w]}
          /\ UNCHANGED <<unsaved, tooLate>>
       \/ /\ db \in {"open", "none"}
          /\ unsaved' = unsaved \cup {job[w]}
          /\ UNCHANGED <<recorded, tooLate>>
       \/ /\ db = "closed"
          /\ tooLate' = tooLate \cup {job[w]}
          /\ UNCHANGED <<recorded, unsaved>>
    /\ at' = [at EXCEPT ![w] = "dial"]
    /\ timer' = [timer EXCEPT ![w] = 0]
    /\ deadline' = [deadline EXCEPT ![w] = DialTimeout]
    /\ UNCHANGED <<sendVars, jobs, closeVars, draining, job, handled, baseVars>>

(* sendMailWithTimeout: connected; the I/O deadline starts only now.       *)
Connect(w) ==
    /\ at[w] = "dial"
    /\ at' = [at EXCEPT ![w] = "smtp"]
    /\ deadline' = [deadline EXCEPT ![w] = timer[w] + OverallTimeout]
    /\ UNCHANGED <<sendVars, jobs, closeVars, draining, job, timer, handled,
                   baseVars, saveVars>>

(* Faulty variant: the worker ends after its first mail. *)
ReturnAndExit(w) ==
    /\ handled' = handled \cup {job[w]}
    /\ job' = [job EXCEPT ![w] = NoJob]
    /\ at' = [at EXCEPT ![w] = "exited"]
    /\ timer' = [timer EXCEPT ![w] = 0]
    /\ deadline' = [deadline EXCEPT ![w] = 0]
    /\ UNCHANGED <<sendVars, jobs, closeVars, draining, baseVars, saveVars>>

(* deliver returns and the worker is back in its loop.                     *)
Return(w) ==
    /\ handled' = handled \cup {job[w]}
    /\ job' = [job EXCEPT ![w] = NoJob]
    /\ at' = [at EXCEPT ![w] = Loop(w)]
    /\ timer' = [timer EXCEPT ![w] = 0]
    /\ deadline' = [deadline EXCEPT ![w] = 0]
    /\ UNCHANGED <<sendVars, jobs, closeVars, draining, baseVars, saveVars>>

(* The mail is sent, there is no recipient, or the server refuses.         *)
Answer(w) == at[w] \in {"dial", "smtp"} /\ Return(w)

(* Faulty variant: no deadline is set on the connection. *)
ExpireDialOnly(w) ==
    /\ at[w] = "dial"
    /\ timer[w] = deadline[w]
    /\ Return(w)

(* A silent server: the dial times out, or the deadline fails the I/O.     *)
Expire(w) ==
    /\ at[w] \in {"dial", "smtp"}
    /\ timer[w] = deadline[w]
    /\ Return(w)

-----------------------------------------------------------------------------
(* main, after Close has returned: DB.Close, which may first wait for the  *)
(* hourly task (module Shutdown).                                          *)
CloseDB ==
    /\ closer \in {"done", "expired"}
    /\ db = "open"
    /\ db' = "closed"
    /\ UNCHANGED <<sendVars, jobs, closeVars, workVars, gone, saveVars>>

(* main returns: the process ends under the workers that are left.         *)
Exit ==
    /\ closer \in {"done", "expired"}
    /\ db # "open"
    /\ ~gone
    /\ gone' = TRUE
    /\ UNCHANGED <<sendVars, jobs, closeVars, workVars, db, saveVars>>

-----------------------------------------------------------------------------
Mailing(w) == at[w] \in {"dial", "smtp"}

DeliveryTick ==
    /\ ~gone
    /\ \A w \in Workers : Mailing(w) => timer[w] < deadline[w]
    /\ closer = "waiting" => closeTimer < CloseTimeout
    /\ timer' = [w \in Workers |-> IF Mailing(w) THEN timer[w] + 1 ELSE timer[w]]
    /\ closeTimer' = IF closer = "waiting" THEN closeTimer + 1 ELSE closeTimer
    /\ UNCHANGED <<sendVars, jobs, closed, stopCh, closer, at, draining, job,
                   deadline, handled, baseVars, saveVars>>

(* What a worker does without the mail server, and what the server does.   *)
WorkerStep(w) ==
    /\ ~gone
    /\ Take(w) \/ SeeStop(w) \/ DrainEmpty(w) \/ Notify(w) \/ Expire(w)

ServerStep(w) == ~gone /\ (Connect(w) \/ Answer(w))

CloseStep == CloseStop \/ CloseDone \/ CloseExpire

(* The process has ended.                                                  *)
Stopped == gone /\ UNCHANGED deliveryVars

DeliveryNext ==
    \/ Admit \/ Enqueue \/ StopCollector
    \/ CloseMark \/ CloseStep \/ CloseDB \/ Exit
    \/ \E w \in Workers : WorkerStep(w) \/ ServerStep(w)
    \/ DeliveryTick
    \/ Stopped

(* Goroutines are scheduled and time passes; the mail server owes nothing, *)
(* nobody has to ask for a shutdown and DB.Close may wait.                 *)
Fairness ==
    /\ \A w \in Workers : WF_deliveryVars(WorkerStep(w))
    /\ WF_deliveryVars(CloseStep)
    /\ WF_deliveryVars(DeliveryTick)

DeliverySpec == DeliveryInit /\ [][DeliveryNext]_deliveryVars
FairSpec == DeliverySpec /\ Fairness

-----------------------------------------------------------------------------
Hands == {job[w] : w \in Workers} \ {NoJob}

DeliveryTypeOK ==
    /\ sender \in {"idle", "holding", "stopped"}
    /\ nextJob \in 1..(MaxJobs + 1)
    /\ accepted \subseteq Job
    /\ handled \subseteq recorded \cup unsaved \cup tooLate
    /\ recorded \cup unsaved \cup tooLate \subseteq accepted
    /\ db \in {"none", "open", "closed"} /\ gone \in BOOLEAN
    /\ jobs \in Seq(Job) /\ Len(jobs) <= QueueSize
    /\ closed \in BOOLEAN /\ stopCh \in BOOLEAN
    /\ closer \in {"open", "marked", "waiting", "done", "expired"}
    /\ closeTimer \in 0..CloseTimeout
    /\ at \in [Workers -> {"select", "drain", "notify", "dial", "smtp", "exited"}]
    /\ draining \in [Workers -> BOOLEAN]
    /\ job \in [Workers -> Job \cup {NoJob}]
    /\ timer \in [Workers -> 0..(DialTimeout + OverallTimeout)]
    /\ deadline \in [Workers -> 0..(DialTimeout + OverallTimeout)]

(* No accepted mail is lost or taken twice: each is in the channel once,   *)
(* in the hands of one worker, or handled.                                 *)
JobsAccounted ==
    /\ accepted = ToSet(jobs) \cup Hands \cup handled
    /\ IsInjective(jobs)
    /\ ToSet(jobs) \cap (Hands \cup handled) = {}
    /\ Hands \cap handled = {}
    /\ \A v, w \in Workers : v # w /\ job[v] # NoJob => job[v] # job[w]

(* "Drain queued jobs so in-flight alerts are not silently dropped on      *)
(* shutdown": when Close returns because the pool has ended, every alert   *)
(* ever accepted was mailed or its mail failed, and it reached onAlert     *)
(* while the database was open: it is in the history, unless its statement *)
(* failed or there is no database.                                         *)
DrainedOnClose ==
    closer = "done" =>
        /\ accepted = handled
        /\ accepted = recorded \cup unsaved
        /\ tooLate = {}

(* closeTimeout "must comfortably exceed a single SMTP delivery so an      *)
(* in-flight worker is not abandoned mid-send during shutdown": when Close *)
(* gives up, no worker is still on a mail it was sending when Close began. *)
InFlightNotAbandoned ==
    [][closer = "waiting" /\ closer' = "expired" =>
          \A w \in Workers : Mailing(w) => timer[w] < closeTimer]_deliveryVars

(* "A hung server cannot leak goroutines": once stopped, every worker ends *)
(* whatever the mail server does, even after Close has given up, unless    *)
(* the process ends first.                                                 *)
WorkersEnd == stopCh ~> gone \/ \A w \in Workers : at[w] = "exited"

(* Every accepted alert is offered to the open database, saved or not;     *)
(* only after Close has given up may it find the database closed, or end   *)
(* with the process.                                                       *)
EventuallyOffered ==
    \A j \in Job :
        j \in accepted ~>
            \/ j \in recorded \cup unsaved
            \/ closer = "expired" /\ (j \in tooLate \/ gone)
=============================================================================
