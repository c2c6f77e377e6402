---------------------------- MODULE AlertPolicy ----------------------------
(***************************************************************************)
(* alerter/alerter.go, the decision half: which of the alert conditions    *)
(* fire on a sample of the collector (shouldFire and its window table      *)
(* conditionStartTimes) and which of those that fire are mailed (send and  *)
(* its table lastSent).  Both tables forget entries older than stateTTL.   *)
(* The queue, the workers and Close are module AlertDelivery.              *)
(*                                                                         *)
(* Only the collector goroutine calls CheckWithConfig, once per sample, so *)
(* one call is one step; a call takes no time on the scale of `now'.       *)
(***************************************************************************)
EXTENDS AlertService, Integers, FiniteSets

CONSTANTS
    Conditions,   \* names of the alert conditions ("cpu", "upload", ...)
    Windowed,     \* those tested by shouldFire with alert.duration; the
                  \* others use shouldFireNow
    Settings,     \* configurations that can be loaded: see ASSUME
    Samples,      \* results of one collection: see ASSUME
    StateTTL,     \* stateTTL
    MaxTime,      \* bound on the clock
    None          \* no entry in a table

ASSUME SettingsAssumption ==
    /\ Windowed \subseteq Conditions
    /\ StateTTL \in Nat /\ MaxTime \in Nat
    /\ None \notin Int
    /\ Settings # {}
    /\ Settings \subseteq [enabled : BOOLEAN,          \* alert.enabled
                           on : SUBSET Conditions,     \* one toggle each
                           duration : Nat, interval : Nat]
    /\ Samples \subseteq [present : SUBSET Conditions, \* metric collected
                          met : SUBSET Conditions]     \* threshold reached

VARIABLES
    now,
    cfg,                  \* the collector's snapshot of the settings
    conditionStartTimes,  \* condition -> start of its window, or None
    lastSent,             \* condition -> time of the last mail, or None
    fired,                \* conditions that fired in the last check
    queued,               \* conditions handed to the mail queue by it
    heldSince,            \* history: first of the samples evaluated as met
                          \* since the condition last fired or was not, or None
    lastMail              \* history: lastSent without forgetting

tables == <<conditionStartTimes, lastSent>>
history == <<heldSince, lastMail>>
vars == <<now, cfg, conditionStartTimes, lastSent, closed, fired, queued,
          heldSince, lastMail>>

Init ==
    /\ now = 0
    /\ cfg \in Settings
    /\ conditionStartTimes = [c \in Conditions |-> None]
    /\ lastSent = [c \in Conditions |-> None]
    /\ closed = FALSE
    /\ fired = {} /\ queued = {}
    /\ heldSince = [c \in Conditions |-> None]
    /\ lastMail = [c \in Conditions |-> None]

-----------------------------------------------------------------------------
(* The conditions whose shouldFire is called for sample m at all.          *)
Evaluated(m) == IF cfg.enabled THEN cfg.on \cap m.present ELSE {}

(* Faulty variant: an entry exactly stateTTL old is forgotten. *)
PrunedAtTTL(table) ==
    [c \in Conditions |->
        IF table[c] # None /\ now - table[c] >= StateTTL THEN None ELSE table[c]]

(* A table without the entries older than stateTTL.                        *)
Pruned(table) ==
    [c \in Conditions |->
        IF table[c] # None /\ now - table[c] > StateTTL THEN None ELSE table[c]]

Duration(c) == IF c \in Windowed THEN cfg.duration ELSE 0

(* What shouldFire answers for a condition that is met, given the pruned   *)
(* windows: without a window it fires only if none is required.            *)
WindowFull(window, c) ==
    IF window[c] = None THEN Duration(c) = 0 ELSE now - window[c] >= Duration(c)

ShouldFire(window, m) == {c \in Evaluated(m) \cap m.met : WindowFull(window, c)}

(* Faulty variant: the window survives the alert it has fired. *)
WindowKept(window, m) ==
    [c \in Conditions |->
        IF c \notin Evaluated(m) THEN window[c]
        ELSE IF c \notin m.met THEN None
        ELSE IF window[c] = None /\ c \notin ShouldFire(window, m) THEN now
        ELSE window[c]]

(* The windows shouldFire leaves: gone when the condition is not met or    *)
(* fires, opened now when it is met for the first time.                    *)
WindowAfter(window, m) ==
    [c \in Conditions |->
        IF c \notin Evaluated(m) THEN window[c]
        ELSE IF c \notin m.met \/ c \in ShouldFire(window, m) THEN None
        ELSE IF window[c] = None THEN now ELSE window[c]]

(* Faulty variant: the throttle compares with an interval of other settings. *)
AdmittedByOtherSettings(sent, f) ==
    IF closed THEN {}
    ELSE {c \in f : \/ sent[c] = None
                    \/ \E s \in Settings : now - sent[c] >= s.interval}

(* Faulty variant: one alert mails every subject that is due. *)
AdmittedUnfired(sent, f) ==
    IF closed \/ f = {} THEN {}
    ELSE {c \in Conditions : sent[c] = None \/ now - sent[c] >= cfg.interval}

(* send: those of the fired conditions the throttle lets through.          *)
Admitted(sent, f) ==
    IF closed THEN {}
    ELSE {c \in f : sent[c] = None \/ now - sent[c] >= cfg.interval}

SentAfter(sent, adm) == [c \in Conditions |-> IF c \in adm THEN now ELSE sent[c]]

(* History: what a window without forgetting would hold.                   *)
HeldAfter(m, f) ==
    [c \in Conditions |->
        IF c \notin Evaluated(m) THEN heldSince[c]
        ELSE IF c \notin m.met \/ c \in f THEN None
        ELSE IF heldSince[c] = None THEN now ELSE heldSince[c]]

-----------------------------------------------------------------------------
CheckWithConfig(m) ==
    LET window == IF Evaluated(m) = {} THEN conditionStartTimes
                  ELSE Pruned(conditionStartTimes)
        f      == ShouldFire(window, m)
        sent   == IF f = {} \/ closed THEN lastSent ELSE Pruned(lastSent)
        adm    == Admitted(sent, f)
    IN  /\ conditionStartTimes' = WindowAfter(window, m)
        /\ lastSent' = SentAfter(sent, adm)
        /\ fired' = f
        /\ queued' = adm
        /\ heldSince' = HeldAfter(m, f)
        /\ lastMail' = SentAfter(lastMail, adm)
        /\ UNCHANGED <<now, cfg, closed>>

(* UpdateSnapshot of the collector, after a configuration change.          *)
UpdateSnapshot ==
    /\ cfg' \in Settings
    /\ fired' = {} /\ queued' = {}
    /\ UNCHANGED <<now, tables, closed, history>>

Close ==
    /\ ~closed
    /\ closed' = TRUE
    /\ fired' = {} /\ queued' = {}
    /\ UNCHANGED <<now, cfg, tables, history>>

Tick ==
    /\ now < MaxTime
    /\ now' = now + 1
    /\ fired' = {} /\ queued' = {}
    /\ UNCHANGED <<cfg, tables, closed, history>>

Next ==
    \/ \E m \in Samples : CheckWithConfig(m)
    \/ UpdateSnapshot
    \/ Close
    \/ Tick

Spec == Init /\ [][Next]_vars

-----------------------------------------------------------------------------
(* Every table entry is a time already past, and a mail needs an alert.    *)
TypeOK ==
    /\ now \in 0..MaxTime
    /\ cfg \in Settings
    /\ conditionStartTimes \in [Conditions -> (0..now) \cup {None}]
    /\ lastSent \in [Conditions -> (0..now) \cup {None}]
    /\ heldSince \in [Conditions -> (0..now) \cup {None}]
    /\ lastMail \in [Conditions -> (0..now) \cup {None}]
    /\ closed \in BOOLEAN
    /\ fired \subseteq Conditions /\ queued \subseteq fired

(* shouldFire's "continuously met for the given duration" and "re-firing   *)
(* requires another full duration window": a windowed condition fires only *)
(* at the end of a run of evaluated samples that were all met, as long as  *)
(* alert.duration and counted from the previous alert.                     *)
WindowSound ==
    [][\A c \in fired' :
          IF heldSince[c] = None THEN Duration(c) = 0
          ELSE now - heldSince[c] >= Duration(c)]_vars

(* The converse: a condition that is still met when its run reaches        *)
(* alert.duration does fire, unless the run is older than stateTTL (then   *)
(* its window has been forgotten).                                         *)
FiresWhenDue ==
    [][\A m \in Samples : CheckWithConfig(m) =>
          \A c \in Evaluated(m) \cap m.met :
             heldSince[c] # None /\ now - heldSince[c] \in Duration(c)..StateTTL
                => c \in fired']_vars

(* "The actual minimum interval between emails is enforced separately in   *)
(* send": AlertPolicy implements the abstract throttle, where the silence  *)
(* of a subject is the time since its last mail and the interval is that   *)
(* of the settings in force.  It implements it with Memory = stateTTL: an  *)
(* interval above stateTTL, which the configuration accepts, is not kept,  *)
(* since send has forgotten the mail by then.                              *)
Throttle == INSTANCE AlertThrottle WITH
    Subjects <- Conditions,
    Intervals <- {s.interval : s \in Settings},
    Memory <- StateTTL,
    interval <- cfg.interval,
    silence <- [c \in Conditions |->
                  IF lastMail[c] = None \/ now - lastMail[c] > StateTTL
                  THEN StateTTL + 1 ELSE now - lastMail[c]],
    mailed <- queued

ThrottleSpec == Throttle!Spec

=============================================================================
