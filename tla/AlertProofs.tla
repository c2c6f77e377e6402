---------------------------- MODULE AlertProofs ----------------------------
(***************************************************************************)
(* Theorems about the two halves of the alert service: the decisions of    *)
(* AlertPolicy, for every set of conditions, settings and samples and      *)
(* every stateTTL; and their delivery, AlertDelivery, for every number of  *)
(* workers and jobs, every size of the queue and every choice of the       *)
(* timeouts.  Each theorem is about the specification of one half; the     *)
(* flag closed is the one variable that both have.                         *)
(***************************************************************************)
EXTENDS AlertPolicy, AlertDelivery, SequenceTheorems, TLAPS

-----------------------------------------------------------------------------
(* The decisions: AlertPolicy.                                             *)

(* The facts about the constants and the current settings every proof uses.*)
LEMMA SettingsType ==
    ASSUME cfg \in Settings
    PROVE  /\ cfg.enabled \in BOOLEAN
           /\ cfg.on \subseteq Conditions
           /\ cfg.duration \in Nat
           /\ cfg.interval \in Nat
  BY SettingsAssumption

(* Pruning keeps a table of past times a table of past times.              *)
LEMMA PrunedType ==
    ASSUME NEW table \in [Conditions -> (0..now) \cup {None}]
    PROVE  Pruned(table) \in [Conditions -> (0..now) \cup {None}]
  BY DEF Pruned

(* Time only adds to the past.                                             *)
LEMMA PastGrows ==
    ASSUME now \in Nat, NEW table \in [Conditions -> (0..now) \cup {None}]
    PROVE  table \in [Conditions -> (0..(now + 1)) \cup {None}]
  <1>1. 0..now \subseteq 0..(now + 1)
    OBVIOUS
  <1> QED BY <1>1

(* Every table entry is a time already past, and a mail needs an alert.    *)
THEOREM TypeCorrect == Spec => []TypeOK
<1>1. Init => TypeOK
  <2> SUFFICES ASSUME Init
               PROVE  TypeOK
    OBVIOUS
  <2>1. now \in 0..MaxTime
    BY SettingsAssumption DEF Init
  <2>2. [c \in Conditions |-> None] \in [Conditions -> (0..now) \cup {None}]
    OBVIOUS
  <2> QED BY <2>1, <2>2 DEF Init, TypeOK
<1>2. TypeOK /\ [Next]_vars => TypeOK'
  <2> SUFFICES ASSUME TypeOK, [Next]_vars
               PROVE  TypeOK'
    OBVIOUS
  <2>0. now \in Nat /\ now <= MaxTime /\ MaxTime \in Nat /\ now \in 0..now
    BY SettingsAssumption DEF TypeOK
  <2>1. ASSUME NEW m \in Samples, CheckWithConfig(m)
        PROVE  TypeOK'
    <3> DEFINE window == IF Evaluated(m) = {} THEN conditionStartTimes
                         ELSE Pruned(conditionStartTimes)
               f    == ShouldFire(window, m)
               sent == IF f = {} \/ closed THEN lastSent ELSE Pruned(lastSent)
               adm  == Admitted(sent, f)
    <3>1. window \in [Conditions -> (0..now) \cup {None}]
      BY PrunedType DEF TypeOK
    <3>2. sent \in [Conditions -> (0..now) \cup {None}]
      BY PrunedType DEF TypeOK
    <3>3. Evaluated(m) \subseteq Conditions
      BY SettingsType DEF Evaluated, TypeOK
    <3>4. f \subseteq Conditions /\ adm \subseteq f
      BY <3>3 DEF ShouldFire, Admitted
    <3>5. conditionStartTimes' = WindowAfter(window, m)
          /\ lastSent' = SentAfter(sent, adm)
          /\ heldSince' = HeldAfter(m, f)
          /\ lastMail' = SentAfter(lastMail, adm)
          /\ fired' = f /\ queued' = adm
          /\ UNCHANGED <<now, cfg, closed>>
      BY <2>1 DEF CheckWithConfig
    <3> HIDE DEF window, f, sent, adm
    <3>6. conditionStartTimes' \in [Conditions -> (0..now') \cup {None}]
      BY <2>0, <3>1, <3>5 DEF WindowAfter
    <3>7. lastSent' \in [Conditions -> (0..now') \cup {None}]
      BY <2>0, <3>2, <3>5 DEF SentAfter
    <3>8. lastMail' \in [Conditions -> (0..now') \cup {None}]
      BY <2>0, <3>5 DEF SentAfter, TypeOK
    <3>9. heldSince' \in [Conditions -> (0..now') \cup {None}]
      BY <2>0, <3>5 DEF HeldAfter, TypeOK
    <3> QED BY <3>4, <3>5, <3>6, <3>7, <3>8, <3>9 DEF TypeOK
  <2>2. CASE UpdateSnapshot
    BY <2>2 DEF UpdateSnapshot, TypeOK, tables, history
  <2>3. CASE Close
    BY <2>3 DEF Close, TypeOK, tables, history
  <2>4. CASE Tick
    BY <2>0, <2>4, PastGrows DEF Tick, TypeOK, tables, history
  <2>5. CASE UNCHANGED vars
    BY <2>5 DEF vars, TypeOK
  <2> QED BY <2>1, <2>2, <2>3, <2>4, <2>5 DEF Next
<1> QED BY <1>1, <1>2, PTL DEF Spec

-----------------------------------------------------------------------------
(* What lastSent has forgotten was mailed longer than stateTTL ago.        *)
Forgotten(c) ==
    lastSent[c] = None /\ lastMail[c] # None /\ now - lastMail[c] > StateTTL
MailMemory == \A c \in Conditions : lastSent[c] = lastMail[c] \/ Forgotten(c)

(* Before the first mail there is nothing to forget.                       *)
LEMMA MailMemoryInit ==
    ASSUME Init PROVE MailMemory
  BY DEF Init, MailMemory

(* A check keeps the relation: what it prunes is old enough, and what it   *)
(* mails is entered in both tables.                                        *)
LEMMA MailMemoryCheck ==
    ASSUME TypeOK, MailMemory, NEW m \in Samples, CheckWithConfig(m)
    PROVE  MailMemory'
<1> DEFINE window == IF Evaluated(m) = {} THEN conditionStartTimes
                     ELSE Pruned(conditionStartTimes)
           f    == ShouldFire(window, m)
           sent == IF f = {} \/ closed THEN lastSent ELSE Pruned(lastSent)
           adm  == Admitted(sent, f)
<1>1. lastSent' = SentAfter(sent, adm) /\ lastMail' = SentAfter(lastMail, adm)
      /\ now' = now
  BY DEF CheckWithConfig
<1>2. ASSUME NEW c \in Conditions
      PROVE  sent[c] = lastMail[c] \/
             (sent[c] = None /\ lastMail[c] # None /\ now - lastMail[c] > StateTTL)
  BY DEF MailMemory, Forgotten, Pruned, TypeOK
<1> HIDE DEF window, f, sent, adm
<1> QED BY <1>1, <1>2 DEF MailMemory, Forgotten, SentAfter

(* MailMemory is inductive with the types.                                 *)
LEMMA MailMemoryNext ==
    ASSUME TypeOK, MailMemory, [Next]_vars
    PROVE  MailMemory'
<1>1. CASE \E m \in Samples : CheckWithConfig(m)
  BY <1>1, MailMemoryCheck
<1>2. CASE UpdateSnapshot \/ Close \/ UNCHANGED vars
  BY <1>2 DEF UpdateSnapshot, Close, vars, tables, history, MailMemory, Forgotten
<1>3. CASE Tick
  <2>1. now' = now + 1 /\ lastSent' = lastSent /\ lastMail' = lastMail
    BY <1>3 DEF Tick, tables, history
  <2>2. now \in Int /\ StateTTL \in Int
        /\ \A c \in Conditions : lastMail[c] # None => lastMail[c] \in Int
    BY SettingsAssumption DEF TypeOK
  <2> QED BY <2>1, <2>2 DEF MailMemory, Forgotten
<1> QED BY <1>1, <1>2, <1>3 DEF Next

(* lastSent and the true time of the last mail differ only by what is      *)
(* older than stateTTL.                                                    *)
THEOREM MailMemoryInvariant == Spec => []MailMemory
<1>1. TypeOK /\ MailMemory /\ [Next]_vars => MailMemory'
  BY MailMemoryNext
<1> QED BY <1>1, MailMemoryInit, TypeCorrect, PTL DEF Spec

(* The silence of the abstract throttle, of the mail times and the clock.  *)
Silence(mail, t) ==
    [c \in Conditions |->
        IF mail[c] = None \/ t - mail[c] > StateTTL
        THEN StateTTL + 1 ELSE t - mail[c]]

(* A check mails only conditions silent for the interval in force, or for  *)
(* longer than stateTTL.                                                   *)
LEMMA CheckMails ==
    ASSUME TypeOK, MailMemory,
           NEW m \in Samples, CheckWithConfig(m),
           NEW ss, ss = queued'
    PROVE  Throttle!Mail(ss)
<1> DEFINE window == IF Evaluated(m) = {} THEN conditionStartTimes
                     ELSE Pruned(conditionStartTimes)
           f    == ShouldFire(window, m)
           sent == IF f = {} \/ closed THEN lastSent ELSE Pruned(lastSent)
           adm  == Admitted(sent, f)
<1>1. /\ lastMail' = SentAfter(lastMail, adm) /\ queued' = adm
      /\ now' = now /\ cfg' = cfg
  BY DEF CheckWithConfig
<1>2. adm \subseteq Conditions
  BY SettingsType DEF Admitted, ShouldFire, Evaluated, TypeOK
<1>3. cfg.interval \in Nat /\ StateTTL \in Nat /\ now \in Nat /\ None \notin Int
  BY SettingsType, SettingsAssumption DEF TypeOK
<1>4. ASSUME NEW c \in adm
      PROVE  \/ Silence(lastMail, now)[c] >= cfg.interval
             \/ Silence(lastMail, now)[c] > StateTTL
  <2>1. sent[c] = None \/ now - sent[c] >= cfg.interval
    BY DEF Admitted
  <2>2. sent[c] = lastMail[c] \/
        (sent[c] = None /\ lastMail[c] # None /\ now - lastMail[c] > StateTTL)
    BY <1>2 DEF MailMemory, Forgotten, Pruned, TypeOK
  <2>3. lastMail[c] = None \/ lastMail[c] \in Nat
    BY <1>2 DEF TypeOK
  <2> HIDE DEF sent, adm
  <2> QED BY <1>2, <1>3, <2>1, <2>2, <2>3 DEF Silence
<1>5. Silence(lastMail', now') =
      [c \in Conditions |-> IF c \in adm THEN 0 ELSE Silence(lastMail, now)[c]]
  <2> HIDE DEF adm
  <2> QED BY <1>1, <1>2, <1>3 DEF Silence, SentAfter
<1> QED BY <1>1, <1>4, <1>5 DEF Throttle!Mail, Silence

(* AlertPolicy implements AlertThrottle, for every set of settings: within *)
(* stateTTL of a mail the next one about its condition waits for the       *)
(* interval in force.                                                      *)
THEOREM ThrottleRefinement == Spec => ThrottleSpec
<1>1. Init => Throttle!Init
  BY DEF Init, Throttle!Init
<1>2. TypeOK /\ MailMemory /\ [Next]_vars => [Throttle!Next]_(Throttle!throttleVars)
  <2> SUFFICES ASSUME TypeOK, MailMemory, [Next]_vars
               PROVE  [Throttle!Next]_(Throttle!throttleVars)
    OBVIOUS
  <2>1. CASE \E m \in Samples : CheckWithConfig(m)
    <3>1. PICK m \in Samples : CheckWithConfig(m)
      BY <2>1
    <3>2. PICK ss : ss = queued'
      OBVIOUS
    <3>3. ss \in SUBSET Conditions
      BY <3>1, <3>2, SettingsType
         DEF CheckWithConfig, Admitted, ShouldFire, Evaluated, TypeOK
    <3>4. Throttle!Mail(ss)
      BY <3>1, <3>2, CheckMails
    <3> QED BY <3>3, <3>4 DEF Throttle!Next
  <2>2. CASE UpdateSnapshot
    <3>1. cfg'.interval \in {s.interval : s \in Settings}
      BY <2>2 DEF UpdateSnapshot
    <3>2. Throttle!Reconfigure
      BY <2>2, <3>1 DEF Throttle!Reconfigure, UpdateSnapshot, history
    <3> QED BY <3>2 DEF Throttle!Next
  <2>3. CASE Close
    <3>1. Throttle!Mail({})
      BY <2>3 DEF Throttle!Mail, Close, history
    <3> QED BY <3>1 DEF Throttle!Next
  <2>4. CASE Tick
    <3>1. now' = now + 1 /\ lastMail' = lastMail /\ queued' = {} /\ cfg' = cfg
      BY <2>4 DEF Tick, history
    <3>2. StateTTL \in Nat /\ now \in Nat /\ None \notin Int
          /\ \A c \in Conditions : lastMail[c] = None \/ lastMail[c] \in 0..now
      BY SettingsAssumption DEF TypeOK
    <3>3. Throttle!Pass
      BY <3>1, <3>2 DEF Throttle!Pass
    <3> QED BY <3>3 DEF Throttle!Next
  <2>5. CASE UNCHANGED vars
    BY <2>5 DEF vars, Throttle!throttleVars
  <2> QED BY <2>1, <2>2, <2>3, <2>4, <2>5 DEF Next
<1> QED
  BY <1>1, <1>2, TypeCorrect, MailMemoryInvariant, PTL
     DEF Spec, ThrottleSpec, Throttle!Spec

-----------------------------------------------------------------------------
(* The window of a condition is its run of evaluated samples that were met,*)
(* or, once that run is older than stateTTL, a later part of it.           *)
WindowOf(start, held, t) ==
    /\ start # None => held # None /\ held <= start
    /\ held # None => start = held \/ t - held > StateTTL
WindowMemory ==
    \A c \in Conditions : WindowOf(conditionStartTimes[c], heldSince[c], now)

(* One sample, for a condition that is evaluated or not.                   *)
LEMMA OneSample ==
    ASSUME TypeOK, WindowMemory, NEW m \in Samples, CheckWithConfig(m),
           NEW c \in Conditions
    PROVE  /\ WindowOf(conditionStartTimes'[c], heldSince'[c], now')
           /\ c \in fired' =>
                IF heldSince[c] = None THEN Duration(c) = 0
                ELSE now - heldSince[c] >= Duration(c)
           /\ c \in Evaluated(m) \cap m.met /\ heldSince[c] # None
                /\ now - heldSince[c] \in Duration(c)..StateTTL => c \in fired'
<1> DEFINE window == IF Evaluated(m) = {} THEN conditionStartTimes
                     ELSE Pruned(conditionStartTimes)
           f == ShouldFire(window, m)
<1>1. /\ c \in Evaluated(m) =>
            window[c] = IF conditionStartTimes[c] # None
                           /\ now - conditionStartTimes[c] > StateTTL
                        THEN None ELSE conditionStartTimes[c]
      /\ window[c] = conditionStartTimes[c] \/
            (window[c] = None /\ conditionStartTimes[c] # None
             /\ now - conditionStartTimes[c] > StateTTL)
  BY DEF Pruned
<1>2. conditionStartTimes' = WindowAfter(window, m)
      /\ heldSince' = HeldAfter(m, f) /\ fired' = f /\ now' = now
  BY DEF CheckWithConfig
<1>3. /\ now \in Int /\ StateTTL \in Nat /\ None \notin Int
      /\ conditionStartTimes[c] = None \/ conditionStartTimes[c] \in 0..now
      /\ heldSince[c] = None \/ heldSince[c] \in 0..now
      /\ Duration(c) \in Nat
  BY SettingsAssumption, SettingsType DEF TypeOK, Duration
<1>4. WindowOf(conditionStartTimes[c], heldSince[c], now)
  BY DEF WindowMemory
<1>5. window[c] = None \/ window[c] \in 0..now
  BY <1>1, <1>3
<1> HIDE DEF window
<1>6. c \in f <=> c \in Evaluated(m) /\ c \in m.met /\ WindowFull(window, c)
  BY DEF ShouldFire
<1> HIDE DEF f
<1>7. CASE c \notin Evaluated(m)
  <2>1. conditionStartTimes'[c] = window[c] /\ heldSince'[c] = heldSince[c]
    BY <1>2, <1>7 DEF WindowAfter, HeldAfter
  <2>2. WindowOf(window[c], heldSince[c], now)
    BY <1>1, <1>3, <1>4 DEF WindowOf
  <2> QED BY <1>2, <1>6, <1>7, <2>1, <2>2
<1>8. CASE c \in Evaluated(m)
  <2>1. /\ conditionStartTimes'[c] =
              IF c \notin m.met \/ c \in f THEN None
              ELSE IF window[c] = None THEN now ELSE window[c]
        /\ heldSince'[c] = IF c \notin m.met \/ c \in f THEN None
                           ELSE IF heldSince[c] = None THEN now ELSE heldSince[c]
    BY <1>2, <1>8 DEF WindowAfter, HeldAfter, f
  <2>2. WindowOf(conditionStartTimes'[c], heldSince'[c], now')
    BY <1>1, <1>2, <1>3, <1>4, <1>5, <1>6, <1>8, <2>1 DEF WindowOf
  <2>3. c \in fired' => IF heldSince[c] = None THEN Duration(c) = 0
                         ELSE now - heldSince[c] >= Duration(c)
    BY <1>1, <1>2, <1>3, <1>4, <1>5, <1>6, <1>8 DEF WindowOf, WindowFull
  <2>4. c \in m.met /\ heldSince[c] # None
          /\ now - heldSince[c] \in Duration(c)..StateTTL => c \in fired'
    BY <1>1, <1>2, <1>3, <1>4, <1>5, <1>6, <1>8 DEF WindowOf, WindowFull
  <2> QED BY <2>2, <2>3, <2>4
<1> QED BY <1>7, <1>8

(* WindowMemory is inductive with the types.                               *)
LEMMA WindowMemoryNext ==
    ASSUME TypeOK, WindowMemory, [Next]_vars
    PROVE  WindowMemory'
<1>1. CASE \E m \in Samples : CheckWithConfig(m)
  BY <1>1, OneSample DEF WindowMemory
<1>2. CASE UpdateSnapshot \/ Close \/ UNCHANGED vars
  BY <1>2 DEF UpdateSnapshot, Close, vars, tables, history, WindowMemory
<1>3. CASE Tick
  <2>1. now' = now + 1 /\ conditionStartTimes' = conditionStartTimes
        /\ heldSince' = heldSince
    BY <1>3 DEF Tick, tables, history
  <2>2. now \in Int /\ StateTTL \in Int
        /\ \A c \in Conditions : heldSince[c] # None => heldSince[c] \in Int
    BY SettingsAssumption DEF TypeOK
  <2> QED BY <2>1, <2>2 DEF WindowMemory, WindowOf
<1> QED BY <1>1, <1>2, <1>3 DEF Next

(* conditionStartTimes never holds a window that began before the run of   *)
(* met samples.                                                            *)
THEOREM WindowMemoryInvariant == Spec => []WindowMemory
<1>1. Init => WindowMemory
  BY DEF Init, WindowMemory, WindowOf
<1>2. TypeOK /\ WindowMemory /\ [Next]_vars => WindowMemory'
  BY WindowMemoryNext
<1> QED BY <1>1, <1>2, TypeCorrect, PTL DEF Spec

(* shouldFire's window is never too short, whatever is switched off, missed *)
(* or forgotten: an alert fires only at the end of a run of evaluated      *)
(* samples that were all met, as long as alert.duration.                   *)
THEOREM WindowSoundness == Spec => WindowSound
<1> DEFINE Sound == \A c \in fired' : IF heldSince[c] = None THEN Duration(c) = 0
                                      ELSE now - heldSince[c] >= Duration(c)
<1>1. TypeOK /\ WindowMemory /\ [Next]_vars => [Sound]_vars
  <2> SUFFICES ASSUME TypeOK, WindowMemory, [Next]_vars PROVE [Sound]_vars
    OBVIOUS
  <2>1. CASE \E m \in Samples : CheckWithConfig(m)
    <3>1. PICK m \in Samples : CheckWithConfig(m)
      BY <2>1
    <3>2. fired' \subseteq Conditions
      BY <3>1, SettingsType DEF CheckWithConfig, ShouldFire, Evaluated, TypeOK
    <3> QED BY <3>1, <3>2, OneSample
  <2>2. CASE UpdateSnapshot \/ Close \/ Tick
    BY <2>2 DEF UpdateSnapshot, Close, Tick
  <2> QED BY <2>1, <2>2 DEF Next
<1> QED BY <1>1, TypeCorrect, WindowMemoryInvariant, PTL DEF Spec, WindowSound

(* And shouldFire does fire then, unless the run is older than stateTTL.   *)
THEOREM WindowCompleteness == Spec => FiresWhenDue
<1> DEFINE Due == \A m \in Samples : CheckWithConfig(m) =>
                    \A c \in Evaluated(m) \cap m.met :
                      heldSince[c] # None
                      /\ now - heldSince[c] \in Duration(c)..StateTTL
                         => c \in fired'
<1>1. TypeOK /\ WindowMemory => Due
  BY OneSample, SettingsType DEF Evaluated, TypeOK
<1> QED BY <1>1, TypeCorrect, WindowMemoryInvariant, PTL DEF Spec, FiresWhenDue

-----------------------------------------------------------------------------
(* Their delivery: AlertDelivery.                                          *)

(* Where a worker is tells whether it has a job, how far that job is, and  *)
(* what it knows of the shutdown.                                          *)
WorkerInv(w) ==
    /\ job[w] = NoJob <=> at[w] \in {"select", "drain", "exited"}
    /\ Mailing(w) => /\ job[w] \in recorded \cup unsaved \cup tooLate
                     /\ timer[w] <= deadline[w]
    /\ at[w] = "dial" => deadline[w] = DialTimeout
    /\ at[w] = "drain" => draining[w]
    /\ draining[w] => stopCh
    /\ at[w] = "exited" => stopCh /\ jobs = <<>>

(* Close runs after the collector has stopped and ends after the pool; the *)
(* database closes after it, and a worker can meet it closed only if Close *)
(* gave up.                                                                *)
CloseInv ==
    /\ stopCh <=> closer \in {"waiting", "done", "expired"}
    /\ closer # "open" => sender = "stopped"
    /\ closer = "done" => \A w \in Workers : at[w] = "exited"
    /\ db = "closed" => closer \in {"done", "expired"}
    /\ tooLate # {} => closer = "expired"

(* Jobs are accepted in the order of their numbers.                        *)
AcceptInv ==
    /\ accepted \subseteq 1..(nextJob - 1)
    /\ sender = "holding" => nextJob \in Job

DeliveryInv ==
    /\ DeliveryTypeOK
    /\ \A w \in Workers : WorkerInv(w)
    /\ CloseInv
    /\ AcceptInv
    /\ JobsAccounted

-----------------------------------------------------------------------------
(* Receiving from a channel without duplicates removes its first job.      *)
LEMMA TakeFirst ==
    ASSUME NEW s \in Seq(Job), s # <<>>, IsInjective(s)
    PROVE  /\ Head(s) \in Job /\ Tail(s) \in Seq(Job)
           /\ Len(Tail(s)) = Len(s) - 1
           /\ ToSet(s) = ToSet(Tail(s)) \cup {Head(s)}
           /\ Head(s) \notin ToSet(Tail(s))
           /\ IsInjective(Tail(s))
<1>1. /\ Head(s) \in Job /\ Tail(s) \in Seq(Job)
      /\ Len(s) \in Nat \ {0}
      /\ Len(Tail(s)) = Len(s) - 1
      /\ DOMAIN s = 1..Len(s)
      /\ DOMAIN Tail(s) = 1..(Len(s) - 1)
      /\ s[1] = Head(s)
      /\ \A i \in 1..(Len(s) - 1) : Tail(s)[i] = s[i + 1]
  BY HeadTailProperties, LenProperties
<1>2. Head(s) \notin ToSet(Tail(s))
  BY <1>1 DEF ToSet, IsInjective
<1>3. IsInjective(Tail(s))
  BY <1>1 DEF IsInjective
<1>4. ToSet(s) = ToSet(Tail(s)) \cup {Head(s)}
  <2>1. ASSUME NEW i \in 1..Len(s)
        PROVE  s[i] \in ToSet(Tail(s)) \cup {Head(s)}
    <3>1. CASE i = 1
      BY <3>1, <1>1
    <3>2. CASE i # 1
      <4>1. i - 1 \in 1..(Len(s) - 1) /\ (i - 1) + 1 = i
        BY <3>2, <1>1
      <4>2. Tail(s)[i - 1] = s[i]
        BY <4>1, <1>1
      <4> QED BY <4>1, <4>2, <1>1 DEF ToSet
    <3> QED BY <3>1, <3>2
  <2>2. ASSUME NEW i \in 1..(Len(s) - 1)
        PROVE  Tail(s)[i] \in ToSet(s)
    <3>1. i + 1 \in 1..Len(s) /\ Tail(s)[i] = s[i + 1]
      BY <1>1
    <3> QED BY <3>1, <1>1 DEF ToSet
  <2>3. Head(s) \in ToSet(s)
    BY <1>1 DEF ToSet
  <2> QED BY <2>1, <2>2, <2>3, <1>1 DEF ToSet
<1> QED BY <1>1, <1>2, <1>3, <1>4

(* Sending a job that is not in the channel adds it, once.                 *)
LEMMA AppendNew ==
    ASSUME NEW s \in Seq(Job), IsInjective(s),
           NEW j \in Job, j \notin ToSet(s)
    PROVE  /\ Append(s, j) \in Seq(Job)
           /\ Len(Append(s, j)) = Len(s) + 1
           /\ ToSet(Append(s, j)) = ToSet(s) \cup {j}
           /\ IsInjective(Append(s, j))
<1>1. /\ Append(s, j) \in Seq(Job)
      /\ Len(s) \in Nat
      /\ Len(Append(s, j)) = Len(s) + 1
      /\ DOMAIN s = 1..Len(s)
      /\ DOMAIN Append(s, j) = 1..(Len(s) + 1)
      /\ \A i \in 1..Len(s) : Append(s, j)[i] = s[i]
      /\ Append(s, j)[Len(s) + 1] = j
  BY AppendProperties, LenProperties
<1>2. ToSet(Append(s, j)) = ToSet(s) \cup {j}
  BY <1>1 DEF ToSet
<1>3. IsInjective(Append(s, j))
  BY <1>1 DEF ToSet, IsInjective
<1> QED BY <1>1, <1>2, <1>3

-----------------------------------------------------------------------------
(* A new service satisfies the invariant.                                  *)
LEMMA DeliveryInvInit ==
    ASSUME DeliveryInit PROVE DeliveryInv
<1>1. /\ NoJob \notin Nat /\ QueueSize \in Nat /\ MaxJobs \in Nat
      /\ DialTimeout \in Nat /\ OverallTimeout \in Nat /\ CloseTimeout \in Nat
  BY DeliveryAssumption
<1>2. /\ ToSet(jobs) = {} /\ IsInjective(jobs)
      /\ Len(jobs) = 0 /\ jobs \in Seq(Job)
  BY DEF DeliveryInit, ToSet, IsInjective
<1>3. DeliveryTypeOK
  <2>1. 1 \in 1..(MaxJobs + 1) /\ 0 \in 0..CloseTimeout
        /\ 0 \in 0..(DialTimeout + OverallTimeout)
    BY <1>1
  <2>2. timer \in [Workers -> 0..(DialTimeout + OverallTimeout)]
        /\ deadline \in [Workers -> 0..(DialTimeout + OverallTimeout)]
    BY <2>1 DEF DeliveryInit
  <2>3. nextJob \in 1..(MaxJobs + 1) /\ closeTimer \in 0..CloseTimeout
    BY <2>1 DEF DeliveryInit
  <2>4. jobs \in Seq(Job) /\ Len(jobs) <= QueueSize
    BY <1>1, <1>2
  <2>5. at \in [Workers -> {"select", "drain", "notify", "dial", "smtp",
  "exited"}]
        /\ job \in [Workers -> Job \cup {NoJob}]
        /\ draining \in [Workers -> BOOLEAN]
    BY DEF DeliveryInit
  <2> QED BY <2>2, <2>3, <2>4, <2>5 DEF DeliveryInit, DeliveryTypeOK
<1>4. \A w \in Workers : WorkerInv(w)
  BY DEF DeliveryInit, WorkerInv, Mailing
<1>5. CloseInv
  BY DEF DeliveryInit, CloseInv
<1>6. AcceptInv
  BY DEF DeliveryInit, AcceptInv
<1>7. Hands = {}
  BY DEF DeliveryInit, Hands
<1>8. JobsAccounted
  BY <1>2, <1>7 DEF DeliveryInit, JobsAccounted
<1> QED BY <1>3, <1>4, <1>5, <1>6, <1>8 DEF DeliveryInv

(* A step that leaves the jobs where they are keeps them accounted for.    *)
LEMMA JobsUnmoved ==
    ASSUME JobsAccounted, UNCHANGED <<accepted, jobs, job, handled>>
    PROVE  JobsAccounted'
  BY DEF JobsAccounted, Hands

(* The collector takes a mail in hand.                                     *)
LEMMA AdmitInv ==
    ASSUME DeliveryInv, Admit
    PROVE  DeliveryInv'
<1> USE DEF Admit, closeVars, workVars, baseVars, saveVars
<1>1. DeliveryTypeOK'
  BY DEF DeliveryInv, DeliveryTypeOK
<1>2. \A w \in Workers : WorkerInv(w)'
  BY DEF DeliveryInv, WorkerInv, Mailing
<1>3. CloseInv'
  BY DEF DeliveryInv, CloseInv
<1>4. AcceptInv'
  BY DeliveryAssumption DEF DeliveryInv, AcceptInv, DeliveryTypeOK, Job
<1>5. JobsAccounted'
  BY JobsUnmoved DEF DeliveryInv
<1> QED BY <1>1, <1>2, <1>3, <1>4, <1>5 DEF DeliveryInv

(* And puts it in the channel, or drops it when the channel is full.       *)
LEMMA EnqueueInv ==
    ASSUME DeliveryInv, Enqueue
    PROVE  DeliveryInv'
<1> USE DEF closeVars, workVars, baseVars, saveVars
<1>1. /\ nextJob \in Job /\ nextJob \in Nat /\ nextJob \notin accepted
      /\ MaxJobs \in Nat /\ nextJob + 1 \in 1..(MaxJobs + 1)
      /\ accepted \subseteq 1..nextJob
  BY DeliveryAssumption
     DEF DeliveryInv, AcceptInv, Enqueue, DeliveryTypeOK, Job
<1>2. /\ jobs \in Seq(Job) /\ IsInjective(jobs)
      /\ ToSet(jobs) \subseteq accepted
      /\ Len(jobs) \in Nat /\ QueueSize \in Nat
  BY DeliveryAssumption, LenProperties
     DEF DeliveryInv, DeliveryTypeOK, JobsAccounted
<1>3. CASE Len(jobs) < QueueSize /\ jobs' = Append(jobs, nextJob)
           /\ accepted' = accepted \cup {nextJob}
  <2>1. /\ jobs' \in Seq(Job) /\ Len(jobs') = Len(jobs) + 1
        /\ ToSet(jobs') = ToSet(jobs) \cup {nextJob}
        /\ IsInjective(jobs')
    BY <1>1, <1>2, <1>3, AppendNew
  <2>2. DeliveryTypeOK'
    BY <1>1, <1>2, <1>3, <2>1 DEF DeliveryInv, DeliveryTypeOK, Enqueue
  <2>3. AcceptInv'
    <3>1. nextJob' = nextJob + 1 /\ nextJob' - 1 = nextJob /\ sender' = "idle"
      BY <1>1 DEF Enqueue
    <3>2. 1..(nextJob' - 1) = 1..nextJob
      BY <3>1
    <3>3. accepted' \subseteq 1..nextJob
      BY <1>1, <1>3 DEF Job
    <3> QED BY <3>1, <3>2, <3>3 DEF AcceptInv
  <2>4. JobsAccounted'
    <3>1. Hands' = Hands /\ handled' = handled
      BY DEF Enqueue, Hands
    <3>2. nextJob \notin Hands \cup handled
      BY <1>1 DEF DeliveryInv, JobsAccounted
    <3>3. job' = job
      BY DEF Enqueue
    <3> QED BY <1>3, <2>1, <3>1, <3>2, <3>3 DEF DeliveryInv, JobsAccounted
  <2>5. \A w \in Workers : WorkerInv(w)'
    BY DEF DeliveryInv, WorkerInv, Mailing, CloseInv, Enqueue
  <2>6. CloseInv'
    BY DEF DeliveryInv, CloseInv, Enqueue
  <2> QED BY <2>2, <2>3, <2>4, <2>5, <2>6 DEF DeliveryInv
<1>4. CASE UNCHANGED <<jobs, accepted>>
  <2>1. DeliveryTypeOK'
    BY <1>1, <1>4 DEF DeliveryInv, DeliveryTypeOK, Enqueue
  <2>2. AcceptInv'
    BY <1>1, <1>4 DEF AcceptInv, Enqueue
  <2>3. JobsAccounted'
    BY <1>4, JobsUnmoved DEF DeliveryInv, Enqueue
  <2>4. \A w \in Workers : WorkerInv(w)'
    BY <1>4 DEF DeliveryInv, WorkerInv, Mailing, Enqueue
  <2>5. CloseInv'
    BY DEF DeliveryInv, CloseInv, Enqueue
  <2> QED BY <2>1, <2>2, <2>3, <2>4, <2>5 DEF DeliveryInv
<1> QED BY <1>3, <1>4 DEF Enqueue

(* The collector stops, Close runs and main ends.                          *)
LEMMA StopInv ==
    ASSUME DeliveryInv,
           StopCollector \/ CloseMark \/ CloseStep \/ CloseDB \/ Exit
    PROVE  DeliveryInv'
<1> USE DEF StopCollector, CloseMark, CloseStep, CloseStop, CloseDone,
            CloseExpire, CloseDB, Exit, sendVars, closeVars, workVars, baseVars,
            saveVars
<1>1. DeliveryTypeOK'
  BY DEF DeliveryInv, DeliveryTypeOK
<1>2. \A w \in Workers : WorkerInv(w)'
  BY DEF DeliveryInv, WorkerInv, Mailing
<1>3. CloseInv'
  BY DEF DeliveryInv, CloseInv
<1>4. AcceptInv'
  BY DEF DeliveryInv, AcceptInv
<1>5. JobsAccounted'
  BY JobsUnmoved DEF DeliveryInv
<1> QED BY <1>1, <1>2, <1>3, <1>4, <1>5 DEF DeliveryInv

-----------------------------------------------------------------------------
(* A worker's own step disturbs only what is said of that worker.          *)
LEMMA TakeInv ==
    ASSUME DeliveryInv, NEW w \in Workers, Take(w)
    PROVE  DeliveryInv'
<1> USE DEF sendVars, closeVars, baseVars, saveVars
<1>1. /\ job[w] = NoJob /\ NoJob \notin Job
      /\ jobs \in Seq(Job) /\ jobs # <<>> /\ IsInjective(jobs)
      /\ Len(jobs) \in Nat /\ QueueSize \in Nat /\ Len(jobs) <= QueueSize
  BY DeliveryAssumption, LenProperties
     DEF DeliveryInv, WorkerInv, Take, DeliveryTypeOK, JobsAccounted, Job
<1>2. /\ Head(jobs) \in Job /\ jobs' \in Seq(Job)
      /\ Len(jobs') = Len(jobs) - 1
      /\ ToSet(jobs) = ToSet(jobs') \cup {Head(jobs)}
      /\ Head(jobs) \notin ToSet(jobs')
      /\ IsInjective(jobs')
  BY <1>1, TakeFirst DEF Take
<1>3. DeliveryTypeOK'
  BY <1>1, <1>2 DEF DeliveryInv, DeliveryTypeOK, Take
<1>4. \A v \in Workers : WorkerInv(v)'
  BY <1>1, <1>2 DEF DeliveryInv, WorkerInv, Mailing, Take, DeliveryTypeOK
<1>5. CloseInv'
  BY DEF DeliveryInv, CloseInv, Take
<1>6. AcceptInv'
  BY DEF DeliveryInv, AcceptInv, Take
<1>7. JobsAccounted'
  <2>1. \A v \in Workers : job'[v] = IF v = w THEN Head(jobs) ELSE job[v]
    BY DEF DeliveryInv, DeliveryTypeOK, Take
  <2>2. Hands' = Hands \cup {Head(jobs)}
    BY <1>1, <1>2, <2>1 DEF Hands
  <2>3. \A v \in Workers : job[v] # NoJob => job[v] \in Hands
    BY DEF Hands
  <2>4. accepted' = accepted /\ handled' = handled
    BY DEF Take
  <2>5. Head(jobs) \notin Hands \cup handled
    BY <1>2 DEF DeliveryInv, JobsAccounted
  <2> QED BY <1>1, <1>2, <2>1, <2>2, <2>3, <2>4, <2>5
             DEF DeliveryInv, JobsAccounted
<1> QED BY <1>3, <1>4, <1>5, <1>6, <1>7 DEF DeliveryInv

(* A worker moves between its places without taking or finishing a job.    *)
LEMMA MoveInv ==
    ASSUME DeliveryInv, NEW w \in Workers,
           SeeStop(w) \/ DrainEmpty(w) \/ Notify(w)
             \/ Connect(w)
    PROVE  DeliveryInv'
<1> USE DEF sendVars, closeVars, baseVars, saveVars, SeeStop, DrainEmpty, Notify, Connect
<1>1. /\ DialTimeout \in Nat /\ OverallTimeout \in Nat
      /\ timer[w] \in Nat /\ deadline[w] \in Nat
      /\ at[w] = "dial" => timer[w] <= DialTimeout
      /\ NoJob \notin Job
  BY DeliveryAssumption
     DEF DeliveryInv, DeliveryTypeOK, WorkerInv, Mailing, Job
<1>2. at[w] = "notify" => job[w] \in accepted
  BY DEF DeliveryInv, WorkerInv, JobsAccounted, Hands
<1>3. DeliveryTypeOK'
  <2>1. CASE SeeStop(w) \/ DrainEmpty(w)
    BY <2>1 DEF DeliveryInv, DeliveryTypeOK
  <2>2. CASE Notify(w)
    <3>1. recorded' \cup unsaved' \cup tooLate' \subseteq accepted'
          /\ handled' \subseteq recorded' \cup unsaved' \cup tooLate'
      BY <1>2, <2>2 DEF DeliveryInv, DeliveryTypeOK
    <3>2. timer' \in [Workers -> 0..(DialTimeout + OverallTimeout)]
          /\ deadline' \in [Workers -> 0..(DialTimeout + OverallTimeout)]
      BY <1>1, <2>2 DEF DeliveryInv, DeliveryTypeOK
    <3> QED BY <2>2, <3>1, <3>2 DEF DeliveryInv, DeliveryTypeOK
  <2>3. CASE Connect(w)
    <3>1. deadline' \in [Workers -> 0..(DialTimeout + OverallTimeout)]
      BY <1>1, <2>3 DEF DeliveryInv, DeliveryTypeOK
    <3> QED BY <2>3, <3>1 DEF DeliveryInv, DeliveryTypeOK
  <2> QED BY <2>1, <2>2, <2>3
<1>4. \A v \in Workers : WorkerInv(v)'
  <2>1. CASE SeeStop(w) \/ DrainEmpty(w)
    BY <2>1 DEF DeliveryInv, WorkerInv, Mailing, DeliveryTypeOK
  <2>3. CASE Connect(w)
    <3>1. /\ job' = job /\ draining' = draining /\ stopCh' = stopCh
          /\ jobs' = jobs /\ timer' = timer /\ at[w] = "dial"
          /\ recorded' = recorded /\ unsaved' = unsaved /\ tooLate' = tooLate
          /\ timer[w] <= timer[w] + OverallTimeout
      BY <1>1, <2>3
    <3>2. \A v \in Workers :
             /\ at'[v] = IF v = w THEN "smtp" ELSE at[v]
             /\ deadline'[v] = IF v = w THEN timer[w] + OverallTimeout
                               ELSE deadline[v]
      BY <2>3 DEF DeliveryInv, DeliveryTypeOK
    <3> QED BY <3>1, <3>2 DEF DeliveryInv, WorkerInv, Mailing
  <2>2. CASE Notify(w)
    <3>1. /\ recorded' \cup unsaved' \cup tooLate'
                = recorded \cup unsaved \cup tooLate \cup {job[w]}
          /\ job' = job /\ draining' = draining /\ stopCh' = stopCh
          /\ jobs' = jobs /\ at[w] = "notify" /\ DialTimeout >= 0
      BY <1>1, <2>2
    <3>2. \A v \in Workers :
             /\ at'[v] = IF v = w THEN "dial" ELSE at[v]
             /\ timer'[v] = IF v = w THEN 0 ELSE timer[v]
             /\ deadline'[v] = IF v = w THEN DialTimeout ELSE deadline[v]
      BY <2>2 DEF DeliveryInv, DeliveryTypeOK
    <3> QED BY <3>1, <3>2 DEF DeliveryInv, WorkerInv, Mailing
  <2> QED BY <2>1, <2>2, <2>3
<1>5. CloseInv'
  BY DEF DeliveryInv, CloseInv, DeliveryTypeOK
<1>6. AcceptInv'
  BY DEF DeliveryInv, AcceptInv
<1>7. JobsAccounted'
  BY JobsUnmoved DEF DeliveryInv
<1> QED BY <1>3, <1>4, <1>5, <1>6, <1>7 DEF DeliveryInv

(* A worker finishes a job, which leaves its hands and is handled.         *)
LEMMA ReturnInv ==
    ASSUME DeliveryInv, NEW w \in Workers,
           Answer(w) \/ Expire(w)
    PROVE  DeliveryInv'
<1> USE DEF sendVars, closeVars, baseVars, saveVars
<1>1. /\ Mailing(w) /\ Return(w)
      /\ job[w] \in recorded \cup unsaved \cup tooLate /\ job[w] # NoJob
      /\ 0 \in 0..(DialTimeout + OverallTimeout)
  BY DeliveryAssumption DEF DeliveryInv, WorkerInv, Answer, Expire, Mailing
<1>2. DeliveryTypeOK'
  BY <1>1 DEF DeliveryInv, DeliveryTypeOK, Return, Loop
<1>3. \A v \in Workers : WorkerInv(v)'
  BY <1>1 DEF DeliveryInv, WorkerInv, Mailing, Return, Loop, DeliveryTypeOK
<1>4. CloseInv'
  BY <1>1 DEF DeliveryInv, CloseInv, Return, Mailing, DeliveryTypeOK
<1>5. AcceptInv'
  BY <1>1 DEF DeliveryInv, AcceptInv, Return
<1>6. JobsAccounted'
  <2>1. \A v \in Workers : job'[v] = IF v = w THEN NoJob ELSE job[v]
    BY <1>1 DEF DeliveryInv, DeliveryTypeOK, Return
  <2>2. /\ Hands = Hands' \cup {job[w]}
        /\ job[w] \notin Hands'
    BY <1>1, <2>1 DEF DeliveryInv, JobsAccounted, Hands
  <2>3. handled' = handled \cup {job[w]} /\ accepted' = accepted /\ jobs' = jobs
    BY <1>1 DEF Return
  <2> QED BY <2>1, <2>2, <2>3 DEF DeliveryInv, JobsAccounted
<1> QED BY <1>2, <1>3, <1>4, <1>5, <1>6 DEF DeliveryInv

(* Time passes within the deadlines.                                       *)
LEMMA TickInv ==
    ASSUME DeliveryInv, DeliveryTick
    PROVE  DeliveryInv'
<1> USE DEF sendVars, baseVars, saveVars, DeliveryTick
<1>1. CloseTimeout \in Nat /\ DialTimeout + OverallTimeout \in Nat
  BY DeliveryAssumption
<1>2. \A w \in Workers : /\ timer[w] \in Nat /\ deadline[w] \in Nat
                         /\ deadline[w] <= DialTimeout + OverallTimeout
                         /\ timer[w] <= DialTimeout + OverallTimeout
  BY <1>1 DEF DeliveryInv, DeliveryTypeOK
<1>3. DeliveryTypeOK'
  BY <1>1, <1>2 DEF DeliveryInv, DeliveryTypeOK
<1>4. \A v \in Workers : WorkerInv(v)'
  BY <1>2 DEF DeliveryInv, WorkerInv, Mailing
<1>5. CloseInv'
  BY DEF DeliveryInv, CloseInv
<1>6. AcceptInv'
  BY DEF DeliveryInv, AcceptInv
<1>7. JobsAccounted'
  BY JobsUnmoved DEF DeliveryInv
<1> QED BY <1>3, <1>4, <1>5, <1>6, <1>7 DEF DeliveryInv

(* DeliveryInv is inductive.                                               *)
LEMMA DeliveryInvNext ==
    ASSUME DeliveryInv, [DeliveryNext]_deliveryVars
    PROVE  DeliveryInv'
<1>1. CASE UNCHANGED deliveryVars
  BY <1>1
     DEF deliveryVars, sendVars, closeVars, workVars, baseVars, saveVars, DeliveryInv,
         DeliveryTypeOK, WorkerInv, Mailing, CloseInv, AcceptInv,
         JobsAccounted, Hands
<1> QED
  BY <1>1, AdmitInv, EnqueueInv, StopInv, TakeInv, MoveInv, ReturnInv, TickInv
     DEF DeliveryNext, WorkerStep, ServerStep, CloseStep, Stopped

(* In every reachable state where a worker, the sender and Close are tells *)
(* where each job is.                                                      *)
THEOREM DeliveryInvariant == DeliverySpec => []DeliveryInv
<1>1. DeliveryInv /\ [DeliveryNext]_deliveryVars => DeliveryInv'
  BY DeliveryInvNext
<1> QED BY <1>1, DeliveryInvInit, PTL DEF DeliverySpec

(* The jobs offered to the history are among those accepted and the jobs   *)
(* handled among those offered; the channel keeps its bound and the timers *)
(* theirs.                                                                 *)
THEOREM DeliveryTypes == DeliverySpec => []DeliveryTypeOK
<1>1. DeliveryInv => DeliveryTypeOK
  BY DEF DeliveryInv
<1> QED BY <1>1, DeliveryInvariant, PTL

(* No accepted mail is lost or taken twice.                                *)
THEOREM JobsNeverLost == DeliverySpec => []JobsAccounted
<1>1. DeliveryInv => JobsAccounted
  BY DEF DeliveryInv
<1> QED BY <1>1, DeliveryInvariant, PTL

(* When Close returns because the pool has ended, the queue was drained    *)
(* and every alert reached onAlert while the database was open.            *)
THEOREM CloseDrains == DeliverySpec => []DrainedOnClose
<1>1. DeliveryInv => DrainedOnClose
  <2> SUFFICES ASSUME DeliveryInv, closer = "done"
               PROVE  /\ accepted = handled /\ accepted = recorded \cup unsaved
                      /\ tooLate = {}
    BY DEF DrainedOnClose
  <2>1. \A w \in Workers : job[w] = NoJob /\ jobs = <<>>
    BY DEF DeliveryInv, CloseInv, WorkerInv
  <2>2. jobs = <<>> /\ ToSet(jobs) = {}
    BY <2>1, DeliveryAssumption DEF ToSet
  <2>3. Hands = {}
    BY <2>1 DEF Hands
  <2>4. tooLate = {}
    BY DEF DeliveryInv, CloseInv
  <2> QED BY <2>2, <2>3, <2>4 DEF DeliveryInv, JobsAccounted, DeliveryTypeOK
<1> QED BY <1>1, DeliveryInvariant, PTL
=============================================================================
