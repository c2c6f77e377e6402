---------------------------- MODULE ClassTotals -----------------------------
(***************************************************************************)
(* collector/network.go: the second half of CollectNetwork folds the LAN   *)
(* and WAN counters of nftables or iptables into the class totals, which   *)
(* GetHourlyTotalsAndReset takes.  PUT /api/config turns the classifier on *)
(* and off meanwhile, and its counters restart at zero.  One goroutine     *)
(* collects, and its rounds reach this half or not (see InterfaceTotals).  *)
(*                                                                         *)
(* The counters of a reading are read in one step but for the two address  *)
(* families of iptables, of which IPv6 is allowed to fail.                 *)
(***************************************************************************)
EXTENDS Integers, FiniteSets, Functions

CONSTANTS
    Classes,          \* lanIngress, lanEgress, wanIngress, wanEgress
    MaxClassPackets,  \* bound on the packets
    MaxClassFaults    \* bound on failed readings and on switches of the
                      \* classifier

Families == {"v4", "v6"}
Backends == {"none", "nftables", "iptables"}

ASSUME ClassAssumption == MaxClassPackets \in Nat /\ MaxClassFaults \in Nat

VARIABLES
    classCnt,       \* bytes by class and address family, since the set-up
    classifier,     \* the backend in use
    classFaults,    \* failures and switches so far
    pc,             \* where the round is
    cl,             \* the backend the round has chosen
    reading,        \* the counters the round has read
    last,           \* lastLanIngress, lastLanEgress, lastWanIngress, ..
    classLive,      \* totalLanDownload, totalLanUpload, ..
    classTaken,     \* history: the totals taken
    classCounted,   \* history: the bytes of each class the classifier counted
    over,           \* history: IPv6 bytes that readings have left out
    classUnread,    \* history: bytes counted since the last good reading
    classInHand,    \* history: those of the round under way
    classDue,       \* history: those of rounds folded, after a nonzero reading
    classDropped,   \* history: those of rounds dropped
    classErased     \* history: what counters that restarted had come to

classKernelVars == <<classCnt, classifier, classCounted, classErased>>
roundVars == <<pc, cl, reading>>
classByteVars == <<classUnread, classInHand>>
classFoldVars == <<last, classDue, classDropped>>
classTotalVars == <<classLive, classTaken>>
classVars ==
    <<classKernelVars, classFaults, roundVars, classByteVars, classFoldVars,
      classTotalVars, over>>

NoBytes == [c \in Classes |-> 0]
NoTraffic == [c \in Classes |-> [f \in Families |-> 0]]
ClassSum(f) == FoldFunction(+, 0, f)
InBoth(f) == [c \in Classes |-> f[c]["v4"] + f[c]["v6"]]
ClassPlus(f, g) == [c \in Classes |-> f[c] + g[c]]

(* main may have turned the classifier on before the collector started.    *)
ClassInit ==
    /\ classCnt = NoTraffic /\ classifier \in Backends
    /\ classCounted = NoBytes /\ classFaults = 0
    /\ pc = "idle" /\ cl = "none" /\ reading = NoBytes
    /\ classUnread = NoBytes /\ classInHand = NoBytes /\ classErased = NoBytes
    /\ last = NoBytes /\ classDue = NoBytes /\ classDropped = NoBytes
    /\ classLive = NoBytes /\ classTaken = NoBytes /\ over = NoBytes

-----------------------------------------------------------------------------
(* Without a classifier nothing is counted.                                *)
ClassPacket(c, f) ==
    /\ classifier # "none"
    /\ ClassSum(classCounted) < MaxClassPackets
    /\ classCnt' = [classCnt EXCEPT ![c][f] = @ + 1]
    /\ classCounted' = [classCounted EXCEPT ![c] = @ + 1]
    /\ classUnread' = [classUnread EXCEPT ![c] = @ + 1]
    /\ UNCHANGED <<classifier, classErased, classFaults, roundVars, classInHand,
                   classFoldVars, classTotalVars, over>>

ClassFault == classFaults < MaxClassFaults /\ classFaults' = classFaults + 1

(* A round holds classifierMu, for reading, while it reads.                *)
(* Faulty variant: it does not.                                            *)
Always == TRUE
NoReader == pc # "reading"

Reconfigure(backend) ==
    /\ NoReader
    /\ ClassFault
    /\ classifier' = backend /\ classCnt' = NoTraffic
    /\ classErased' = ClassPlus(classErased, InBoth(classCnt))
    /\ UNCHANGED <<classCounted, roundVars, classByteVars, classFoldVars,
                   classTotalVars, over>>

EnableLanWanSplit ==
    /\ classifier = "none"
    /\ \E backend \in {"nftables", "iptables"} : Reconfigure(backend)

DisableLanWanSplit == classifier # "none" /\ Reconfigure("none")

-----------------------------------------------------------------------------
BeginRead ==
    /\ pc = "idle" /\ classifier # "none"
    /\ pc' = "reading" /\ cl' = classifier
    /\ UNCHANGED <<classKernelVars, classFaults, reading, classByteVars,
                   classFoldVars, classTotalVars, over>>

EndRead(next) ==
    /\ pc = "reading" /\ pc' = next /\ cl' = "none"
    /\ UNCHANGED <<classKernelVars, classFoldVars, classTotalVars>>

Reading(values) ==
    /\ EndRead("read")
    /\ reading' = values
    /\ classInHand' = classUnread /\ classUnread' = NoBytes

ReadCounters == Reading(InBoth(classCnt)) /\ UNCHANGED <<classFaults, over>>

(* readIptablesCounters drops the error of ip6tables: IPv6 counts as zero. *)
ReadV4Only ==
    /\ cl = "iptables" /\ ClassFault
    /\ Reading([c \in Classes |-> classCnt[c]["v4"]])
    /\ over' = [c \in Classes |-> over[c] + classCnt[c]["v6"]]

ReadFails ==
    /\ EndRead("idle")
    /\ UNCHANGED <<reading, classByteVars, classFaults, over>>

(* Faulty variant: the round is dropped only if all classes went back.     *)
AllWentBack == \A c \in Classes : last[c] > 0 /\ reading[c] < last[c]
ClassWentBack == \E c \in Classes : last[c] > 0 /\ reading[c] < last[c]

(* Faulty variant: the first reading is counted in full.                   *)
DeltaFromZero(c) == reading[c] - last[c]
ClassDelta(c) == IF last[c] > 0 THEN reading[c] - last[c] ELSE 0

(* The bytes counted since the reading before, of classes it found any of. *)
ClassRound == [c \in Classes |-> IF last[c] > 0 THEN classInHand[c] ELSE 0]

(* Faulty variant: a round that went back is taken for a restart at zero.  *)
Restarted == [c \in Classes |-> classLive[c] + reading[c]]
Dropped == classLive

FoldClasses ==
    /\ pc = "read" /\ pc' = "idle"
    /\ IF ClassWentBack
       THEN /\ classLive' = Dropped
            /\ classDropped' = ClassPlus(classDropped, ClassRound)
       ELSE /\ classLive' = [c \in Classes |-> classLive[c] + ClassDelta(c)]
            /\ UNCHANGED classDropped
    /\ last' = reading
    /\ reading' = NoBytes
    /\ classDue' = ClassPlus(classDue, ClassRound) /\ classInHand' = NoBytes
    /\ UNCHANGED <<classKernelVars, classFaults, cl, classUnread, classTaken,
                   over>>

(* GetHourlyTotalsAndReset, its second half, under a lock of its own.      *)
TakeClassTotals ==
    /\ classTaken' = [c \in Classes |-> classTaken[c] + classLive[c]]
    /\ classLive' = NoBytes
    /\ UNCHANGED <<classKernelVars, classFaults, roundVars, classByteVars,
                   classFoldVars, over>>

ClassNext ==
    \/ \E c \in Classes, f \in Families : ClassPacket(c, f)
    \/ EnableLanWanSplit \/ DisableLanWanSplit
    \/ BeginRead \/ ReadCounters \/ ReadV4Only \/ ReadFails \/ FoldClasses
    \/ TakeClassTotals

ClassSpec == ClassInit /\ [][ClassNext]_classVars

-----------------------------------------------------------------------------
ClassCounters == [Classes -> Nat]

(* Every variable keeps its type; in particular no total is ever negative. *)
ClassTypeOK ==
    /\ classCnt \in [Classes -> [Families -> Nat]]
    /\ classifier \in Backends /\ classFaults \in Nat
    /\ pc \in {"idle", "reading", "read"} /\ cl \in Backends
    /\ reading \in ClassCounters
    /\ last \in ClassCounters
    /\ classLive \in ClassCounters /\ classTaken \in ClassCounters
    /\ classCounted \in ClassCounters /\ over \in ClassCounters
    /\ {classUnread, classInHand, classDue, classDropped, classErased}
          \subseteq ClassCounters

(* "so the classifier backend cannot be torn down concurrently": while a   *)
(* round reads, the backend it has chosen is the one in use.               *)
ReadHeld == pc = "reading" => cl = classifier /\ cl # "none"

(* The LAN and WAN totals never exceed what the classifier counted of      *)
(* their class, through switches that a round meets halfway too, but for   *)
(* the IPv6 bytes that readings have left out: the good reading after one  *)
(* that went back counts those again.                                      *)
ClassSound ==
    \A c \in Classes : classLive[c] + classTaken[c] <= classCounted[c] + over[c]

(* The totals and the rounds that were dropped hold all the bytes counted  *)
(* after a nonzero reading of their class and up to the last reading, and  *)
(* no others, whatever reading fails in between.  Short by at most what a  *)
(* counter had come to when the classifier was switched: if it has grown   *)
(* past its last value by the next reading, the code does not notice.      *)
(* IPv6 bytes left out may be missing or be counted twice.  And no round   *)
(* is dropped before either has happened.                                  *)
ClassComplete ==
    /\ \A c \in Classes :
          LET kept == classLive[c] + classTaken[c] + classDropped[c]
          IN  /\ kept <= classDue[c] + over[c]
              /\ classDue[c] <= kept + classErased[c] + over[c]
    /\ classErased = NoBytes /\ over = NoBytes => classDropped = NoBytes
=============================================================================
