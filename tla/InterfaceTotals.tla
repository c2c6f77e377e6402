-------------------------- MODULE InterfaceTotals ---------------------------
(***************************************************************************)
(* collector/network.go: the first half of CollectNetwork folds the        *)
(* counters of the physical interfaces into totalUpload and totalDownload, *)
(* which GetHourlyTotalsAndReset takes, and into the rates of the round.   *)
(* One goroutine collects.  (The second half is in ClassTotals.)           *)
(*                                                                         *)
(* The kernel's counters are not the program's: interfaces are unplugged,  *)
(* wrap at 32 bits, enter a bond and leave it.  A rate is the bytes it is  *)
(* computed from.  The counters of a round are read in one step, and the   *)
(* list of interfaces is renewed before the first of them.                 *)
(***************************************************************************)
EXTENDS Integers, FiniteSets, Functions

CONSTANTS
    Nics,        \* network cards
    Bond,        \* a bond that the cards may join
    Dirs,        \* rx, tx
    OldBytes,    \* what every interface had counted before the program began
    MaxPackets,  \* bound on the packets
    MaxFaults    \* bound on the events that disturb the counters

Ifaces == Nics \cup {Bond}

ASSUME InterfaceAssumption ==
    /\ IsFiniteSet(Ifaces) /\ Bond \notin Nics
    /\ OldBytes \in Nat /\ MaxPackets \in Nat /\ MaxFaults \in Nat

VARIABLES
    gone,       \* interfaces that are unplugged
    slaves,     \* cards in the bond
    cnt,        \* /proc/net/dev
    faults,     \* events so far
    nicCache,   \* physicalNICCache: the interfaces of the last scan
    current,    \* the counters the round has read
    parsed,     \* a round has read the counters and not yet folded them
    lastStats,  \* lastNetworkStats: interfaces seen, with their last values
    sampled,    \* lastNetworkSampled is set
    rate,       \* the rates of the last round
    live,       \* totalUpload, totalDownload
    taken,      \* history: the totals taken
    passed,     \* history: bytes that went through the cards
    slaved,     \* history: those that went through a card in the bond
    unread,     \* history: bytes each interface counted since it was read
    inHand,     \* history: those of the interfaces the round has read
    due,        \* history: those of rounds folded, of interfaces seen before
    dropped,    \* history: those of rounds dropped
    erased,     \* history: what the counters that restarted had come to
    since,      \* history: bytes from one reading of the counters to the next
    lastRound,  \* history: the interfaces of the last round
    returned    \* history: the round has an interface the last one missed

kernelVars == <<gone, slaves, cnt, faults, passed, slaved>>
readVars == <<nicCache, current, lastRound, returned>>
foldVars == <<lastStats, sampled, rate, due, dropped>>
totalVars == <<live, taken>>
byteVars == <<unread, inHand>>
vars == <<kernelVars, readVars, parsed, since, foldVars, totalVars, byteVars,
          erased>>

Zero == [d \in Dirs |-> 0]
NoStats == [i \in {} |-> Zero]
SumOf(f) == FoldFunction(+, 0, f)
Plus(f, g) == [d \in Dirs |-> f[d] + g[d]]

Init ==
    /\ gone = {} /\ slaves = {} /\ faults = 0
    /\ cnt = [i \in Ifaces |-> [d \in Dirs |-> OldBytes]]
    /\ nicCache = {} /\ current = NoStats /\ parsed = FALSE
    /\ lastStats = NoStats /\ sampled = FALSE /\ rate = Zero
    /\ live = Zero /\ taken = Zero
    /\ passed = Zero /\ slaved = Zero
    /\ unread = [i \in Ifaces |-> Zero] /\ inHand = NoStats
    /\ due = Zero /\ dropped = Zero /\ erased = Zero
    /\ since = [read |-> Zero, now |-> Zero]
    /\ lastRound = {} /\ returned = FALSE

-----------------------------------------------------------------------------
(* The kernel.  A packet through a card in the bond counts on both.        *)
Packet(i, d) ==
    LET counts == IF i \in slaves THEN {i, Bond} ELSE {i}
        More(f) == [f EXCEPT ![d] = @ + 1]
    IN  /\ i \notin gone
        /\ SumOf(passed) < MaxPackets
        /\ passed' = More(passed)
        /\ slaved' = IF i \in slaves THEN More(slaved) ELSE slaved
        /\ cnt' = [j \in Ifaces |-> IF j \in counts THEN More(cnt[j]) ELSE cnt[j]]
        /\ unread' = [j \in Ifaces |->
                         IF j \in counts THEN More(unread[j]) ELSE unread[j]]
        /\ since' = [since EXCEPT !.now = More(@)]
        /\ UNCHANGED <<gone, slaves, faults, readVars, parsed, foldVars,
                       totalVars, inHand, erased>>

Fault ==
    /\ faults < MaxFaults /\ faults' = faults + 1
    /\ UNCHANGED <<passed, slaved, readVars, parsed, since, foldVars, totalVars,
                   byteVars>>

Unplug(i) ==
    /\ i \notin gone \cup slaves /\ gone' = gone \cup {i}
    /\ UNCHANGED <<slaves, cnt, erased>> /\ Fault

(* The counters of a new device start at zero.                             *)
Plug(i) ==
    /\ i \in gone /\ gone' = gone \ {i}
    /\ cnt' = [cnt EXCEPT ![i] = Zero] /\ erased' = Plus(erased, cnt[i])
    /\ UNCHANGED slaves /\ Fault

Wrap(i, d) ==
    /\ cnt[i][d] > 0 /\ cnt' = [cnt EXCEPT ![i][d] = 0]
    /\ erased' = [erased EXCEPT ![d] = @ + cnt[i][d]]
    /\ UNCHANGED <<gone, slaves>> /\ Fault

Enslave(i) ==
    /\ i \notin gone \cup slaves /\ Bond \notin gone
    /\ slaves' = slaves \cup {i}
    /\ UNCHANGED <<gone, cnt, erased>> /\ Fault

Release(i) ==
    /\ i \in slaves /\ slaves' = slaves \ {i}
    /\ UNCHANGED <<gone, cnt, erased>> /\ Fault

-----------------------------------------------------------------------------
(* A round reads /proc/net/dev without a lock.  Cards in a bond are left   *)
(* out as of the last scan, which may be five minutes old, and which finds *)
(* nothing when it fails.                                                  *)
Seen == DOMAIN lastStats
Scan == Ifaces \ (gone \cup slaves)

ParseWith(nics) ==
    /\ ~parsed /\ parsed' = TRUE
    /\ nicCache' = nics
    /\ current' = [i \in nics \ gone |-> cnt[i]]
    /\ inHand' = [i \in nics \ gone |-> unread[i]]
    /\ unread' = [i \in Ifaces |->
                     IF i \in nics \ gone THEN Zero ELSE unread[i]]
    /\ lastRound' = nics \ gone
    /\ returned' = ~((nics \ gone) \cap Seen \subseteq lastRound)
    /\ since' = [read |-> since.now, now |-> Zero]
    /\ UNCHANGED <<gone, slaves, cnt, passed, slaved, foldVars, totalVars,
                   erased>>

Parse ==
    /\ \/ ParseWith(Scan)
       \/ sampled /\ ParseWith(nicCache)
    /\ UNCHANGED faults

ParseBlind == ParseWith({}) /\ faults < MaxFaults /\ faults' = faults + 1

(* Faulty variant: what an interface counted before it was seen is added.  *)
FromZero(i, d) == current[i][d] - (IF i \in Seen THEN lastStats[i][d] ELSE 0)
Delta(i, d) == IF i \in Seen THEN current[i][d] - lastStats[i][d] ELSE 0

(* Faulty variant: only one direction is compared.                         *)
WentBackOnce(i) ==
    LET d == CHOOSE e \in Dirs : TRUE
    IN  i \in Seen /\ current[i][d] < lastStats[i][d]
WentBack(i) == i \in Seen /\ \E d \in Dirs : current[i][d] < lastStats[i][d]

Added == [d \in Dirs |-> SumOf([i \in DOMAIN current |-> Delta(i, d)])]

(* The bytes that the interfaces counted since they were read before.      *)
Counted ==
    [d \in Dirs |-> SumOf([i \in DOMAIN current \cap Seen |-> inHand[i][d]])]

(* Faulty variant: the rates are those of the totals.                      *)
TotalRate == Plus(live, Added)
RoundRate == Added

(* Faulty variant: the round after a long pause leaves the totals alone.   *)
TotalsIf(timely) == IF timely THEN Plus(live, Added) ELSE live
Totals(timely) == Plus(live, Added)

(* timely: more than zero and at most 600 seconds since the last round.    *)
(* One interface that went back drops the round of all.                    *)
Fold(timely) ==
    /\ parsed /\ parsed' = FALSE
    /\ lastStats' = [i \in Seen \cup DOMAIN current |->
                        IF i \in DOMAIN current THEN current[i] ELSE lastStats[i]]
    /\ sampled' = TRUE
    /\ IF \E i \in DOMAIN current : WentBack(i)
       THEN dropped' = Plus(dropped, Counted) /\ rate' = Zero /\ UNCHANGED live
       ELSE /\ live' = Totals(timely)
            /\ rate' = IF sampled /\ timely THEN RoundRate ELSE Zero
            /\ UNCHANGED dropped
    /\ current' = NoStats
    /\ due' = Plus(due, Counted) /\ inHand' = NoStats
    /\ UNCHANGED <<kernelVars, nicCache, lastRound, returned, since, taken,
                   unread, erased>>

(* GetHourlyTotalsAndReset, its first half.                                *)
TakeTotals ==
    /\ taken' = Plus(taken, live) /\ live' = Zero
    /\ UNCHANGED <<kernelVars, readVars, parsed, since, foldVars, byteVars,
                   erased>>

Next ==
    \/ \E i \in Nics, d \in Dirs : Packet(i, d)
    \/ \E i \in Ifaces : Unplug(i) \/ Plug(i)
    \/ \E i \in Nics : Enslave(i) \/ Release(i)
    \/ \E i \in Ifaces, d \in Dirs : Wrap(i, d)
    \/ Parse \/ ParseBlind \/ \E timely \in BOOLEAN : Fold(timely)
    \/ TakeTotals

Spec == Init /\ [][Next]_vars

-----------------------------------------------------------------------------
Counters == [Dirs -> Nat]
Stats(f) == DOMAIN f \subseteq Ifaces /\ \A i \in DOMAIN f : f[i] \in Counters

(* Every variable keeps its type; in particular no total and no rate is    *)
(* ever negative, whatever the kernel's counters do.                       *)
TypeOK ==
    /\ gone \subseteq Ifaces /\ slaves \subseteq Nics /\ faults \in Nat
    /\ cnt \in [Ifaces -> Counters]
    /\ nicCache \subseteq Ifaces /\ lastRound \subseteq Ifaces
    /\ Stats(current) /\ Stats(lastStats)
    /\ unread \in [Ifaces -> Counters] /\ inHand \in [DOMAIN current -> Counters]
    /\ {live, taken, passed, slaved, rate, since.read, since.now} \subseteq Counters
    /\ {due, dropped, erased} \subseteq Counters
    /\ {parsed, sampled, returned} \subseteq BOOLEAN

(* Whatever interfaces come, go, wrap or restart, the totals never exceed  *)
(* what went through the cards, but for what a card carried inside a bond  *)
(* (CollectNetwork drops a round that went back and seeds what is new).    *)
TotalsSound ==
    \A d \in Dirs : live[d] + taken[d] <= passed[d] + slaved[d]

(* The totals and the rounds that were dropped hold all the bytes that the *)
(* interfaces counted from their first reading to their last, and no       *)
(* others, whether one was absent for some rounds, the pause was too long  *)
(* or a take fell between two steps of a round.  Short by at most what a   *)
(* counter had come to when it restarted: if it has grown past its last    *)
(* value by the next reading, the code does not notice.  And no round is   *)
(* dropped before a counter has restarted.                                 *)
TotalsComplete ==
    /\ \A d \in Dirs :
          LET kept == live[d] + taken[d] + dropped[d]
          IN  kept <= due[d] /\ due[d] <= kept + erased[d]
    /\ erased = Zero => dropped = Zero

(* The rates of a round are about the time since the round before it: no   *)
(* more bytes than went through in between, unless a card was in a bond or *)
(* an interface is back that the round before had missed.                  *)
RatesFresh ==
    ~parsed /\ ~returned /\ slaved = Zero =>
        \A d \in Dirs : rate[d] <= since.read[d]
=============================================================================
