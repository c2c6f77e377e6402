--------------------------- MODULE NetworkProofs ---------------------------
(***************************************************************************)
(* Theorems about the two halves of CollectNetwork, for any interfaces,    *)
(* classes, traffic and faults: InterfaceTotals and ClassTotals, which     *)
(* share no variable.                                                      *)
(***************************************************************************)
EXTENDS InterfaceTotals, ClassTotals, SumLemmas

-----------------------------------------------------------------------------
(* Sums over the interfaces.  A function is extended by zero where it has  *)
(* nothing to add.                                                         *)
Total(f) == SumFunctionOnSet(f, Ifaces)

(* The interfaces are the cards and the bond.                              *)
LEMMA IfacesFinite ==
    /\ IsFiniteSet(Ifaces) /\ \A S \in SUBSET Ifaces : IsFiniteSet(S)
    /\ \A i \in Nics : i \in Ifaces /\ i # Bond
    /\ Bond \in Ifaces /\ OldBytes \in Nat
  BY InterfaceAssumption, FS_Subset DEF Ifaces

(* The model's SumOf is the library's sum over the domain.                 *)
LEMMA SumOfIsSum == \A f : SumOf(f) = SumFunctionOnSet(f, DOMAIN f)
  BY DEF SumOf, FoldFunction, SumFunctionOnSet

(* A sum over some interfaces, as a sum over all.                          *)
LEMMA SumOfPart ==
    ASSUME NEW f, DOMAIN f \subseteq Ifaces,
           NEW g, \A i \in Ifaces : g[i] \in Int,
           \A i \in DOMAIN f : f[i] = g[i],
           \A i \in Ifaces \ DOMAIN f : g[i] = 0
    PROVE  SumOf(f) = Total(g)
<1>1. SumFunctionOnSet(f, DOMAIN f) = SumFunctionOnSet(g, Ifaces)
  BY IfacesFinite, SumNonzero
<1> QED
  BY <1>1, SumOfIsSum DEF Total

(* A sum of naturals is a natural.                                         *)
LEMMA TotalNat ==
    ASSUME NEW f, \A i \in Ifaces : f[i] \in Nat
    PROVE  Total(f) \in Nat
  BY IfacesFinite, SumNat DEF Total

(* A sum of zeros is zero.                                                 *)
LEMMA TotalZero ==
    ASSUME NEW f, \A i \in Ifaces : f[i] = 0
    PROVE  Total(f) = 0
  BY IfacesFinite, SumZero DEF Total

(* The sum of a sum is the sum of the sums.                                *)
LEMMA TotalPlus ==
    ASSUME NEW f, NEW g, NEW h,
           \A i \in Ifaces : g[i] \in Int /\ h[i] \in Int /\ f[i] = g[i] + h[i]
    PROVE  Total(f) = Total(g) + Total(h) /\ Total(g) \in Int /\ Total(h) \in Int
  BY IfacesFinite, SumPlus, SumInt DEF Total

(* Greater terms have a greater sum.                                       *)
LEMMA TotalMonotone ==
    ASSUME NEW f, NEW g,
           \A i \in Ifaces : f[i] \in Nat /\ g[i] \in Nat /\ f[i] <= g[i]
    PROVE  Total(f) <= Total(g) /\ Total(f) \in Nat /\ Total(g) \in Nat
<1>1. \A i \in Ifaces : f[i] \in Int /\ g[i] \in Int
  OBVIOUS
<1> QED
  BY <1>1, IfacesFinite, SumMonotone, TotalNat DEF Total

(* One positive term makes a sum of naturals positive.                     *)
LEMMA TotalPositive ==
    ASSUME NEW f, \A i \in Ifaces : f[i] \in Nat, NEW a \in Ifaces, f[a] > 0
    PROVE  Total(f) > 0
<1>1. \A i \in Ifaces : f[i] \in Int
  OBVIOUS
<1>2. Total(f) = f[a] + SumFunctionOnSet(f, Ifaces \ {a})
  BY <1>1, IfacesFinite, SumRemove DEF Total
<1>3. SumFunctionOnSet(f, Ifaces \ {a}) \in Nat
  BY IfacesFinite, SumNat
<1> QED
  BY <1>2, <1>3

(* One interface, or a card and the bond it is in, add at most one each.   *)
LEMMA TotalOneMore ==
    ASSUME NEW f, NEW g, NEW a \in Ifaces,
           \A i \in Ifaces : f[i] \in Nat /\ g[i] \in Nat,
           \A i \in Ifaces : g[i] <= f[i] + IF i = a THEN 1 ELSE 0
    PROVE  Total(g) <= Total(f) + 1 /\ Total(f) \in Nat /\ Total(g) \in Nat
<1> DEFINE e == [i \in Ifaces |-> IF i = a THEN f[i] + 1 ELSE f[i]]
           k == [i \in Ifaces |-> f[i]]
<1>1. \A i \in Ifaces : e[i] \in Nat /\ k[i] \in Nat /\ e[i] \in Int /\ k[i] \in Int
  OBVIOUS
<1>2. \A x \in Ifaces \ {a} : k[x] = e[x]
  OBVIOUS
<1>3. e[a] = k[a] + 1 /\ k[a] \in Nat
  OBVIOUS
<1>4. \A i \in Ifaces : g[i] <= e[i] /\ f[i] = k[i]
  OBVIOUS
<1> HIDE DEF e, k
<1>5. Total(e) = Total(k) - k[a] + e[a]
  BY <1>1, <1>2, IfacesFinite, SumChange DEF Total
<1>6. Total(g) <= Total(e) /\ Total(g) \in Nat /\ Total(e) \in Nat
  BY <1>1, <1>4, TotalMonotone
<1>7. \A i \in Ifaces : f[i] \in Int /\ f[i] = k[i]
  BY <1>4
<1>8. Total(f) = Total(k)
  BY <1>7, IfacesFinite, SumSame DEF Total
<1>9. Total(f) \in Nat
  BY TotalNat
<1> QED
  BY <1>3, <1>5, <1>6, <1>8, <1>9

-----------------------------------------------------------------------------
(* Where a round is, and what belongs to it.                               *)
Read == DOMAIN current
RoundInv ==
    /\ since \in [read : Counters, now : Counters]
    /\ parsed => lastRound = Read
    /\ ~parsed => Read = {} /\ lastRound \subseteq Seen

IfaceTypes == TypeOK /\ RoundInv

(* Zero is a counter of every direction, at zero.                          *)
LEMMA ZeroType == Zero \in Counters /\ \A d \in Dirs : Zero[d] = 0
  BY DEF Zero, Counters

(* Plus adds in each direction.                                            *)
LEMMA PlusType ==
    ASSUME NEW f \in Counters, NEW g \in Counters
    PROVE  Plus(f, g) \in Counters /\ \A d \in Dirs : Plus(f, g)[d] = f[d] + g[d]
  BY DEF Plus, Counters

(* Before the first round nothing is read or seen.                         *)
LEMMA IfaceInit == Init => IfaceTypes
<1> SUFFICES ASSUME Init PROVE IfaceTypes
  OBVIOUS
<1>1. cnt \in [Ifaces -> Counters]
  BY IfacesFinite DEF Init, Counters
<1>2. inHand \in [DOMAIN current -> Counters] /\ unread \in [Ifaces -> Counters]
  BY ZeroType DEF Init, NoStats
<1>3. TypeOK
  BY <1>1, <1>2, ZeroType DEF Init, TypeOK, Stats, NoStats, Seen
<1>4. RoundInv
  BY ZeroType DEF Init, RoundInv, Read, NoStats, Seen
<1> QED
  BY <1>3, <1>4 DEF IfaceTypes

(* What the round adds is the sum of what each interface it has read adds. *)
DeltaAt(d) == [i \in Ifaces |-> IF i \in Read THEN Delta(i, d) ELSE 0]

(* An interface adds less than nothing only if a counter went back.        *)
LEMMA DeltaType ==
    ASSUME TypeOK, NEW d \in Dirs, NEW i \in Ifaces
    PROVE  /\ DeltaAt(d)[i] \in Int
           /\ (~\E j \in Read : WentBack(j)) => DeltaAt(d)[i] \in Nat
<1>1. CASE i \in Read \cap Seen
  <2>1. current[i][d] \in Nat /\ lastStats[i][d] \in Nat
    BY <1>1 DEF TypeOK, Stats, Counters, Read, Seen
  <2>2. DeltaAt(d)[i] = current[i][d] - lastStats[i][d]
    BY <1>1 DEF DeltaAt, Delta
  <2>3. (~\E j \in Read : WentBack(j)) => ~(current[i][d] < lastStats[i][d])
    BY <1>1 DEF WentBack
  <2> QED
    BY <2>1, <2>2, <2>3
<1>2. CASE i \notin Read \cap Seen
  BY <1>2 DEF DeltaAt, Delta
<1> QED
  BY <1>1, <1>2

(* Added, as a sum over all the interfaces.                                *)
LEMMA AddedIs ==
    ASSUME TypeOK, NEW d \in Dirs
    PROVE  /\ Added[d] = Total(DeltaAt(d)) /\ Added[d] \in Int
           /\ (~\E j \in Read : WentBack(j)) => Added[d] \in Nat
<1> DEFINE f == [i \in Read |-> Delta(i, d)]
           g == DeltaAt(d)
<1>1. Added[d] = SumOf(f)
  BY DEF Added, Read
<1>2. \A i \in Ifaces : g[i] \in Int
  BY DeltaType
<1>3. DOMAIN f \subseteq Ifaces
  BY DEF Read, TypeOK, Stats
<1>4. /\ \A i \in DOMAIN f : f[i] = g[i]
      /\ \A i \in Ifaces \ DOMAIN f : g[i] = 0
  BY <1>3 DEF DeltaAt
<1>5. (~\E j \in Read : WentBack(j)) => \A i \in Ifaces : g[i] \in Nat
  BY DeltaType
<1> HIDE DEF f, g
<1>6. SumOf(f) = Total(g)
  BY <1>2, <1>3, <1>4, SumOfPart
<1>7. Total(g) \in Int
  BY <1>2, IfacesFinite, SumInt DEF Total
<1>8. (~\E j \in Read : WentBack(j)) => Total(g) \in Nat
  BY <1>5, TotalNat
<1>9. Total(g) = Total(DeltaAt(d))
  BY DEF g
<1> QED
  BY <1>1, <1>6, <1>7, <1>8, <1>9

(* A round without a counter that went back adds no negative total.        *)
LEMMA AddedType ==
    ASSUME TypeOK, ~\E j \in Read : WentBack(j)
    PROVE  Added \in Counters
<1>1. \A d \in Dirs : Added[d] \in Nat
  BY AddedIs
<1> QED
  BY <1>1 DEF Added, Counters

(* The steps of the kernel leave all but its counters and since.now.       *)
Disturbed ==
    /\ gone' \subseteq Ifaces /\ slaves' \subseteq Nics /\ faults' \in Nat
    /\ cnt' \in [Ifaces -> Counters] /\ erased' \in Counters
    /\ UNCHANGED <<passed, slaved, readVars, parsed, since, foldVars, totalVars,
                   byteVars>>

Disturb ==
    \/ \E i \in Ifaces : Unplug(i) \/ Plug(i)
    \/ \E i \in Nics : Enslave(i) \/ Release(i)
    \/ \E i \in Ifaces, d \in Dirs : Wrap(i, d)

(* Plugging, enslaving and wrapping are such steps.                        *)
LEMMA DisturbType == TypeOK /\ Disturb => Disturbed
<1> SUFFICES ASSUME TypeOK, Disturb PROVE Disturbed
  OBVIOUS
<1>0. /\ gone \subseteq Ifaces /\ slaves \subseteq Nics /\ faults \in Nat
      /\ cnt \in [Ifaces -> Counters] /\ erased \in Counters
  BY DEF TypeOK
<1>1. Fault
  BY DEF Disturb, Unplug, Plug, Enslave, Release, Wrap
<1>2. /\ UNCHANGED <<passed, slaved, readVars, parsed, since, foldVars, totalVars,
                     byteVars>>
      /\ faults' \in Nat
  BY <1>0, <1>1 DEF Fault
<1>3. ASSUME NEW i \in Ifaces, Unplug(i) PROVE Disturbed
  BY <1>0, <1>2, <1>3 DEF Unplug, Disturbed
<1>4. ASSUME NEW i \in Ifaces, Plug(i) PROVE Disturbed
  <2>1. erased' \in Counters
    BY <1>0, <1>4, PlusType DEF Plug
  <2> QED
    BY <1>0, <1>2, <1>4, <2>1, ZeroType DEF Plug, Disturbed
<1>5. ASSUME NEW i \in Nics, Enslave(i) \/ Release(i) PROVE Disturbed
  BY <1>0, <1>2, <1>5 DEF Enslave, Release, Disturbed
<1>6. ASSUME NEW i \in Ifaces, NEW d \in Dirs, Wrap(i, d) PROVE Disturbed
  <2>1. cnt' = [cnt EXCEPT ![i][d] = 0]
    BY <1>6 DEF Wrap
  <2>2. cnt' \in [Ifaces -> Counters]
    BY <1>0, <2>1 DEF Counters
  <2>3. erased' \in Counters
    BY <1>0, <1>6 DEF Wrap, Counters
  <2> QED
    BY <1>0, <1>2, <1>6, <2>2, <2>3 DEF Wrap, Disturbed
<1> QED
  BY <1>3, <1>4, <1>5, <1>6 DEF Disturb

(* A packet counts once, and on the bond too if the card is in it.         *)
CountsOf(i) == IF i \in slaves THEN {i, Bond} ELSE {i}

(* What a packet through card i changes.                                   *)
LEMMA PacketEffect ==
    ASSUME IfaceTypes, NEW i \in Nics, NEW d \in Dirs, Packet(i, d)
    PROVE  /\ UNCHANGED <<gone, slaves, faults, readVars, parsed, foldVars, totalVars,
                          inHand, erased>>
           /\ cnt' \in [Ifaces -> Counters] /\ unread' \in [Ifaces -> Counters]
           /\ passed' \in Counters /\ slaved' \in Counters
           /\ since' \in [read : Counters, now : Counters]
           /\ since'.read = since.read
           /\ \A e \in Dirs :
                 /\ passed'[e] = passed[e] + IF e = d THEN 1 ELSE 0
                 /\ slaved'[e] = slaved[e] + IF e = d /\ i \in slaves THEN 1 ELSE 0
                 /\ since'.now[e] = since.now[e] + IF e = d THEN 1 ELSE 0
                 /\ \A j \in Ifaces :
                       /\ cnt'[j][e] = cnt[j][e]
                                        + IF e = d /\ j \in CountsOf(i) THEN 1 ELSE 0
                       /\ unread'[j][e] = unread[j][e]
                                        + IF e = d /\ j \in CountsOf(i) THEN 1 ELSE 0
<1> DEFINE More(f) == [f EXCEPT ![d] = @ + 1]
<1>0. /\ passed \in Counters /\ slaved \in Counters /\ cnt \in [Ifaces -> Counters]
      /\ unread \in [Ifaces -> Counters]
      /\ since \in [read : Counters, now : Counters]
      /\ since.now \in Counters /\ since.read \in Counters
  BY DEF IfaceTypes, TypeOK, RoundInv
<1>1. /\ UNCHANGED <<gone, slaves, faults, readVars, parsed, foldVars, totalVars,
                     inHand, erased>>
      /\ passed' = More(passed)
      /\ slaved' = IF i \in slaves THEN More(slaved) ELSE slaved
      /\ cnt' = [j \in Ifaces |-> IF j \in CountsOf(i) THEN More(cnt[j]) ELSE cnt[j]]
      /\ unread' = [j \in Ifaces |->
                       IF j \in CountsOf(i) THEN More(unread[j]) ELSE unread[j]]
      /\ since' = [since EXCEPT !.now = More(@)]
  BY DEF Packet, CountsOf
<1>2. ASSUME NEW f \in Counters
      PROVE  /\ More(f) \in Counters
             /\ \A e \in Dirs : More(f)[e] = f[e] + IF e = d THEN 1 ELSE 0
  BY DEF Counters
<1>3. \A f \in Counters, e \in Dirs : f[e] \in Nat
  BY DEF Counters
<1> HIDE DEF More
<1>4. since' = [read |-> since.read, now |-> More(since.now)]
  BY <1>0, <1>1
<1>5. /\ since' \in [read : Counters, now : Counters]
      /\ since'.read = since.read /\ since'.now = More(since.now)
  BY <1>0, <1>2, <1>4
<1>6. passed' \in Counters /\ slaved' \in Counters
  BY <1>0, <1>1, <1>2
<1>7. \A j \in Ifaces : /\ cnt[j] \in Counters /\ More(cnt[j]) \in Counters
                         /\ unread[j] \in Counters /\ More(unread[j]) \in Counters
  BY <1>0, <1>2
<1>8. cnt' \in [Ifaces -> Counters] /\ unread' \in [Ifaces -> Counters]
  BY <1>1, <1>7
<1>9. ASSUME NEW e \in Dirs
      PROVE  /\ passed'[e] = passed[e] + IF e = d THEN 1 ELSE 0
             /\ slaved'[e] = slaved[e] + IF e = d /\ i \in slaves THEN 1 ELSE 0
             /\ since'.now[e] = since.now[e] + IF e = d THEN 1 ELSE 0
  BY <1>0, <1>1, <1>2, <1>3, <1>5
<1>10. ASSUME NEW e \in Dirs, NEW j \in Ifaces
       PROVE  /\ cnt'[j][e] = cnt[j][e]
                                + IF e = d /\ j \in CountsOf(i) THEN 1 ELSE 0
              /\ unread'[j][e] = unread[j][e]
                                + IF e = d /\ j \in CountsOf(i) THEN 1 ELSE 0
  <2>1. /\ cnt'[j] = IF j \in CountsOf(i) THEN More(cnt[j]) ELSE cnt[j]
        /\ unread'[j] = IF j \in CountsOf(i) THEN More(unread[j]) ELSE unread[j]
    BY <1>1
  <2>2. /\ cnt[j] \in Counters /\ cnt[j][e] \in Nat
        /\ unread[j] \in Counters /\ unread[j][e] \in Nat
    BY <1>3, <1>7
  <2> QED
    BY <1>2, <2>1, <2>2
<1> QED
  BY <1>1, <1>5, <1>6, <1>8, <1>9, <1>10

(* Each way to parse is a reading of some set of interfaces.               *)
LEMMA ParseCases ==
    ASSUME TypeOK, Parse \/ ParseBlind
    PROVE  faults' \in Nat /\ \E nics \in SUBSET Ifaces : ParseWith(nics)
<1>1. CASE ParseWith(Scan) /\ UNCHANGED faults
  BY <1>1 DEF TypeOK, Scan
<1>2. CASE ParseWith(nicCache) /\ UNCHANGED faults
  BY <1>2 DEF TypeOK
<1>3. CASE ParseBlind
  BY <1>3 DEF ParseBlind, TypeOK
<1> QED
  BY <1>1, <1>2, <1>3 DEF Parse

(* After a reading current holds the interfaces found, and only those.     *)
LEMMA ParseEffect ==
    ASSUME IfaceTypes, NEW nics \in SUBSET Ifaces, ParseWith(nics), faults' \in Nat
    PROVE  IfaceTypes' /\ Read' = nics \ gone /\ Read' \subseteq Ifaces
<1>1. /\ parsed' = TRUE /\ nicCache' = nics /\ lastRound' = nics \ gone
      /\ current' = [i \in nics \ gone |-> cnt[i]]
      /\ inHand' = [i \in nics \ gone |-> unread[i]]
      /\ unread' = [i \in Ifaces |-> IF i \in nics \ gone THEN Zero ELSE unread[i]]
      /\ returned' \in BOOLEAN /\ since' = [read |-> since.now, now |-> Zero]
      /\ UNCHANGED <<gone, slaves, cnt, passed, slaved, foldVars, totalVars, erased>>
  BY DEF ParseWith
<1>2. Read' = nics \ gone /\ Read' \subseteq Ifaces
  BY <1>1 DEF Read
<1>3. Stats(current)'
  BY <1>1, <1>2 DEF Stats, Read, IfaceTypes, TypeOK
<1>4. RoundInv'
  BY <1>1, <1>2, ZeroType DEF RoundInv, IfaceTypes, TypeOK
<1>5. unread \in [Ifaces -> Counters] /\ nics \ gone \subseteq Ifaces
  BY DEF IfaceTypes, TypeOK
<1>6. unread' \in [Ifaces -> Counters] /\ (inHand \in [DOMAIN current -> Counters])'
  BY <1>1, <1>5, ZeroType
<1>7. TypeOK'
  BY <1>1, <1>3, <1>4, <1>6
  DEF TypeOK, IfaceTypes, RoundInv, foldVars, totalVars, Seen, Stats
<1> QED
  BY <1>2, <1>4, <1>7 DEF IfaceTypes

(* What a round counts of an interface.                                    *)
CountedAt(d) ==
    [i \in Ifaces |-> IF i \in Read \cap Seen THEN inHand[i][d] ELSE 0]

(* Counted, as a sum over all the interfaces.                              *)
LEMMA CountedIs ==
    ASSUME TypeOK, NEW d \in Dirs
    PROVE  /\ Counted[d] = Total(CountedAt(d)) /\ Counted[d] \in Nat
           /\ \A i \in Ifaces : CountedAt(d)[i] \in Nat
<1> DEFINE f == [i \in Read \cap Seen |-> inHand[i][d]]
           g == CountedAt(d)
<1>1. Counted[d] = SumOf(f)
  BY DEF Counted, Read
<1>2. \A i \in Ifaces : g[i] \in Nat /\ g[i] \in Int
  <2>1. \A i \in Read : inHand[i][d] \in Nat
    BY DEF TypeOK, Counters, Read
  <2> QED
    BY <2>1 DEF CountedAt
<1>3. DOMAIN f \subseteq Ifaces
  BY DEF Read, TypeOK, Stats
<1>4. /\ \A i \in DOMAIN f : f[i] = g[i]
      /\ \A i \in Ifaces \ DOMAIN f : g[i] = 0
  BY <1>3 DEF CountedAt
<1> HIDE DEF f
<1>5. SumOf(f) = Total(g) /\ Total(g) \in Nat
  BY <1>2, <1>3, <1>4, SumOfPart, TotalNat
<1> QED
  BY <1>1, <1>2, <1>5

(* It is a counter of every direction.                                     *)
LEMMA CountedType == TypeOK => Counted \in Counters
<1> SUFFICES ASSUME TypeOK PROVE Counted \in Counters
  OBVIOUS
<1>1. \A d \in Dirs : Counted[d] \in Nat
  BY CountedIs
<1> QED
  BY <1>1 DEF Counted, Counters

(* A fold ends the round: what it has read is seen, and nothing is read.   *)
LEMMA FoldType ==
    ASSUME IfaceTypes, NEW timely \in BOOLEAN, Fold(timely)
    PROVE  IfaceTypes' /\ Read' = {} /\ Seen' = Seen \cup Read
<1>0. /\ parsed /\ parsed' = FALSE /\ current' = NoStats /\ sampled' = TRUE
      /\ UNCHANGED <<kernelVars, nicCache, lastRound, returned, since, taken,
                     unread, erased>>
      /\ lastStats' = [i \in Seen \cup Read |->
                          IF i \in Read THEN current[i] ELSE lastStats[i]]
      /\ due' = Plus(due, Counted) /\ inHand' = NoStats
  BY DEF Fold, Read
<1>1. Seen' = Seen \cup Read /\ Read' = {}
  BY <1>0 DEF Seen, Read, NoStats
<1>2. /\ \A i \in Read : i \in Ifaces /\ current[i] \in Counters
      /\ \A i \in Seen : i \in Ifaces /\ lastStats[i] \in Counters
  BY DEF IfaceTypes, TypeOK, Stats, Read, Seen
<1>3. Stats(lastStats)' /\ Stats(current)'
  <2>1. \A i \in Seen' : lastStats'[i] \in Counters
    BY <1>0, <1>1, <1>2
  <2>2. Seen' \subseteq Ifaces
    BY <1>1, <1>2
  <2>3. DOMAIN lastStats' = Seen'
    BY DEF Seen
  <2>4. DOMAIN current' = {}
    BY <1>1 DEF Read
  <2> QED
    BY <2>1, <2>2, <2>3, <2>4 DEF Stats
<1>4. {live', rate', due', dropped'} \subseteq Counters
  <2>0. /\ Counted \in Counters /\ due' \in Counters
        /\ Plus(dropped, Counted) \in Counters /\ dropped \in Counters
    BY <1>0, CountedType, PlusType DEF IfaceTypes, TypeOK
  <2>1. CASE \E i \in Read : WentBack(i)
    BY <2>0, <2>1, ZeroType DEF Fold, Read, IfaceTypes, TypeOK
  <2>2. CASE ~\E i \in Read : WentBack(i)
    <3>1. Added \in Counters
      BY <2>2, AddedType DEF IfaceTypes
    <3>2. Plus(live, Added) \in Counters
      BY <3>1, PlusType DEF IfaceTypes, TypeOK
    <3> QED
      BY <2>0, <2>2, <3>1, <3>2, ZeroType
      DEF Fold, Read, Totals, RoundRate, IfaceTypes, TypeOK
  <2> QED
    BY <2>1, <2>2
<1>5. RoundInv'
  BY <1>0, <1>1 DEF RoundInv, IfaceTypes
<1>6. TypeOK'
  <2>1. /\ gone \subseteq Ifaces /\ slaves \subseteq Nics /\ faults \in Nat
        /\ cnt \in [Ifaces -> Counters]
        /\ nicCache \subseteq Ifaces /\ lastRound \subseteq Ifaces
        /\ {taken, passed, slaved, since.read, since.now, erased} \subseteq Counters
        /\ unread \in [Ifaces -> Counters] /\ returned \in BOOLEAN
    BY DEF IfaceTypes, TypeOK
  <2>2. /\ UNCHANGED <<gone, slaves, cnt, faults, passed, slaved, nicCache, lastRound,
                       returned, since, taken, unread, erased>>
    BY <1>0 DEF kernelVars
  <2>3. (inHand \in [DOMAIN current -> Counters])'
    BY <1>0 DEF NoStats
  <2> QED
    BY <1>0, <1>1, <1>3, <1>4, <2>1, <2>2, <2>3 DEF TypeOK
<1> QED
  BY <1>1, <1>5, <1>6 DEF IfaceTypes

(* Taking the totals moves them, and loses none.                           *)
LEMMA TakeType ==
    ASSUME IfaceTypes, TakeTotals
    PROVE  IfaceTypes' /\ \A d \in Dirs : live'[d] + taken'[d] = live[d] + taken[d]
<1>0. live \in Counters /\ taken \in Counters
  BY DEF IfaceTypes, TypeOK
<1>1. /\ taken' = Plus(taken, live) /\ live' = Zero
      /\ UNCHANGED <<kernelVars, readVars, parsed, since, foldVars, byteVars, erased>>
  BY DEF TakeTotals
<1>2. taken' \in Counters /\ live' \in Counters
  BY <1>0, <1>1, PlusType, ZeroType
<1>3. \A d \in Dirs : live'[d] + taken'[d] = live[d] + taken[d]
  BY <1>0, <1>1, PlusType, ZeroType DEF Counters
<1>4. IfaceTypes'
  BY <1>1, <1>2
  DEF IfaceTypes, TypeOK, RoundInv, Read, Seen, Stats, kernelVars, readVars, foldVars,
      byteVars
<1> QED
  BY <1>3, <1>4

(* IfaceTypes is inductive.                                                *)
LEMMA IfaceStep == IfaceTypes /\ [Next]_vars => IfaceTypes'
<1> SUFFICES ASSUME IfaceTypes, [Next]_vars PROVE IfaceTypes'
  OBVIOUS
<1>1. ASSUME NEW i \in Nics, NEW d \in Dirs, Packet(i, d) PROVE IfaceTypes'
  <2>1. /\ UNCHANGED <<gone, slaves, faults, readVars, parsed, foldVars, totalVars,
                       inHand, erased>>
        /\ cnt' \in [Ifaces -> Counters] /\ unread' \in [Ifaces -> Counters]
        /\ passed' \in Counters /\ slaved' \in Counters
        /\ since' \in [read : Counters, now : Counters]
    BY <1>1, PacketEffect
  <2>2. since.read' \in Counters /\ since.now' \in Counters
    BY <2>1
  <2> QED
    BY <2>1, <2>2
    DEF IfaceTypes, TypeOK, RoundInv, Read, Seen, Stats, readVars, foldVars, totalVars
<1>2. CASE Disturb
  BY <1>2, DisturbType
  DEF Disturbed, IfaceTypes, TypeOK, RoundInv, Read, Seen, Stats, readVars, foldVars,
      totalVars, byteVars
<1>3. CASE Parse \/ ParseBlind
  BY <1>3, ParseCases, ParseEffect DEF IfaceTypes
<1>4. CASE \E timely \in BOOLEAN : Fold(timely)
  BY <1>4, FoldType
<1>5. CASE TakeTotals
  BY <1>5, TakeType
<1>6. CASE UNCHANGED vars
  BY <1>6
  DEF vars, IfaceTypes, TypeOK, RoundInv, Read, Seen, Stats, kernelVars, readVars,
      foldVars, totalVars, byteVars
<1> QED
  BY <1>1, <1>2, <1>3, <1>4, <1>5, <1>6 DEF Next, Disturb

(* Between rounds current is empty, and within one lastRound is what the   *)
(* round has read.                                                         *)
THEOREM IfaceInvariant == Spec => []IfaceTypes
  BY IfaceInit, IfaceStep, PTL DEF Spec

(* No total and no rate is ever negative, whatever the kernel's counters   *)
(* do.                                                                     *)
THEOREM IfaceTypeCorrect == Spec => []TypeOK
<1>1. IfaceTypes => TypeOK
  BY DEF IfaceTypes
<1> QED
  BY <1>1, IfaceInvariant, PTL

-----------------------------------------------------------------------------
Positive(n) == IF n > 0 THEN n ELSE 0

(* What the round adds for an interface unless it is dropped, and what the *)
(* rounds after it may still add of the bytes counted so far.              *)
Newest(i) == IF i \in Read THEN current[i] ELSE lastStats[i]
Due(i, d) ==
    IF i \in Read \cap Seen THEN Positive(current[i][d] - lastStats[i][d]) ELSE 0
Later(i, d) ==
    IF i \in Read \cup Seen THEN Positive(cnt[i][d] - Newest(i)[d]) ELSE 0

DueAt(d) == [i \in Ifaces |-> Due(i, d)]
PendingAt(d) == [i \in Ifaces |-> Due(i, d) + Later(i, d)]

(* TotalsSound is not inductive: a round adds bytes that passed before.    *)
SoundInv ==
    \A d \in Dirs :
        live[d] + taken[d] + Total(PendingAt(d)) <= passed[d] + slaved[d]

(* What is due and what may come later are never negative.                 *)
LEMMA PendingType ==
    ASSUME TypeOK, NEW d \in Dirs, NEW i \in Ifaces
    PROVE  /\ Due(i, d) \in Nat /\ Later(i, d) \in Nat /\ cnt[i][d] \in Nat
           /\ i \in Read => current[i][d] \in Nat
           /\ i \in Seen => lastStats[i][d] \in Nat
           /\ i \in Read \cup Seen => Newest(i)[d] \in Nat
<1>1. /\ cnt[i][d] \in Nat
      /\ i \in Read => current[i][d] \in Nat
      /\ i \in Seen => lastStats[i][d] \in Nat
  BY DEF TypeOK, Stats, Counters, Read, Seen
<1>2. i \in Read \cup Seen => Newest(i)[d] \in Nat
  BY <1>1 DEF Newest
<1>3. Due(i, d) \in Nat /\ Later(i, d) \in Nat
  BY <1>1, <1>2 DEF Due, Later, Positive
<1> QED
  BY <1>1, <1>2, <1>3

(* Nor are their sums.                                                     *)
LEMMA PendingNat ==
    ASSUME TypeOK, NEW d \in Dirs
    PROVE  Total(PendingAt(d)) \in Nat /\ Total(DueAt(d)) \in Nat
<1>1. \A i \in Ifaces : PendingAt(d)[i] \in Nat /\ DueAt(d)[i] \in Nat
  BY PendingType DEF PendingAt, DueAt
<1> QED
  BY <1>1, TotalNat

(* What is read stays read, and a counter that falls leaves less to come.  *)
LEMMA DisturbLater ==
    ASSUME IfaceTypes, Disturb, NEW d \in Dirs, NEW i \in Ifaces
    PROVE  /\ Due(i, d)' = Due(i, d)
           /\ Later(i, d)' <= Later(i, d) /\ Later(i, d)' \in Nat
<1>1. Disturbed
  BY DisturbType DEF IfaceTypes
<1>2. /\ Read' = Read /\ Seen' = Seen /\ Newest(i)' = Newest(i)
      /\ current' = current /\ lastStats' = lastStats
  BY <1>1 DEF Disturbed, Read, Seen, Newest, readVars, foldVars
<1>3. Due(i, d)' = Due(i, d)
  BY <1>2 DEF Due
<1>4. cnt'[i][d] <= cnt[i][d] /\ cnt'[i][d] \in Nat /\ cnt[i][d] \in Nat
  <2>0. cnt \in [Ifaces -> Counters] /\ cnt' \in [Ifaces -> Counters]
    BY <1>1 DEF Disturbed, IfaceTypes, TypeOK
  <2>1. cnt'[i][d] \in Nat /\ cnt[i][d] \in Nat
    BY <2>0 DEF Counters
  <2>2. cnt'[i][d] \in {cnt[i][d], 0}
    <3>1. CASE UNCHANGED cnt
      BY <3>1
    <3>2. ASSUME NEW j \in Ifaces, Plug(j) PROVE cnt'[i][d] \in {cnt[i][d], 0}
      BY <2>0, <3>2, ZeroType DEF Plug
    <3>3. ASSUME NEW j \in Ifaces, NEW e \in Dirs, Wrap(j, e)
          PROVE  cnt'[i][d] \in {cnt[i][d], 0}
      BY <2>0, <3>3 DEF Wrap, Counters
    <3> QED
      BY <3>1, <3>2, <3>3 DEF Disturb, Unplug, Enslave, Release
  <2> QED
    BY <2>1, <2>2
<1>5. i \in Read \cup Seen => Newest(i)[d] \in Nat
  BY PendingType DEF IfaceTypes
<1>6. Later(i, d)' = IF i \in Read \cup Seen
                      THEN Positive(cnt'[i][d] - Newest(i)[d]) ELSE 0
  BY <1>2 DEF Later
<1>7. Later(i, d)' <= Later(i, d) /\ Later(i, d)' \in Nat
  BY <1>4, <1>5, <1>6 DEF Later, Positive
<1> QED
  BY <1>3, <1>7

(* A packet adds one at most where it counts.                              *)
LEMMA PacketLater ==
    ASSUME IfaceTypes, NEW c \in Nics, NEW b \in Dirs, Packet(c, b),
           NEW d \in Dirs, NEW i \in Ifaces
    PROVE  /\ Due(i, d)' = Due(i, d) /\ Later(i, d)' \in Nat
           /\ Later(i, d)' <= Later(i, d)
                                + IF d = b /\ i \in CountsOf(c) THEN 1 ELSE 0
<1>1. /\ UNCHANGED <<readVars, foldVars>>
      /\ cnt'[i][d] = cnt[i][d] + IF d = b /\ i \in CountsOf(c) THEN 1 ELSE 0
  BY PacketEffect
<1>2. /\ Read' = Read /\ Seen' = Seen /\ Newest(i)' = Newest(i)
      /\ current' = current /\ lastStats' = lastStats
  BY <1>1 DEF Read, Seen, Newest, readVars, foldVars
<1>3. Due(i, d)' = Due(i, d)
  BY <1>2 DEF Due
<1>4. Later(i, d)' = IF i \in Read \cup Seen
                      THEN Positive(cnt'[i][d] - Newest(i)[d]) ELSE 0
  BY <1>2 DEF Later
<1>5. cnt[i][d] \in Nat /\ (i \in Read \cup Seen => Newest(i)[d] \in Nat)
  BY PendingType DEF IfaceTypes
<1>6. CASE d = b /\ i \in CountsOf(c)
  BY <1>1, <1>3, <1>4, <1>5, <1>6 DEF Later, Positive
<1>7. CASE ~(d = b /\ i \in CountsOf(c))
  BY <1>1, <1>3, <1>4, <1>5, <1>7 DEF Later, Positive
<1> QED
  BY <1>6, <1>7

(* To read a counter is no more than to put off what it has to add.        *)
LEMMA ParsePending ==
    ASSUME IfaceTypes, NEW nics \in SUBSET Ifaces, ParseWith(nics), faults' \in Nat,
           NEW d \in Dirs, NEW i \in Ifaces
    PROVE  /\ Due(i, d)' + Later(i, d)' = Due(i, d) + Later(i, d)
           /\ Due(i, d)' \in Nat /\ Later(i, d)' \in Nat
           /\ Due(i, d)' = IF i \in Read' THEN Later(i, d) ELSE 0
           /\ i \in Read' => Later(i, d)' = 0
<1>1. /\ IfaceTypes' /\ Read' = nics \ gone
      /\ current' = [j \in nics \ gone |-> cnt[j]]
      /\ lastStats' = lastStats /\ cnt' = cnt /\ Seen' = Seen
  BY ParseEffect DEF ParseWith, foldVars, Seen
<1>2. Read = {}
  BY DEF ParseWith, IfaceTypes, RoundInv
<1>3. Due(i, d) = 0
  BY <1>2 DEF Due
<1>4. cnt[i][d] \in Nat /\ (i \in Seen => lastStats[i][d] \in Nat)
  BY PendingType DEF IfaceTypes
<1>5. Later(i, d) = IF i \in Seen THEN Positive(cnt[i][d] - lastStats[i][d]) ELSE 0
  BY <1>2 DEF Later, Newest
<1>6. Due(i, d)' = IF i \in Read' \cap Seen
                    THEN Positive(current'[i][d] - lastStats[i][d]) ELSE 0
  BY <1>1 DEF Due
<1>7. Later(i, d)' = IF i \in Read' \cup Seen
                      THEN Positive(cnt[i][d] - Newest(i)'[d]) ELSE 0
  BY <1>1 DEF Later
<1>8. Newest(i)' = IF i \in Read' THEN current'[i] ELSE lastStats[i]
  BY <1>1 DEF Newest
<1>9. CASE i \in Read'
  <2>1. current'[i] = cnt[i]
    BY <1>1, <1>9
  <2>2. /\ Later(i, d)' = Positive(cnt[i][d] - cnt[i][d])
        /\ Due(i, d)' = IF i \in Seen THEN Positive(cnt[i][d] - lastStats[i][d]) ELSE 0
    BY <1>6, <1>7, <1>8, <1>9, <2>1
  <2>3. Positive(cnt[i][d] - cnt[i][d]) = 0
    BY <1>4 DEF Positive
  <2>4. Later(i, d) \in Nat
    BY <1>4, <1>5 DEF Positive
  <2> QED
    BY <1>3, <1>5, <1>9, <2>2, <2>3, <2>4
<1>10. CASE i \notin Read'
  <2>1. Due(i, d)' = 0 /\ Later(i, d)' = Later(i, d)
    BY <1>5, <1>6, <1>7, <1>8, <1>10
  <2>2. Later(i, d) \in Nat
    BY <1>4, <1>5 DEF Positive
  <2> QED
    BY <1>3, <1>10, <2>1, <2>2
<1> QED
  BY <1>9, <1>10

(* A round settles what was due: it adds it, or drops it.                  *)
LEMMA FoldPending ==
    ASSUME IfaceTypes, NEW timely \in BOOLEAN, Fold(timely),
           NEW d \in Dirs, NEW i \in Ifaces
    PROVE  Due(i, d)' = 0 /\ Later(i, d)' = Later(i, d)
<1>1. /\ Read' = {} /\ Seen' = Seen \cup Read /\ cnt' = cnt
      /\ lastStats' = [j \in Seen \cup Read |->
                          IF j \in Read THEN current[j] ELSE lastStats[j]]
  BY FoldType DEF Fold, kernelVars, Read
<1>2. i \in Read \cup Seen => Newest(i)' = Newest(i)
  BY <1>1 DEF Newest
<1>3. Due(i, d)' = 0
  BY <1>1 DEF Due
<1>4. Later(i, d)' = Later(i, d)
  BY <1>1, <1>2 DEF Later
<1> QED
  BY <1>3, <1>4

(* A round that is not dropped adds just what was due.                     *)
LEMMA FoldAdds ==
    ASSUME IfaceTypes, NEW d \in Dirs, ~\E j \in Read : WentBack(j)
    PROVE  Added[d] = Total(DueAt(d))
<1>1. ASSUME NEW i \in Ifaces
      PROVE  DeltaAt(d)[i] = DueAt(d)[i] /\ DeltaAt(d)[i] \in Int
  <2>1. CASE i \in Read \cap Seen
    <3>1. current[i][d] \in Nat /\ lastStats[i][d] \in Nat
      BY <2>1, PendingType DEF IfaceTypes
    <3>2. ~(current[i][d] < lastStats[i][d])
      BY <2>1 DEF WentBack
    <3>3. DeltaAt(d)[i] = current[i][d] - lastStats[i][d]
      BY <2>1 DEF DeltaAt, Delta
    <3>4. DueAt(d)[i] = Positive(current[i][d] - lastStats[i][d])
      BY <2>1 DEF DueAt, Due
    <3> QED
      BY <3>1, <3>2, <3>3, <3>4 DEF Positive
  <2>2. CASE i \notin Read \cap Seen
    BY <2>2 DEF DeltaAt, Delta, DueAt, Due
  <2> QED
    BY <2>1, <2>2
<1>2. Total(DeltaAt(d)) = Total(DueAt(d))
  BY <1>1, IfacesFinite, SumSame DEF Total
<1>3. Added[d] = Total(DeltaAt(d))
  BY AddedIs DEF IfaceTypes
<1> QED
  BY <1>2, <1>3

(* At the start nothing is pending.                                        *)
LEMMA SoundInit == Init => SoundInv
<1> SUFFICES ASSUME Init, NEW d \in Dirs
             PROVE  live[d] + taken[d] + Total(PendingAt(d)) <= passed[d] + slaved[d]
  BY DEF SoundInv
<1>1. \A i \in Ifaces : PendingAt(d)[i] = 0
  BY DEF Init, NoStats, Seen, Read, PendingAt, Due, Later
<1>2. Total(PendingAt(d)) = 0
  BY <1>1, TotalZero
<1> QED
  BY <1>2, ZeroType DEF Init

(* Every step keeps the totals, with what is pending, below the traffic.   *)
LEMMA SoundStep == IfaceTypes /\ SoundInv /\ [Next]_vars => SoundInv'
<1> SUFFICES ASSUME IfaceTypes, SoundInv, [Next]_vars, NEW d \in Dirs
             PROVE  live'[d] + taken'[d] + Total(PendingAt(d)')
                      <= passed'[d] + slaved'[d]
  BY DEF SoundInv
<1> DEFINE f == PendingAt(d)
           g == PendingAt(d)'
<1>0. /\ live[d] \in Nat /\ taken[d] \in Nat /\ passed[d] \in Nat /\ slaved[d] \in Nat
      /\ live[d] + taken[d] + Total(f) <= passed[d] + slaved[d]
      /\ TypeOK
  BY DEF SoundInv, IfaceTypes, TypeOK, Counters
<1>t. TypeOK'
  BY IfaceStep DEF IfaceTypes
<1>n. Total(f) \in Nat /\ \A i \in Ifaces : f[i] \in Nat /\ f[i] = Due(i, d) + Later(i, d)
  <2>1. Total(f) \in Nat
    BY <1>0, PendingNat
  <2>2. \A i \in Ifaces : f[i] \in Nat /\ f[i] = Due(i, d) + Later(i, d)
    BY <1>0, PendingType DEF PendingAt
  <2> QED
    BY <2>1, <2>2
<1>g. \A i \in Ifaces : g[i] = Due(i, d)' + Later(i, d)'
  BY DEF PendingAt
<1> SUFFICES live'[d] + taken'[d] + Total(g) <= passed'[d] + slaved'[d]
  OBVIOUS
<1> HIDE DEF f, g
<1>a. ASSUME passed'[d] = passed[d], slaved'[d] = slaved[d],
             live'[d] + taken'[d] = live[d] + taken[d],
             \A i \in Ifaces : g[i] \in Nat /\ g[i] <= f[i]
      PROVE  live'[d] + taken'[d] + Total(g) <= passed'[d] + slaved'[d]
  <2>1. Total(g) <= Total(f) /\ Total(g) \in Nat
    BY <1>n, <1>a, TotalMonotone
  <2> QED
    BY <1>0, <1>n, <1>a, <2>1
<1>1. ASSUME NEW c \in Nics, NEW b \in Dirs, Packet(c, b)
      PROVE  live'[d] + taken'[d] + Total(g) <= passed'[d] + slaved'[d]
  <2>0. /\ UNCHANGED totalVars
        /\ passed'[d] = passed[d] + IF d = b THEN 1 ELSE 0
        /\ slaved'[d] = slaved[d] + IF d = b /\ c \in slaves THEN 1 ELSE 0
    BY <1>1, PacketEffect
  <2>1. \A i \in Ifaces :
           /\ g[i] \in Nat
           /\ g[i] <= f[i] + IF d = b /\ i \in CountsOf(c) THEN 1 ELSE 0
    <3>1. ASSUME NEW i \in Ifaces
          PROVE  /\ g[i] \in Nat
                 /\ g[i] <= f[i] + IF d = b /\ i \in CountsOf(c) THEN 1 ELSE 0
      <4>1. /\ Due(i, d)' = Due(i, d) /\ Later(i, d)' \in Nat
            /\ Later(i, d)' <= Later(i, d)
                                 + IF d = b /\ i \in CountsOf(c) THEN 1 ELSE 0
        BY <1>1, PacketLater
      <4>2. Due(i, d) \in Nat /\ Later(i, d) \in Nat
        BY <1>0, PendingType
      <4> QED
        BY <1>n, <1>g, <4>1, <4>2
    <3> QED
      BY <3>1
  <2>2. CASE d # b
    <3>1. \A i \in Ifaces : g[i] \in Nat /\ g[i] <= f[i]
      BY <1>n, <2>1, <2>2
    <3> QED
      BY <1>0, <1>a, <2>0, <2>2, <3>1 DEF totalVars
  <2>3. CASE d = b /\ c \notin slaves
    <3>1. c \in Ifaces /\ CountsOf(c) = {c}
      BY <2>3, IfacesFinite DEF CountsOf
    <3>2. \A i \in Ifaces : g[i] <= f[i] + IF i = c THEN 1 ELSE 0
      BY <2>1, <2>3, <3>1
    <3>3. Total(g) <= Total(f) + 1 /\ Total(g) \in Nat
      BY <1>n, <2>1, <3>1, <3>2, TotalOneMore
    <3> QED
      BY <1>0, <1>n, <2>0, <2>3, <3>3 DEF totalVars
  <2>4. CASE d = b /\ c \in slaves
    <3> DEFINE h == [i \in Ifaces |-> f[i] + IF i = c THEN 1 ELSE 0]
    <3>1. c \in Ifaces /\ Bond \in Ifaces /\ c # Bond /\ CountsOf(c) = {c, Bond}
      BY <2>4, IfacesFinite DEF CountsOf
    <3>2. \A i \in Ifaces : h[i] = f[i] + IF i = c THEN 1 ELSE 0
      OBVIOUS
    <3>3. \A i \in Ifaces : h[i] \in Nat
      BY <1>n, <3>2
    <3>4. \A i \in Ifaces : h[i] <= f[i] + IF i = c THEN 1 ELSE 0
      BY <3>2, <3>3
    <3>5. \A i \in Ifaces : g[i] <= h[i] + IF i = Bond THEN 1 ELSE 0
      <4>1. ASSUME NEW i \in Ifaces
            PROVE  g[i] <= h[i] + IF i = Bond THEN 1 ELSE 0
        <5>1. f[i] \in Nat /\ g[i] \in Nat /\ h[i] \in Nat
          BY <1>n, <2>1, <3>3
        <5> QED
          BY <2>1, <2>4, <3>1, <3>2, <5>1
      <4> QED
        BY <4>1
    <3> HIDE DEF h
    <3>6. Total(h) <= Total(f) + 1 /\ Total(h) \in Nat
      BY <1>n, <3>1, <3>3, <3>4, TotalOneMore
    <3>7. Total(g) <= Total(h) + 1 /\ Total(g) \in Nat
      BY <2>1, <3>1, <3>3, <3>5, TotalOneMore
    <3> QED
      BY <1>0, <1>n, <2>0, <2>4, <3>6, <3>7 DEF totalVars
  <2> QED
    BY <2>2, <2>3, <2>4
<1>2. CASE Disturb
  <2>1. UNCHANGED <<passed, slaved, totalVars>>
    BY <1>2, DisturbType, <1>0 DEF Disturbed
  <2>2. \A i \in Ifaces : g[i] \in Nat /\ g[i] <= f[i]
    <3>1. ASSUME NEW i \in Ifaces PROVE g[i] \in Nat /\ g[i] <= f[i]
      <4>1. /\ Due(i, d)' = Due(i, d) /\ Later(i, d)' <= Later(i, d)
            /\ Later(i, d)' \in Nat /\ Due(i, d) \in Nat /\ Later(i, d) \in Nat
        BY <1>0, <1>2, DisturbLater, PendingType
      <4> QED
        BY <1>n, <1>g, <4>1
    <3> QED
      BY <3>1
  <2> QED
    BY <1>a, <2>1, <2>2 DEF totalVars
<1>3. CASE Parse \/ ParseBlind
  <2>1. faults' \in Nat /\ \E nics \in SUBSET Ifaces : ParseWith(nics)
    BY <1>0, <1>3, ParseCases
  <2>2. PICK nics \in SUBSET Ifaces : ParseWith(nics)
    BY <2>1
  <2>3. UNCHANGED <<passed, slaved, totalVars>>
    BY <2>2 DEF ParseWith
  <2>4. \A i \in Ifaces : g[i] \in Nat /\ g[i] <= f[i]
    <3>1. ASSUME NEW i \in Ifaces PROVE g[i] \in Nat /\ g[i] <= f[i]
      <4>1. Due(i, d)' + Later(i, d)' = Due(i, d) + Later(i, d)
        BY <2>1, <2>2, ParsePending
      <4> QED
        BY <1>n, <1>g, <4>1
    <3> QED
      BY <3>1
  <2> QED
    BY <1>a, <2>3, <2>4 DEF totalVars
<1>4. ASSUME NEW timely \in BOOLEAN, Fold(timely)
      PROVE  live'[d] + taken'[d] + Total(g) <= passed'[d] + slaved'[d]
  <2>0. UNCHANGED <<passed, slaved, taken>>
    BY <1>4 DEF Fold, kernelVars
  <2>1. \A i \in Ifaces : Due(i, d)' = 0 /\ Later(i, d)' = Later(i, d)
    BY <1>4, FoldPending
  <2>2. \A i \in Ifaces : Due(i, d) \in Nat /\ Later(i, d) \in Nat
    BY <1>0, PendingType
  <2>3. CASE \E i \in Read : WentBack(i)
    <3>1. live' = live
      BY <1>4, <2>3 DEF Fold, Read
    <3>2. \A i \in Ifaces : g[i] \in Nat /\ g[i] <= f[i]
      BY <1>n, <1>g, <2>1, <2>2
    <3> QED
      BY <1>a, <2>0, <3>1, <3>2
  <2>4. CASE ~\E i \in Read : WentBack(i)
    <3>1. live' = Plus(live, Added)
      BY <1>4, <2>4 DEF Fold, Read, Totals
    <3>2. live'[d] = live[d] + Added[d]
      BY <3>1 DEF Plus
    <3>3. Added[d] = Total(DueAt(d))
      BY <2>4, FoldAdds
    <3>4. \A i \in Ifaces : /\ DueAt(d)[i] \in Int /\ g[i] \in Int
                            /\ f[i] = DueAt(d)[i] + g[i]
      BY <1>n, <1>g, <2>1, <2>2 DEF DueAt
    <3>5. Total(f) = Total(DueAt(d)) + Total(g) /\ Total(DueAt(d)) \in Int /\ Total(g) \in Int
      BY <3>4, TotalPlus
    <3> QED
      BY <1>0, <1>n, <2>0, <3>2, <3>3, <3>5
  <2> QED
    BY <2>3, <2>4
<1>5. CASE TakeTotals \/ UNCHANGED vars
  <2>1. /\ live'[d] + taken'[d] = live[d] + taken[d]
        /\ UNCHANGED <<kernelVars, readVars, foldVars>>
    BY <1>5, TakeType DEF TakeTotals, vars, totalVars
  <2>2. Read' = Read /\ Seen' = Seen
    BY <2>1 DEF Read, Seen, readVars, foldVars
  <2>3. \A i \in Ifaces : Due(i, d)' = Due(i, d) /\ Later(i, d)' = Later(i, d)
    BY <2>1, <2>2 DEF Due, Later, Newest, kernelVars, readVars, foldVars
  <2>4. \A i \in Ifaces : g[i] \in Nat /\ g[i] <= f[i]
    BY <1>n, <1>g, <2>3
  <2> QED
    BY <1>a, <2>1, <2>4 DEF kernelVars
<1> QED
  BY <1>1, <1>2, <1>3, <1>4, <1>5 DEF Next, Disturb

(* Whatever interfaces come, go, wrap or restart, the totals never exceed  *)
(* what went through the cards, but for what a card carried inside a bond. *)
THEOREM TotalsAreSound == Spec => []TotalsSound
<1>1. IfaceTypes /\ SoundInv => TotalsSound
  <2> SUFFICES ASSUME IfaceTypes, SoundInv, NEW d \in Dirs
               PROVE  live[d] + taken[d] <= passed[d] + slaved[d]
    BY DEF TotalsSound
  <2>1. /\ live[d] \in Nat /\ taken[d] \in Nat /\ passed[d] \in Nat
        /\ slaved[d] \in Nat /\ Total(PendingAt(d)) \in Nat
    BY PendingNat DEF IfaceTypes, TypeOK, Counters
  <2> QED
    BY <2>1 DEF SoundInv
<1> QED
  BY <1>1, IfaceInvariant, SoundInit, SoundStep, PTL DEF Spec

-----------------------------------------------------------------------------
(* How much less a reading shows than the interface has counted since the  *)
(* reading before: of the round under way, and of the rounds after it.     *)
ShortNow(i, d) ==
    IF i \in Read \cap Seen
    THEN inHand[i][d] - (current[i][d] - lastStats[i][d]) ELSE 0
ShortLater(i, d) ==
    IF i \in Read \cup Seen THEN unread[i][d] - (cnt[i][d] - Newest(i)[d]) ELSE 0

ShortNowAt(d) == [i \in Ifaces |-> ShortNow(i, d)]
ShortLaterAt(d) == [i \in Ifaces |-> ShortLater(i, d)]
Kept(d) == live[d] + taken[d] + dropped[d]

(* TotalsComplete is not inductive: what the readings are short by, and    *)
(* the rounds have yet to settle, is a part of what restarts have erased.  *)
CompleteInv ==
    /\ \A i \in Ifaces, d \in Dirs : ShortNow(i, d) \in Nat /\ ShortLater(i, d) \in Nat
    /\ \A d \in Dirs :
          /\ Kept(d) <= due[d]
          /\ due[d] + Total(ShortNowAt(d)) + Total(ShortLaterAt(d)) <= Kept(d) + erased[d]
    /\ erased = Zero => dropped = Zero

(* The quantities CompleteInv compares are numbers.                        *)
LEMMA ShortTypes ==
    ASSUME TypeOK, NEW d \in Dirs
    PROVE  /\ live[d] \in Nat /\ taken[d] \in Nat /\ dropped[d] \in Nat
           /\ Kept(d) \in Nat /\ due[d] \in Nat /\ erased[d] \in Nat
           /\ \A i \in Ifaces : unread[i][d] \in Nat /\ cnt[i][d] \in Nat
           /\ \A i \in Read : inHand[i][d] \in Nat /\ current[i][d] \in Nat
           /\ \A i \in Seen : lastStats[i][d] \in Nat
<1>1. /\ live[d] \in Nat /\ taken[d] \in Nat /\ dropped[d] \in Nat
      /\ due[d] \in Nat /\ erased[d] \in Nat
  BY DEF TypeOK, Counters
<1>2. /\ \A i \in Ifaces : unread[i][d] \in Nat /\ cnt[i][d] \in Nat
      /\ \A i \in Read : inHand[i][d] \in Nat /\ current[i][d] \in Nat
      /\ \A i \in Seen : lastStats[i][d] \in Nat
  BY DEF TypeOK, Stats, Counters, Read, Seen
<1> QED
  BY <1>1, <1>2 DEF Kept

(* The sums over what the readings are short by.                           *)
LEMMA ShortTotals ==
    ASSUME CompleteInv, NEW d \in Dirs
    PROVE  /\ Total(ShortNowAt(d)) \in Nat /\ Total(ShortLaterAt(d)) \in Nat
           /\ \A i \in Ifaces : ShortNowAt(d)[i] \in Nat /\ ShortLaterAt(d)[i] \in Nat
<1>1. \A i \in Ifaces : ShortNowAt(d)[i] \in Nat /\ ShortLaterAt(d)[i] \in Nat
  BY DEF CompleteInv, ShortNowAt, ShortLaterAt
<1> QED
  BY <1>1, TotalNat

(* At the start nothing has been counted.                                  *)
LEMMA CompleteInit == Init => CompleteInv
<1> SUFFICES ASSUME Init PROVE CompleteInv
  OBVIOUS
<1>1. \A i \in Ifaces, d \in Dirs : ShortNow(i, d) = 0 /\ ShortLater(i, d) = 0
  BY DEF Init, NoStats, Seen, Read, ShortNow, ShortLater
<1>2. \A d \in Dirs : Total(ShortNowAt(d)) = 0 /\ Total(ShortLaterAt(d)) = 0
  BY <1>1, TotalZero DEF ShortNowAt, ShortLaterAt
<1>3. \A d \in Dirs : Kept(d) = 0 /\ due[d] = 0 /\ erased[d] = 0
  BY ZeroType DEF Init, Kept
<1>4. dropped = Zero
  BY DEF Init
<1> QED
  BY <1>1, <1>2, <1>3, <1>4 DEF CompleteInv

(* Steps that leave what every reading is short by, and only move totals.  *)
LEMMA CompleteStays ==
    ASSUME CompleteInv, UNCHANGED <<due, dropped, erased>>,
           \A d \in Dirs : live'[d] + taken'[d] = live[d] + taken[d],
           \A i \in Ifaces, d \in Dirs :
              ShortNow(i, d)' = ShortNow(i, d) /\ ShortLater(i, d)' = ShortLater(i, d)
    PROVE  CompleteInv'
<1>1. \A d \in Dirs : ShortNowAt(d)' = ShortNowAt(d) /\ ShortLaterAt(d)' = ShortLaterAt(d)
  BY DEF ShortNowAt, ShortLaterAt
<1>2. \A d \in Dirs : Kept(d)' = Kept(d)
  BY DEF Kept
<1> QED
  BY <1>1, <1>2 DEF CompleteInv

(* A packet is counted on the counter and among the bytes unread alike.    *)
LEMMA CompletePacket ==
    ASSUME IfaceTypes, CompleteInv, NEW c \in Nics, NEW b \in Dirs, Packet(c, b)
    PROVE  CompleteInv'
<1>1. UNCHANGED <<readVars, foldVars, totalVars, inHand, erased>>
  BY PacketEffect
<1>2. /\ Read' = Read /\ Seen' = Seen /\ \A i : Newest(i)' = Newest(i)
      /\ UNCHANGED <<current, lastStats, due, dropped, live, taken>>
  BY <1>1 DEF Read, Seen, Newest, readVars, foldVars, totalVars
<1>3. ASSUME NEW i \in Ifaces, NEW d \in Dirs
      PROVE  ShortNow(i, d)' = ShortNow(i, d) /\ ShortLater(i, d)' = ShortLater(i, d)
  <2> DEFINE more == IF d = b /\ i \in CountsOf(c) THEN 1 ELSE 0
  <2>1. cnt'[i][d] = cnt[i][d] + more /\ unread'[i][d] = unread[i][d] + more
    BY PacketEffect
  <2>2. more \in Nat
    OBVIOUS
  <2>3. /\ cnt[i][d] \in Nat /\ unread[i][d] \in Nat
        /\ i \in Read \cup Seen => Newest(i)[d] \in Nat
    BY ShortTypes, PendingType DEF IfaceTypes
  <2> HIDE DEF more
  <2>4. i \in Read \cup Seen =>
           unread'[i][d] - (cnt'[i][d] - Newest(i)[d])
             = unread[i][d] - (cnt[i][d] - Newest(i)[d])
    BY <2>1, <2>2, <2>3
  <2>5. ShortLater(i, d)' = ShortLater(i, d)
    BY <1>2, <2>4 DEF ShortLater
  <2> QED
    BY <1>1, <1>2, <2>5 DEF ShortNow
<1> QED
  BY <1>1, <1>2, <1>3, CompleteStays

(* A counter that restarts leaves a reading short by what it had come to.  *)
LEMMA CompleteErase ==
    ASSUME IfaceTypes, CompleteInv, Disturbed, NEW j \in Ifaces,
           \A i \in Ifaces \ {j} : cnt'[i] = cnt[i],
           \A d \in Dirs : \/ cnt'[j][d] = cnt[j][d] /\ erased'[d] = erased[d]
                           \/ /\ cnt'[j][d] = 0
                              /\ erased'[d] = erased[d] + cnt[j][d]
    PROVE  CompleteInv'
<1>1. /\ Read' = Read /\ Seen' = Seen /\ \A i : Newest(i)' = Newest(i)
      /\ UNCHANGED <<current, lastStats, due, dropped, live, taken, unread, inHand>>
  BY DEF Disturbed, Read, Seen, Newest, readVars, foldVars, totalVars, byteVars
<1>2. \A i \in Ifaces, d \in Dirs : ShortNow(i, d)' = ShortNow(i, d)
  BY <1>1 DEF ShortNow
<1>3. \A i \in Ifaces \ {j}, d \in Dirs : ShortLater(i, d)' = ShortLater(i, d)
  BY <1>1 DEF ShortLater
<1>4. ASSUME NEW d \in Dirs
      PROVE  /\ ShortLater(j, d)' \in Nat /\ ShortLater(j, d) \in Nat
             /\ erased'[d] \in Nat /\ erased[d] \in Nat /\ erased[d] <= erased'[d]
             /\ ShortLater(j, d)' - ShortLater(j, d) <= erased'[d] - erased[d]
  <2>1. /\ cnt[j][d] \in Nat /\ unread[j][d] \in Nat /\ erased[d] \in Nat
        /\ j \in Read \cup Seen => Newest(j)[d] \in Nat
        /\ ShortLater(j, d) \in Nat
    BY ShortTypes, PendingType DEF IfaceTypes, CompleteInv
  <2>2. ShortLater(j, d)' = IF j \in Read \cup Seen
                             THEN unread[j][d] - (cnt'[j][d] - Newest(j)[d]) ELSE 0
    BY <1>1 DEF ShortLater
  <2>3. ShortLater(j, d) = IF j \in Read \cup Seen
                            THEN unread[j][d] - (cnt[j][d] - Newest(j)[d]) ELSE 0
    BY DEF ShortLater
  <2>4. CASE j \in Read \cup Seen
    BY <2>1, <2>2, <2>3, <2>4
  <2>5. CASE j \notin Read \cup Seen
    BY <2>1, <2>2, <2>3, <2>5
  <2> QED
    BY <2>4, <2>5
<1>5. \A i \in Ifaces, d \in Dirs : ShortNow(i, d)' \in Nat /\ ShortLater(i, d)' \in Nat
  BY <1>2, <1>3, <1>4 DEF CompleteInv
<1>6. ASSUME NEW d \in Dirs
      PROVE  /\ Kept(d)' <= due'[d]
             /\ due'[d] + Total(ShortNowAt(d)') + Total(ShortLaterAt(d)')
                  <= Kept(d)' + erased'[d]
  <2> DEFINE f == ShortLaterAt(d)
             g == ShortLaterAt(d)'
             w == Total(ShortNowAt(d))
  <2>1. /\ Kept(d)' = Kept(d) /\ due' = due /\ ShortNowAt(d)' = ShortNowAt(d)
    BY <1>1, <1>2 DEF Kept, ShortNowAt
  <2>2. \A i \in Ifaces : f[i] \in Int /\ g[i] \in Int
    BY <1>5 DEF ShortLaterAt, CompleteInv
  <2>3. \A i \in Ifaces \ {j} : f[i] = g[i]
    BY <1>3 DEF ShortLaterAt
  <2>4. g[j] - f[j] <= erased'[d] - erased[d] /\ f[j] \in Nat /\ g[j] \in Nat
    BY <1>4 DEF ShortLaterAt
  <2>5. /\ Kept(d) <= due[d] /\ due[d] + w + Total(f) <= Kept(d) + erased[d]
        /\ Kept(d) \in Nat /\ due[d] \in Nat /\ w \in Nat /\ Total(f) \in Nat
    BY ShortTypes, ShortTotals DEF CompleteInv, IfaceTypes
  <2> HIDE DEF f, g, w
  <2>6. Total(g) = Total(f) - f[j] + g[j]
    BY <2>2, <2>3, IfacesFinite, SumChange DEF Total
  <2>7. due[d] + w + Total(g) <= Kept(d) + erased'[d]
    BY <1>4, <2>4, <2>5, <2>6
  <2> QED
    BY <2>1, <2>5, <2>7 DEF g, w
<1>7. erased' = Zero => dropped' = Zero
  <2> SUFFICES ASSUME erased' = Zero PROVE erased = Zero
    BY <1>1 DEF CompleteInv
  <2>1. \A d \in Dirs : erased[d] = 0
    BY <1>4, ZeroType
  <2>2. erased \in [Dirs -> Nat]
    BY DEF IfaceTypes, TypeOK, Counters
  <2> QED
    BY <2>1, <2>2 DEF Zero
<1> QED
  BY <1>5, <1>6, <1>7 DEF CompleteInv

(* Events that leave the counters, and those that put one back to zero.    *)
LEMMA CompleteDisturb ==
    ASSUME IfaceTypes, CompleteInv, Disturb
    PROVE  CompleteInv'
<1>0. /\ Disturbed /\ cnt \in [Ifaces -> Counters] /\ erased \in Counters
      /\ \A i \in Ifaces, d \in Dirs : cnt[i][d] \in Nat /\ erased[d] \in Nat
  BY DisturbType DEF IfaceTypes, TypeOK, Counters
<1>1. CASE UNCHANGED <<cnt, erased>>
  <2>1. /\ Read' = Read /\ Seen' = Seen /\ \A i : Newest(i)' = Newest(i)
        /\ UNCHANGED <<current, lastStats, due, dropped, live, taken, unread, inHand>>
    BY <1>0 DEF Disturbed, Read, Seen, Newest, readVars, foldVars, totalVars, byteVars
  <2>2. \A i \in Ifaces, d \in Dirs :
           ShortNow(i, d)' = ShortNow(i, d) /\ ShortLater(i, d)' = ShortLater(i, d)
    BY <1>1, <2>1 DEF ShortNow, ShortLater
  <2> QED
    BY <1>1, <2>1, <2>2, CompleteStays
<1>2. ASSUME NEW j \in Ifaces, Plug(j) PROVE CompleteInv'
  <2>1. cnt' = [cnt EXCEPT ![j] = Zero] /\ erased' = Plus(erased, cnt[j])
    BY <1>2 DEF Plug
  <2>2. \A i \in Ifaces \ {j} : cnt'[i] = cnt[i]
    BY <1>0, <2>1
  <2>3. \A d \in Dirs : cnt'[j][d] = 0 /\ erased'[d] = erased[d] + cnt[j][d]
    BY <1>0, <2>1, ZeroType, PlusType
  <2> QED
    BY <1>0, <2>2, <2>3, CompleteErase
<1>3. ASSUME NEW j \in Ifaces, NEW e \in Dirs, Wrap(j, e) PROVE CompleteInv'
  <2>1. /\ cnt' = [cnt EXCEPT ![j][e] = 0]
        /\ erased' = [erased EXCEPT ![e] = @ + cnt[j][e]]
    BY <1>3 DEF Wrap
  <2>2. \A i \in Ifaces \ {j} : cnt'[i] = cnt[i]
    BY <1>0, <2>1
  <2>3. ASSUME NEW d \in Dirs
        PROVE  \/ cnt'[j][d] = cnt[j][d] /\ erased'[d] = erased[d]
               \/ cnt'[j][d] = 0 /\ erased'[d] = erased[d] + cnt[j][d]
    <3>1. CASE d = e
      BY <1>0, <2>1, <3>1 DEF Counters
    <3>2. CASE d # e
      BY <1>0, <2>1, <3>2 DEF Counters
    <3> QED
      BY <3>1, <3>2
  <2> QED
    BY <1>0, <2>2, <2>3, CompleteErase
<1> QED
  BY <1>1, <1>2, <1>3 DEF Disturb, Unplug, Enslave, Release

(* A reading takes what it is short by along.                              *)
LEMMA CompleteParse ==
    ASSUME IfaceTypes, CompleteInv, NEW nics \in SUBSET Ifaces, ParseWith(nics),
           faults' \in Nat
    PROVE  CompleteInv'
<1>1. /\ IfaceTypes' /\ Read' = nics \ gone /\ Seen' = Seen
      /\ current' = [i \in nics \ gone |-> cnt[i]]
      /\ inHand' = [i \in nics \ gone |-> unread[i]]
      /\ unread' = [i \in Ifaces |-> IF i \in nics \ gone THEN Zero ELSE unread[i]]
      /\ UNCHANGED <<cnt, lastStats, due, dropped, live, taken, erased>>
  BY ParseEffect DEF ParseWith, foldVars, totalVars, Seen
<1>2. Read = {}
  BY DEF ParseWith, IfaceTypes, RoundInv
<1>3. ASSUME NEW i \in Ifaces, NEW d \in Dirs
      PROVE  /\ ShortNow(i, d) = 0
             /\ ShortNow(i, d)' + ShortLater(i, d)' = ShortLater(i, d)
             /\ ShortNow(i, d)' \in Nat /\ ShortLater(i, d)' \in Nat
             /\ ShortLater(i, d) \in Nat
  <2>1. /\ cnt[i][d] \in Nat /\ unread[i][d] \in Nat
        /\ i \in Seen => lastStats[i][d] \in Nat
        /\ ShortLater(i, d) \in Nat
    BY ShortTypes DEF IfaceTypes, CompleteInv
  <2>2. ShortNow(i, d) = 0
    BY <1>2 DEF ShortNow
  <2>3. ShortLater(i, d) = IF i \in Seen
                            THEN unread[i][d] - (cnt[i][d] - lastStats[i][d]) ELSE 0
    BY <1>2 DEF ShortLater, Newest
  <2>4. CASE i \in Read'
    <3>1. /\ current'[i] = cnt[i] /\ inHand'[i] = unread[i] /\ unread'[i] = Zero
          /\ cnt' = cnt
      BY <1>1, <2>4
    <3>2. ShortNow(i, d)' = IF i \in Seen
                             THEN unread[i][d] - (cnt[i][d] - lastStats[i][d]) ELSE 0
      BY <1>1, <2>4, <3>1 DEF ShortNow
    <3>3. Newest(i)' = cnt[i]
      BY <2>4, <3>1 DEF Newest
    <3>4. ShortLater(i, d)' = unread'[i][d] - (cnt'[i][d] - Newest(i)'[d])
      BY <2>4 DEF ShortLater
    <3>5. ShortLater(i, d)' = 0 - (cnt[i][d] - cnt[i][d])
      BY <3>1, <3>3, <3>4, ZeroType
    <3> QED
      BY <2>1, <2>2, <2>3, <3>2, <3>5
  <2>5. CASE i \notin Read'
    <3>1. ShortNow(i, d)' = 0
      BY <2>5 DEF ShortNow
    <3>2. unread'[i] = unread[i] /\ cnt' = cnt
      BY <1>1, <2>5
    <3>3. i \in Seen => Newest(i)' = lastStats[i]
      BY <1>1, <2>5 DEF Newest
    <3>4. ShortLater(i, d)' = ShortLater(i, d)
      BY <1>1, <2>3, <2>5, <3>2, <3>3 DEF ShortLater
    <3> QED
      BY <2>1, <2>2, <3>1, <3>4
  <2> QED
    BY <2>4, <2>5
<1>4. ASSUME NEW d \in Dirs
      PROVE  /\ Kept(d)' <= due'[d]
             /\ due'[d] + Total(ShortNowAt(d)') + Total(ShortLaterAt(d)')
                  <= Kept(d)' + erased'[d]
  <2> DEFINE f == ShortLaterAt(d)
             g == ShortNowAt(d)'
             h == ShortLaterAt(d)'
  <2>1. Kept(d)' = Kept(d) /\ due' = due /\ erased' = erased
    BY <1>1 DEF Kept
  <2>2. Total(ShortNowAt(d)) = 0
    BY <1>3, TotalZero DEF ShortNowAt
  <2>3. \A i \in Ifaces : g[i] \in Int /\ h[i] \in Int /\ f[i] = g[i] + h[i]
    BY <1>3 DEF ShortNowAt, ShortLaterAt
  <2>4. /\ Kept(d) <= due[d]
        /\ due[d] + Total(ShortNowAt(d)) + Total(f) <= Kept(d) + erased[d]
        /\ Kept(d) \in Nat /\ due[d] \in Nat /\ erased[d] \in Nat
    BY ShortTypes DEF CompleteInv, IfaceTypes
  <2> HIDE DEF f, g, h
  <2>5. Total(f) = Total(g) + Total(h) /\ Total(g) \in Int /\ Total(h) \in Int
    <3>1. Total(f) = Total(g) + Total(h)
      BY <2>3, IfacesFinite, SumPlus DEF Total
    <3>2. Total(g) \in Int
      BY <2>3, IfacesFinite, SumInt DEF Total
    <3>3. Total(h) \in Int
      BY <2>3, IfacesFinite, SumInt DEF Total
    <3> QED
      BY <3>1, <3>2, <3>3
  <2>6. due[d] + Total(g) + Total(h) <= Kept(d) + erased[d]
    BY <2>2, <2>4, <2>5
  <2> QED
    BY <2>1, <2>4, <2>6 DEF g, h
<1> QED
  BY <1>1, <1>3, <1>4 DEF CompleteInv

(* A fold adds, or drops, what its readings show; the rest stays erased.   *)
LEMMA CompleteFold ==
    ASSUME IfaceTypes, CompleteInv, NEW timely \in BOOLEAN, Fold(timely)
    PROVE  CompleteInv'
<1>1. /\ Read' = {} /\ Seen' = Seen \cup Read /\ UNCHANGED <<cnt, unread, taken, erased>>
      /\ due' = Plus(due, Counted)
      /\ lastStats' = [i \in Seen \cup Read |->
                          IF i \in Read THEN current[i] ELSE lastStats[i]]
  BY FoldType DEF Fold, kernelVars, Read
<1>2. \A i \in Read \cup Seen : Newest(i)' = Newest(i)
  BY <1>1 DEF Newest
<1>3. \A i \in Ifaces, d \in Dirs :
         ShortNow(i, d)' = 0 /\ ShortLater(i, d)' = ShortLater(i, d)
  BY <1>1, <1>2 DEF ShortNow, ShortLater
<1>4. ASSUME NEW d \in Dirs
      PROVE  /\ Counted[d] = Added[d] + Total(ShortNowAt(d))
             /\ Counted[d] \in Nat /\ Added[d] \in Int
  <2>1. \A i \in Ifaces : /\ DeltaAt(d)[i] \in Int /\ ShortNowAt(d)[i] \in Int
                          /\ CountedAt(d)[i] = DeltaAt(d)[i] + ShortNowAt(d)[i]
    <3>1. ASSUME NEW i \in Ifaces
          PROVE  CountedAt(d)[i] = DeltaAt(d)[i] + ShortNowAt(d)[i]
      <4>1. CASE i \in Read \cap Seen
        <5>1. /\ inHand[i][d] \in Nat /\ current[i][d] \in Nat
              /\ lastStats[i][d] \in Nat
          BY <4>1, ShortTypes DEF IfaceTypes
        <5>2. /\ CountedAt(d)[i] = inHand[i][d]
              /\ DeltaAt(d)[i] = current[i][d] - lastStats[i][d]
              /\ ShortNowAt(d)[i] = inHand[i][d] - (current[i][d] - lastStats[i][d])
          BY <4>1 DEF CountedAt, DeltaAt, Delta, ShortNowAt, ShortNow
        <5> QED
          BY <5>1, <5>2
      <4>2. CASE i \notin Read \cap Seen
        BY <4>2 DEF CountedAt, DeltaAt, Delta, ShortNowAt, ShortNow
      <4> QED
        BY <4>1, <4>2
    <3>2. \A i \in Ifaces : DeltaAt(d)[i] \in Int /\ ShortNowAt(d)[i] \in Int
      BY DeltaType, ShortTotals DEF IfaceTypes
    <3> QED
      BY <3>1, <3>2
  <2>2. Total(CountedAt(d)) = Total(DeltaAt(d)) + Total(ShortNowAt(d))
    BY <2>1, TotalPlus
  <2>3. Counted[d] = Total(CountedAt(d)) /\ Counted[d] \in Nat
    BY CountedIs DEF IfaceTypes
  <2>4. Added[d] = Total(DeltaAt(d)) /\ Added[d] \in Int
    BY AddedIs DEF IfaceTypes
  <2> QED
    BY <2>2, <2>3, <2>4
<1>5. ASSUME NEW d \in Dirs
      PROVE  /\ due'[d] = due[d] + Counted[d]
             /\ \/ Kept(d)' = Kept(d) + Added[d]
                \/ Kept(d)' = Kept(d) + Counted[d]
  <2>1. due'[d] = due[d] + Counted[d]
    BY <1>1 DEF Plus
  <2>2. /\ live[d] \in Nat /\ taken[d] \in Nat /\ dropped[d] \in Nat
        /\ Counted[d] \in Nat /\ Added[d] \in Int
    BY <1>4, ShortTypes DEF IfaceTypes
  <2>3. CASE \E i \in Read : WentBack(i)
    <3>1. live' = live /\ taken' = taken /\ dropped'[d] = dropped[d] + Counted[d]
      BY <1>1, <2>3 DEF Fold, Read, Plus
    <3> QED
      BY <2>1, <2>2, <3>1 DEF Kept
  <2>4. CASE ~\E i \in Read : WentBack(i)
    <3>1. live'[d] = live[d] + Added[d] /\ taken' = taken /\ dropped' = dropped
      BY <1>1, <2>4 DEF Fold, Read, Totals, Plus
    <3> QED
      BY <2>1, <2>2, <3>1 DEF Kept
  <2> QED
    BY <2>3, <2>4
<1>6. ASSUME NEW d \in Dirs
      PROVE  /\ Kept(d)' <= due'[d]
             /\ due'[d] + Total(ShortNowAt(d)') + Total(ShortLaterAt(d)')
                  <= Kept(d)' + erased'[d]
  <2> DEFINE w == Total(ShortNowAt(d))
             l == Total(ShortLaterAt(d))
  <2>1. Total(ShortNowAt(d)') = 0
    <3>1. \A i \in Ifaces : ShortNowAt(d)'[i] = 0
      BY <1>3 DEF ShortNowAt
    <3> QED
      BY <3>1, TotalZero
  <2>2. Total(ShortLaterAt(d)') = l
    BY <1>3 DEF ShortLaterAt
  <2>3. /\ Kept(d) <= due[d] /\ due[d] + w + l <= Kept(d) + erased[d]
        /\ Kept(d) \in Nat /\ due[d] \in Nat /\ erased[d] \in Nat
        /\ w \in Nat /\ l \in Nat
    BY ShortTypes, ShortTotals DEF CompleteInv, IfaceTypes
  <2>4. Counted[d] = Added[d] + w /\ Counted[d] \in Nat /\ Added[d] \in Int
    BY <1>4
  <2> HIDE DEF w, l
  <2> QED
    BY <1>1, <1>5, <2>1, <2>2, <2>3, <2>4
<1>7. erased' = Zero => dropped' = Zero
  <2> SUFFICES ASSUME erased = Zero PROVE dropped' = dropped
    BY <1>1 DEF CompleteInv
  <2> SUFFICES ASSUME NEW i \in Read, WentBack(i) PROVE FALSE
    BY DEF Fold, Read
  <2>1. PICK d \in Dirs : i \in Seen /\ current[i][d] < lastStats[i][d]
    BY DEF WentBack
  <2>2. i \in Ifaces
    BY DEF IfaceTypes, TypeOK, Stats, Read
  <2>3. inHand[i][d] \in Nat /\ current[i][d] \in Nat /\ lastStats[i][d] \in Nat
    BY <2>1, ShortTypes DEF IfaceTypes
  <2>4. ShortNowAt(d)[i] = inHand[i][d] - (current[i][d] - lastStats[i][d])
    BY <2>1, <2>2 DEF ShortNowAt, ShortNow
  <2>5. ShortNowAt(d)[i] > 0
    BY <2>1, <2>3, <2>4
  <2>6. Total(ShortNowAt(d)) > 0
    BY <2>2, <2>5, ShortTotals, TotalPositive
  <2>7. /\ Kept(d) <= due[d]
        /\ due[d] + Total(ShortNowAt(d)) + Total(ShortLaterAt(d)) <= Kept(d) + 0
        /\ Kept(d) \in Nat /\ due[d] \in Nat
        /\ Total(ShortNowAt(d)) \in Nat /\ Total(ShortLaterAt(d)) \in Nat
    BY ShortTypes, ShortTotals, ZeroType DEF CompleteInv, IfaceTypes
  <2> QED
    BY <2>6, <2>7
<1>8. \A i \in Ifaces, d \in Dirs : ShortNow(i, d)' \in Nat /\ ShortLater(i, d)' \in Nat
  BY <1>3 DEF CompleteInv
<1> QED
  BY <1>6, <1>7, <1>8 DEF CompleteInv

(* CompleteInv is inductive.                                               *)
LEMMA CompleteStep == IfaceTypes /\ CompleteInv /\ [Next]_vars => CompleteInv'
<1> SUFFICES ASSUME IfaceTypes, CompleteInv, [Next]_vars PROVE CompleteInv'
  OBVIOUS
<1>1. CASE \E i \in Nics, d \in Dirs : Packet(i, d)
  BY <1>1, CompletePacket
<1>2. CASE Disturb
  BY <1>2, CompleteDisturb
<1>3. CASE Parse \/ ParseBlind
  BY <1>3, ParseCases, CompleteParse DEF IfaceTypes
<1>4. CASE \E timely \in BOOLEAN : Fold(timely)
  BY <1>4, CompleteFold
<1>5. CASE TakeTotals \/ UNCHANGED vars
  <2>1. /\ \A d \in Dirs : live'[d] + taken'[d] = live[d] + taken[d]
        /\ UNCHANGED <<kernelVars, readVars, foldVars, byteVars, erased>>
    BY <1>5, TakeType DEF TakeTotals, vars, totalVars
  <2>2. /\ Read' = Read /\ Seen' = Seen /\ \A i : Newest(i)' = Newest(i)
        /\ UNCHANGED <<cnt, current, lastStats, due, dropped, unread, inHand, erased>>
    BY <2>1 DEF Read, Seen, Newest, kernelVars, readVars, foldVars, byteVars
  <2>3. \A i \in Ifaces, d \in Dirs :
           ShortNow(i, d)' = ShortNow(i, d) /\ ShortLater(i, d)' = ShortLater(i, d)
    BY <2>2 DEF ShortNow, ShortLater
  <2> QED
    BY <2>1, <2>2, <2>3, CompleteStays
<1> QED
  BY <1>1, <1>2, <1>3, <1>4, <1>5 DEF Next, Disturb

(* What the interfaces counted from their first reading to their last is   *)
(* in the totals or in a round that was dropped, short by at most what a   *)
(* counter had come to when it restarted, whether an interface was absent  *)
(* for some rounds, the pause was too long or a take fell between two      *)
(* steps of a round; and no round is dropped before a counter restarts.    *)
THEOREM TotalsAreComplete == Spec => []TotalsComplete
<1>1. IfaceTypes /\ CompleteInv => TotalsComplete
  <2> SUFFICES ASSUME IfaceTypes, CompleteInv PROVE TotalsComplete
    OBVIOUS
  <2>1. ASSUME NEW d \in Dirs
        PROVE  Kept(d) <= due[d] /\ due[d] <= Kept(d) + erased[d]
    <3>1. /\ Kept(d) <= due[d]
          /\ due[d] + Total(ShortNowAt(d)) + Total(ShortLaterAt(d))
               <= Kept(d) + erased[d]
          /\ Kept(d) \in Nat /\ due[d] \in Nat /\ erased[d] \in Nat
          /\ Total(ShortNowAt(d)) \in Nat /\ Total(ShortLaterAt(d)) \in Nat
      BY ShortTypes, ShortTotals DEF CompleteInv, IfaceTypes
    <3> QED
      BY <3>1
  <2>2. erased = Zero => dropped = Zero
    BY DEF CompleteInv
  <2> QED
    BY <2>1, <2>2 DEF TotalsComplete, Kept
<1> QED
  BY <1>1, IfaceInvariant, CompleteInit, CompleteStep, PTL DEF Spec

-----------------------------------------------------------------------------
(* What the interfaces of the last round have counted since.               *)
OfRoundAt(d) == [i \in Ifaces |-> IF i \in lastRound THEN Later(i, d) ELSE 0]

(* RatesFresh, with what the bytes since the last reading bound: the rates *)
(* of the round after it, unless it sees an interface again.               *)
RateInv ==
    slaved = Zero =>
        \A d \in Dirs :
            /\ Total(OfRoundAt(d)) <= since.now[d]
            /\ parsed /\ ~returned => Total(DueAt(d)) <= since.read[d]
            /\ ~parsed /\ ~returned => rate[d] <= since.read[d]

(* At the start there is no rate.                                          *)
LEMMA RateInit == Init => RateInv
<1> SUFFICES ASSUME Init, NEW d \in Dirs
             PROVE  /\ Total(OfRoundAt(d)) <= since.now[d]
                    /\ ~parsed /\ rate[d] <= since.read[d]
  BY DEF RateInv
<1>1. \A i \in Ifaces : OfRoundAt(d)[i] = 0
  BY DEF Init, OfRoundAt
<1> QED
  BY <1>1, TotalZero, ZeroType DEF Init

(* The quantities RateInv compares are naturals.                           *)
LEMMA RateTypes ==
    ASSUME IfaceTypes, NEW d \in Dirs
    PROVE  /\ since.now[d] \in Nat /\ since.read[d] \in Nat /\ rate[d] \in Nat
           /\ \A i \in Ifaces : OfRoundAt(d)[i] \in Nat /\ DueAt(d)[i] \in Nat
           /\ Total(OfRoundAt(d)) \in Nat /\ Total(DueAt(d)) \in Nat
<1>1. since.now[d] \in Nat /\ since.read[d] \in Nat /\ rate[d] \in Nat
  BY DEF IfaceTypes, TypeOK, Counters
<1>2. \A i \in Ifaces : OfRoundAt(d)[i] \in Nat /\ DueAt(d)[i] \in Nat
  BY PendingType DEF IfaceTypes, OfRoundAt, DueAt
<1>3. Total(OfRoundAt(d)) \in Nat /\ Total(DueAt(d)) \in Nat
  BY <1>2, TotalNat
<1> QED
  BY <1>1, <1>2, <1>3

(* Steps between the rounds: what was due stays so.                        *)
LEMMA RateStays ==
    ASSUME RateInv, slaved' = Zero => slaved = Zero,
           UNCHANGED <<parsed, returned, rate>>,
           \A d \in Dirs : /\ Total(OfRoundAt(d)') <= since'.now[d]
                           /\ Total(DueAt(d)') = Total(DueAt(d))
                           /\ since'.read[d] = since.read[d]
    PROVE  RateInv'
<1> SUFFICES ASSUME slaved' = Zero, NEW d \in Dirs
             PROVE  /\ Total(OfRoundAt(d)') <= since'.now[d]
                    /\ parsed /\ ~returned => Total(DueAt(d)') <= since'.read[d]
                    /\ ~parsed /\ ~returned => rate[d] <= since'.read[d]
  BY DEF RateInv
<1>1. /\ parsed /\ ~returned => Total(DueAt(d)) <= since.read[d]
      /\ ~parsed /\ ~returned => rate[d] <= since.read[d]
  BY DEF RateInv
<1> QED
  BY <1>1

(* A packet adds one byte to what a rate may show, and to the time since   *)
(* the last reading.                                                       *)
LEMMA RatePacket ==
    ASSUME IfaceTypes, RateInv, NEW c \in Nics, NEW b \in Dirs, Packet(c, b)
    PROVE  RateInv'
<1>0. /\ UNCHANGED <<slaves, readVars, foldVars, parsed>> /\ since'.read = since.read
      /\ slaved' \in Counters
      /\ \A d \in Dirs :
            /\ slaved'[d] = slaved[d] + IF d = b /\ c \in slaves THEN 1 ELSE 0
            /\ since'.now[d] = since.now[d] + IF d = b THEN 1 ELSE 0
  BY PacketEffect
<1>1. CASE c \in slaves
  <2>1. slaved'[b] = slaved[b] + 1 /\ slaved[b] \in Nat
    BY <1>0, <1>1 DEF IfaceTypes, TypeOK, Counters
  <2>2. slaved' # Zero
    BY <2>1, ZeroType
  <2> QED
    BY <2>2 DEF RateInv
<1>2. CASE c \notin slaves
  <2>1. slaved' = slaved
    BY <1>2 DEF Packet
  <2>2. SUFFICES ASSUME slaved = Zero PROVE RateInv'
    BY <2>1 DEF RateInv
  <2>3. ASSUME NEW d \in Dirs
        PROVE  /\ Total(OfRoundAt(d)') <= since'.now[d]
               /\ Total(DueAt(d)') = Total(DueAt(d))
    <3> DEFINE f == OfRoundAt(d)
               g == OfRoundAt(d)'
    <3>1. Total(f) <= since.now[d] /\ Total(f) \in Nat /\ since.now[d] \in Nat
      BY <2>2, RateTypes DEF RateInv
    <3>2. DueAt(d)' = DueAt(d)
      <4>1. \A i \in Ifaces : Due(i, d)' = Due(i, d)
        BY PacketLater
      <4> QED
        BY <4>1 DEF DueAt
    <3>3. \A i \in Ifaces :
             /\ f[i] \in Nat /\ g[i] \in Nat
             /\ g[i] <= f[i] + IF d = b /\ i \in CountsOf(c) THEN 1 ELSE 0
      <4>1. ASSUME NEW i \in Ifaces
            PROVE  /\ f[i] \in Nat /\ g[i] \in Nat
                   /\ g[i] <= f[i] + IF d = b /\ i \in CountsOf(c) THEN 1 ELSE 0
        <5>1. /\ Later(i, d)' \in Nat /\ Later(i, d) \in Nat
              /\ Later(i, d)' <= Later(i, d)
                                   + IF d = b /\ i \in CountsOf(c) THEN 1 ELSE 0
          BY PacketLater, PendingType DEF IfaceTypes
        <5>2. /\ f[i] = IF i \in lastRound THEN Later(i, d) ELSE 0
              /\ g[i] = IF i \in lastRound THEN Later(i, d)' ELSE 0
          BY <1>0 DEF OfRoundAt, readVars
        <5> HIDE DEF f, g
        <5>3. CASE i \in lastRound
          BY <5>1, <5>2, <5>3
        <5>4. CASE i \notin lastRound
          BY <5>2, <5>4
        <5> QED
          BY <5>3, <5>4
      <4> QED
        BY <4>1
    <3> HIDE DEF f, g
    <3>4. CASE d = b
      <4>1. c \in Ifaces /\ CountsOf(c) = {c}
        BY <1>2, IfacesFinite DEF CountsOf
      <4>2. \A i \in Ifaces : g[i] <= f[i] + IF i = c THEN 1 ELSE 0
        BY <3>3, <3>4, <4>1
      <4>3. Total(g) <= Total(f) + 1 /\ Total(g) \in Nat
        BY <3>3, <4>1, <4>2, TotalOneMore
      <4>4. Total(g) <= since'.now[d]
        BY <1>0, <3>1, <3>4, <4>3
      <4> QED
        BY <3>2, <4>4 DEF g
    <3>5. CASE d # b
      <4>1. \A i \in Ifaces : g[i] <= f[i] /\ f[i] \in Nat /\ g[i] \in Nat
        BY <3>3, <3>5
      <4>2. Total(g) <= Total(f) /\ Total(g) \in Nat
        BY <4>1, TotalMonotone
      <4>3. Total(g) <= since'.now[d]
        BY <1>0, <3>1, <3>5, <4>2
      <4> QED
        BY <3>2, <4>3 DEF g
    <3> QED
      BY <3>4, <3>5
  <2> QED
    BY <1>0, <2>1, <2>3, RateStays DEF readVars, foldVars
<1> QED
  BY <1>1, <1>2

(* A counter that falls takes away from what a rate may show.              *)
LEMMA RateDisturb ==
    ASSUME IfaceTypes, RateInv, Disturb
    PROVE  RateInv'
<1>0. UNCHANGED <<slaved, readVars, parsed, since, foldVars>>
  BY DisturbType DEF Disturbed, IfaceTypes
<1>1. SUFFICES ASSUME slaved = Zero PROVE RateInv'
  BY <1>0 DEF RateInv
<1>2. ASSUME NEW d \in Dirs
      PROVE  /\ Total(OfRoundAt(d)') <= since.now[d]
             /\ Total(DueAt(d)') = Total(DueAt(d))
  <2> DEFINE f == OfRoundAt(d)
             g == OfRoundAt(d)'
  <2>1. Total(f) <= since.now[d] /\ Total(f) \in Nat /\ since.now[d] \in Nat
    BY <1>1, RateTypes DEF RateInv
  <2>2. DueAt(d)' = DueAt(d)
    <3>1. \A i \in Ifaces : Due(i, d)' = Due(i, d)
      BY DisturbLater
    <3> QED
      BY <3>1 DEF DueAt
  <2>3. \A i \in Ifaces : f[i] \in Nat /\ g[i] \in Nat /\ g[i] <= f[i]
    <3>1. ASSUME NEW i \in Ifaces
          PROVE  f[i] \in Nat /\ g[i] \in Nat /\ g[i] <= f[i]
      <4>1. Later(i, d)' \in Nat /\ Later(i, d) \in Nat /\ Later(i, d)' <= Later(i, d)
        BY DisturbLater, PendingType DEF IfaceTypes
      <4>2. /\ f[i] = IF i \in lastRound THEN Later(i, d) ELSE 0
            /\ g[i] = IF i \in lastRound THEN Later(i, d)' ELSE 0
        BY <1>0 DEF OfRoundAt, readVars
      <4> HIDE DEF f, g
      <4> QED
        BY <4>1, <4>2
    <3> QED
      BY <3>1
  <2> HIDE DEF f, g
  <2>4. Total(g) <= Total(f) /\ Total(g) \in Nat
    BY <2>3, TotalMonotone
  <2>5. Total(g) <= since.now[d]
    BY <2>1, <2>4
  <2> QED
    BY <2>2, <2>5 DEF g
<1> QED
  BY <1>0, <1>2, RateStays DEF readVars, foldVars

(* The reading makes due what was counted since the one before, and only   *)
(* for its interfaces unless one is back.                                  *)
LEMMA RateParse ==
    ASSUME IfaceTypes, RateInv, NEW nics \in SUBSET Ifaces, ParseWith(nics),
           faults' \in Nat
    PROVE  RateInv'
<1>0. /\ parsed' = TRUE /\ lastRound' = Read' /\ slaved' = slaved
      /\ since' = [read |-> since.now, now |-> Zero]
      /\ returned' = ~(Read' \cap Seen \subseteq lastRound)
  BY ParseEffect DEF ParseWith
<1>1. SUFFICES ASSUME slaved = Zero, NEW d \in Dirs
               PROVE  /\ Total(OfRoundAt(d)') <= 0
                      /\ ~returned' => Total(DueAt(d)') <= since.now[d]
  BY <1>0, ZeroType DEF RateInv
<1>2. \A i \in Ifaces :
         /\ Due(i, d)' = IF i \in Read' THEN Later(i, d) ELSE 0
         /\ i \in Read' => Later(i, d)' = 0
         /\ Later(i, d) \in Nat
  BY ParsePending, PendingType DEF IfaceTypes
<1>3. Total(OfRoundAt(d)') = 0
  <2>1. \A i \in Ifaces : OfRoundAt(d)'[i] = 0
    BY <1>0, <1>2 DEF OfRoundAt
  <2> QED
    BY <2>1, TotalZero
<1>4. ASSUME ~returned' PROVE Total(DueAt(d)') <= since.now[d]
  <2> DEFINE f == DueAt(d)'
             g == OfRoundAt(d)
  <2>1. Read = {}
    BY DEF ParseWith, IfaceTypes, RoundInv
  <2>2. ASSUME NEW i \in Ifaces
        PROVE  f[i] \in Nat /\ g[i] \in Nat /\ f[i] <= g[i]
    <3>1. /\ f[i] = IF i \in Read' THEN Later(i, d) ELSE 0
          /\ g[i] = IF i \in lastRound THEN Later(i, d) ELSE 0
      BY <1>2 DEF DueAt, OfRoundAt
    <3>2. i \notin Seen => Later(i, d) = 0
      BY <2>1 DEF Later
    <3>3. i \in Read' /\ i \in Seen => i \in lastRound
      BY <1>0, <1>4
    <3> HIDE DEF f, g
    <3> QED
      BY <1>2, <3>1, <3>2, <3>3
  <2>3. Total(g) <= since.now[d] /\ since.now[d] \in Nat
    BY <1>1, RateTypes DEF RateInv
  <2> HIDE DEF f, g
  <2>4. Total(f) <= Total(g) /\ Total(f) \in Nat /\ Total(g) \in Nat
    BY <2>2, TotalMonotone
  <2>5. Total(f) <= since.now[d]
    BY <2>3, <2>4
  <2> QED
    BY <2>5 DEF f
<1> QED
  BY <1>3, <1>4

(* The rate a fold sets is zero or what was due.                           *)
LEMMA RateFold ==
    ASSUME IfaceTypes, RateInv, NEW timely \in BOOLEAN, Fold(timely)
    PROVE  RateInv'
<1>0. /\ parsed /\ parsed' = FALSE
      /\ UNCHANGED <<slaved, lastRound, returned, since>>
  BY DEF Fold, kernelVars
<1>1. SUFFICES ASSUME slaved = Zero, NEW d \in Dirs
               PROVE  /\ Total(OfRoundAt(d)') <= since.now[d]
                      /\ ~returned => rate'[d] <= since.read[d]
  BY <1>0 DEF RateInv
<1>2. /\ Total(OfRoundAt(d)) <= since.now[d]
      /\ ~returned => Total(DueAt(d)) <= since.read[d]
      /\ since.read[d] \in Nat
  BY <1>0, <1>1, RateTypes DEF RateInv
<1>3. OfRoundAt(d)' = OfRoundAt(d)
  <2>1. \A i \in Ifaces : Later(i, d)' = Later(i, d)
    BY FoldPending
  <2> QED
    BY <1>0, <2>1 DEF OfRoundAt
<1>4. rate' \in {Zero, Added} /\ (rate' # Zero => ~\E i \in Read : WentBack(i))
  BY DEF Fold, RoundRate, Read
<1>5. CASE rate' = Zero
  BY <1>2, <1>3, <1>5, ZeroType
<1>6. CASE rate' # Zero
  <2>1. rate'[d] = Total(DueAt(d))
    BY <1>4, <1>6, FoldAdds
  <2> QED
    BY <1>2, <1>3, <2>1
<1> QED
  BY <1>5, <1>6

(* RateInv is inductive.                                                   *)
LEMMA RateStep == IfaceTypes /\ RateInv /\ [Next]_vars => RateInv'
<1> SUFFICES ASSUME IfaceTypes, RateInv, [Next]_vars PROVE RateInv'
  OBVIOUS
<1>1. CASE \E i \in Nics, d \in Dirs : Packet(i, d)
  BY <1>1, RatePacket
<1>2. CASE Disturb
  BY <1>2, RateDisturb
<1>3. CASE Parse \/ ParseBlind
  BY <1>3, ParseCases, RateParse DEF IfaceTypes
<1>4. CASE \E timely \in BOOLEAN : Fold(timely)
  BY <1>4, RateFold
<1>5. CASE TakeTotals \/ UNCHANGED vars
  <2>1. UNCHANGED <<kernelVars, readVars, parsed, since, foldVars>>
    BY <1>5 DEF TakeTotals, vars
  <2>2. Read' = Read /\ Seen' = Seen
    BY <2>1 DEF Read, Seen, readVars, foldVars
  <2>3. \A i, d : Due(i, d)' = Due(i, d) /\ Later(i, d)' = Later(i, d)
    BY <2>1, <2>2 DEF Due, Later, Newest, kernelVars, readVars, foldVars
  <2>4. \A d \in Dirs : OfRoundAt(d)' = OfRoundAt(d) /\ DueAt(d)' = DueAt(d)
    BY <2>1, <2>3 DEF OfRoundAt, DueAt, readVars
  <2> QED
    BY <2>1, <2>4 DEF RateInv, kernelVars, readVars, foldVars
<1> QED
  BY <1>1, <1>2, <1>3, <1>4, <1>5 DEF Next, Disturb

(* The rates of a round are about the time since the round before it.      *)
THEOREM RatesAreFresh == Spec => []RatesFresh
<1>1. RateInv => RatesFresh
  BY DEF RateInv, RatesFresh
<1> QED
  BY <1>1, IfaceInvariant, RateInit, RateStep, PTL DEF Spec

-----------------------------------------------------------------------------
(* The LAN and WAN classes: ClassTotals.                                   *)

(* One step of ClassTotals, with the two switches of the classifier as one.*)
ClassNextStep ==
    \/ \E c \in Classes, f \in Families : ClassPacket(c, f)
    \/ \E backend \in Backends : Reconfigure(backend)
    \/ BeginRead
    \/ ReadCounters \/ ReadV4Only \/ ReadFails
    \/ FoldClasses \/ TakeClassTotals

(* ClassNext takes no other step.                                         *)
LEMMA ClassNextCases == ClassNext => ClassNextStep
  BY DEF ClassNext, ClassNextStep, EnableLanWanSplit, DisableLanWanSplit,
         Backends

(* The start is well typed.                                                *)
LEMMA ClassTypeInit == ClassInit => ClassTypeOK
<1> SUFFICES ASSUME ClassInit PROVE ClassTypeOK
  OBVIOUS
<1> USE DEF ClassInit, ClassTypeOK, NoBytes, NoTraffic, ClassCounters
<1>1. classCnt \in [Classes -> [Families -> Nat]]
  OBVIOUS
<1>2. /\ reading \in ClassCounters
      /\ last \in ClassCounters
      /\ classLive \in ClassCounters /\ classTaken \in ClassCounters
      /\ classCounted \in ClassCounters /\ over \in ClassCounters
      /\ {classUnread, classInHand, classDue, classDropped, classErased}
            \subseteq ClassCounters
  OBVIOUS
<1>3. classifier \in Backends /\ cl \in Backends
  BY DEF Backends
<1> QED
  BY <1>1, <1>2, <1>3

(* The sums of two counters, and of the two families, are counters.        *)
LEMMA ClassSums ==
    /\ \A f, g \in ClassCounters :
          /\ ClassPlus(f, g) \in ClassCounters
          /\ \A c \in Classes : ClassPlus(f, g)[c] = f[c] + g[c]
    /\ \A f \in [Classes -> [Families -> Nat]] :
          /\ InBoth(f) \in ClassCounters
          /\ \A c \in Classes : InBoth(f)[c] = f[c]["v4"] + f[c]["v6"]
<1>1. \A f, g \in ClassCounters :
         /\ ClassPlus(f, g) \in ClassCounters
         /\ \A c \in Classes : ClassPlus(f, g)[c] = f[c] + g[c]
  BY DEF ClassPlus, ClassCounters
<1>2. "v4" \in Families /\ "v6" \in Families
  BY DEF Families
<1>3. ASSUME NEW f \in [Classes -> [Families -> Nat]]
      PROVE  /\ InBoth(f) \in ClassCounters
             /\ \A c \in Classes : InBoth(f)[c] = f[c]["v4"] + f[c]["v6"]
  BY <1>2 DEF InBoth, ClassCounters
<1> QED
  BY <1>1, <1>3

(* What a round settles is a counter of every class.                       *)
LEMMA ClassRoundType == ClassTypeOK => ClassRound \in ClassCounters
  BY DEF ClassTypeOK, ClassRound, ClassCounters

(* ClassTypeOK is inductive.                                              *)
LEMMA ClassTypeStep ==
    ClassTypeOK /\ [ClassNext]_classVars => ClassTypeOK'
<1> SUFFICES ASSUME ClassTypeOK, [ClassNext]_classVars
             PROVE ClassTypeOK'
  OBVIOUS
<1> USE DEF ClassTypeOK, ClassCounters
<1>1. CASE UNCHANGED classVars
  BY <1>1
     DEF classVars, classKernelVars, roundVars, classByteVars, classFoldVars,
         classTotalVars
<1>2. ASSUME NEW c \in Classes, NEW f \in Families, ClassPacket(c, f)
      PROVE ClassTypeOK'
  <2>1. classCounted' \in ClassCounters /\ classUnread' \in ClassCounters
    BY <1>2 DEF ClassPacket
  <2>2. classCnt' \in [Classes -> [Families -> Nat]]
    BY <1>2 DEF ClassPacket
  <2> QED
    BY <1>2, <2>1, <2>2
       DEF ClassPacket, roundVars, classFoldVars, classTotalVars
<1>3. ASSUME NEW backend \in Backends, Reconfigure(backend)
      PROVE ClassTypeOK'
  <2>1. classErased' \in ClassCounters
    BY <1>3, ClassSums DEF Reconfigure
  <2>2. classCnt' \in [Classes -> [Families -> Nat]]
    BY <1>3 DEF Reconfigure, NoTraffic
  <2> QED
    BY <1>3, <2>1, <2>2
       DEF Reconfigure, ClassFault, roundVars, classByteVars, classFoldVars,
           classTotalVars
<1>4. CASE BeginRead
  BY <1>4 DEF BeginRead, classKernelVars, classByteVars, classFoldVars,
              classTotalVars
<1>5. ASSUME NEW values \in ClassCounters, Reading(values), classFaults' \in Nat,
             over' \in ClassCounters
      PROVE  ClassTypeOK'
  BY <1>5
     DEF Reading, EndRead, NoBytes, Backends, classKernelVars, classFoldVars,
         classTotalVars
<1>6. CASE ReadCounters
  <2>1. InBoth(classCnt) \in ClassCounters
    BY ClassSums
  <2> QED
    BY <1>5, <1>6, <2>1 DEF ReadCounters
<1>7. CASE ReadV4Only
  <2>1. /\ [c \in Classes |-> classCnt[c]["v4"]] \in ClassCounters
        /\ over' \in ClassCounters /\ classFaults' \in Nat
    BY <1>7 DEF ReadV4Only, ClassFault, Families
  <2> QED
    BY <1>5, <1>7, <2>1 DEF ReadV4Only
<1>8. CASE ReadFails
  BY <1>8
     DEF ReadFails, EndRead, Backends, classKernelVars, classByteVars,
         classFoldVars, classTotalVars
<1>9. CASE FoldClasses
  <2>1. classLive' \in ClassCounters
    <3>1. CASE ClassWentBack
      BY <1>9, <3>1 DEF FoldClasses, Dropped
    <3>2. CASE ~ClassWentBack
      <4>1. \A c \in Classes : ClassDelta(c) \in Nat
        BY <3>2 DEF ClassWentBack, ClassDelta
      <4> QED
        BY <1>9, <3>2, <4>1 DEF FoldClasses
    <3> QED
      BY <3>1, <3>2
  <2>2. classDue' \in ClassCounters /\ classDropped' \in ClassCounters
    <3>1. /\ ClassPlus(classDue, ClassRound) \in ClassCounters
          /\ ClassPlus(classDropped, ClassRound) \in ClassCounters
      BY ClassRoundType, ClassSums
    <3> QED
      BY <1>9, <3>1 DEF FoldClasses
  <2> QED
    BY <1>9, <2>1, <2>2 DEF FoldClasses, NoBytes, classKernelVars
<1>10. CASE TakeClassTotals
  BY <1>10
     DEF TakeClassTotals, NoBytes, classKernelVars, roundVars, classByteVars,
         classFoldVars
<1> QED
  BY <1>1, <1>2, <1>3, <1>4, <1>6, <1>7, <1>8, <1>9, <1>10, ClassNextCases
     DEF ClassNextStep

(* No total is ever negative, whatever the classifier's counters do.       *)
THEOREM ClassTypeCorrect == ClassSpec => []ClassTypeOK
  BY ClassTypeInit, ClassTypeStep, PTL DEF ClassSpec

-----------------------------------------------------------------------------
(* ReadHeld is inductive with the types.                             *)
LEMMA ReadHeldStep ==
    ClassTypeOK /\ ReadHeld /\ [ClassNext]_classVars
        => ReadHeld'
<1> SUFFICES ASSUME ClassTypeOK, ReadHeld, [ClassNext]_classVars
             PROVE ReadHeld'
  OBVIOUS
<1> USE DEF ReadHeld
<1>1. CASE UNCHANGED classVars
  BY <1>1 DEF classVars, classKernelVars, roundVars
<1>2. ASSUME NEW c \in Classes, NEW f \in Families, ClassPacket(c, f)
      PROVE ReadHeld'
  BY <1>2 DEF ClassPacket, roundVars
<1>3. ASSUME NEW backend \in Backends, Reconfigure(backend)
      PROVE ReadHeld'
  BY <1>3 DEF Reconfigure, NoReader, roundVars
<1>4. CASE BeginRead
  BY <1>4 DEF BeginRead, classKernelVars
<1>5. CASE ReadCounters \/ ReadV4Only \/ ReadFails
  BY <1>5 DEF ReadCounters, ReadV4Only, ReadFails, Reading, EndRead
<1>6. CASE FoldClasses
  BY <1>6 DEF FoldClasses
<1>7. CASE TakeClassTotals
  BY <1>7 DEF TakeClassTotals, classKernelVars, roundVars
<1> QED
  BY <1>1, <1>2, <1>3, <1>4, <1>5, <1>6, <1>7, ClassNextCases DEF ClassNextStep

(* classifierMu keeps the backend in place while a round reads it.         *)
THEOREM ReadHeldHolds == ClassSpec => []ReadHeld
<1>1. ClassInit => ReadHeld
  BY DEF ClassInit, ReadHeld
<1> QED
  BY <1>1, ClassTypeInit, ClassTypeStep, ReadHeldStep, PTL DEF ClassSpec

-----------------------------------------------------------------------------
KernelCount(c) == classCnt[c]["v4"] + classCnt[c]["v6"]

(* The bytes that the rounds to come, this one included, may still count.  *)
ClassPending(c) ==
    IF pc = "read"
    THEN Positive(reading[c] - last[c]) + Positive(KernelCount(c) - reading[c])
    ELSE Positive(KernelCount(c) - last[c])

(* ClassSound is not inductive: a round adds bytes that were counted       *)
(* before it began.  The invariant adds them as soon as they are counted.  *)
ClassCovered(c) ==
    classLive[c] + classTaken[c] + ClassPending(c) <= classCounted[c] + over[c]
ClassSoundInv == \A c \in Classes : ClassCovered(c)

(* A packet of a class is one byte more of it.                             *)
LEMMA PacketCounts ==
    ASSUME ClassTypeOK, NEW e \in Classes, NEW f \in Families, ClassPacket(e, f),
           NEW c \in Classes
    PROVE  /\ classCounted'[c] = IF c = e THEN classCounted[c] + 1 ELSE classCounted[c]
           /\ classUnread'[c] = IF c = e THEN classUnread[c] + 1 ELSE classUnread[c]
           /\ KernelCount(c)' = IF c = e THEN KernelCount(c) + 1 ELSE KernelCount(c)
<1>1. /\ classCnt \in [Classes -> [Families -> Nat]]
      /\ classCounted \in ClassCounters /\ classUnread \in ClassCounters
      /\ "v4" \in Families /\ "v6" \in Families
  BY DEF ClassTypeOK, Families
<1>2. /\ classCnt' = [classCnt EXCEPT ![e][f] = @ + 1]
      /\ classCounted' = [classCounted EXCEPT ![e] = @ + 1]
      /\ classUnread' = [classUnread EXCEPT ![e] = @ + 1]
  BY DEF ClassPacket
<1>3. /\ classCounted'[c] = IF c = e THEN classCounted[c] + 1 ELSE classCounted[c]
      /\ classUnread'[c] = IF c = e THEN classUnread[c] + 1 ELSE classUnread[c]
  BY <1>1, <1>2 DEF ClassCounters
<1>4. CASE c # e
  BY <1>1, <1>2, <1>3, <1>4 DEF KernelCount
<1>5. CASE c = e /\ f = "v4"
  BY <1>1, <1>2, <1>3, <1>5 DEF KernelCount
<1>6. CASE c = e /\ f = "v6"
  BY <1>1, <1>2, <1>3, <1>6 DEF KernelCount
<1> QED
  BY <1>4, <1>5, <1>6 DEF Families

(* ClassSoundInv is inductive with the types.                              *)
LEMMA ClassSoundStep ==
    ClassTypeOK /\ ClassSoundInv /\ [ClassNext]_classVars
        => ClassSoundInv'
<1> SUFFICES ASSUME ClassTypeOK, ClassSoundInv, [ClassNext]_classVars,
                    NEW c \in Classes
             PROVE ClassCovered(c)'
  BY DEF ClassSoundInv
<1> USE DEF ClassTypeOK, ClassCounters, ClassCovered, ClassPending, Positive,
            KernelCount
<1>0. ClassCovered(c)
  BY DEF ClassSoundInv
<1>a. "v4" \in Families /\ "v6" \in Families
  BY DEF Families
<1>1. CASE UNCHANGED classVars
  BY <1>0, <1>1
     DEF classVars, classKernelVars, roundVars, classFoldVars, classTotalVars
<1>2. ASSUME NEW e \in Classes, NEW f \in Families, ClassPacket(e, f)
      PROVE ClassCovered(c)'
  <2>1. /\ classCounted'[c] = IF c = e THEN classCounted[c] + 1 ELSE classCounted[c]
        /\ KernelCount(c)' = IF c = e THEN KernelCount(c) + 1 ELSE KernelCount(c)
    BY <1>2, PacketCounts
  <2> QED
    BY <1>0, <1>2, <1>a, <2>1
       DEF ClassPacket, roundVars, classFoldVars, classTotalVars
<1>3. ASSUME NEW backend \in Backends, Reconfigure(backend)
      PROVE ClassCovered(c)'
  <2>1. KernelCount(c)' = 0
    BY <1>3, <1>a DEF Reconfigure, NoTraffic
  <2> QED
    BY <1>0, <1>3, <1>a, <2>1
       DEF Reconfigure, roundVars, classFoldVars, classTotalVars
<1>4. CASE BeginRead
  BY <1>0, <1>4, <1>a
     DEF BeginRead, classKernelVars, classFoldVars, classTotalVars
<1>5. CASE ReadCounters
  <2>1. reading'[c] = KernelCount(c)
    BY <1>5, ClassSums DEF ReadCounters, Reading
  <2> QED
    BY <1>0, <1>5, <1>a, <2>1
       DEF ReadCounters, Reading, EndRead, classKernelVars, classFoldVars,
           classTotalVars
<1>6. CASE ReadV4Only
  BY <1>0, <1>6, <1>a
     DEF ReadV4Only, Reading, EndRead, classKernelVars, classFoldVars,
         classTotalVars
<1>7. CASE ReadFails
  BY <1>0, <1>7, <1>a
     DEF ReadFails, EndRead, classKernelVars, classFoldVars, classTotalVars
<1>8. CASE FoldClasses
  <2>1. classLive'[c] <= classLive[c] + Positive(reading[c] - last[c])
    BY <1>8 DEF FoldClasses, Dropped, ClassDelta, ClassWentBack
  <2>2. /\ ClassPending(c)' = Positive(KernelCount(c) - reading[c])
        /\ ClassPending(c) = Positive(reading[c] - last[c])
                          + Positive(KernelCount(c) - reading[c])
    BY <1>8, <1>a DEF FoldClasses, classKernelVars
  <2>3. classLive'[c] \in Nat
    BY ClassTypeStep
  <2> QED
    BY <1>0, <1>8, <1>a, <2>1, <2>2, <2>3 DEF FoldClasses, classKernelVars
<1>9. CASE TakeClassTotals
  BY <1>0, <1>9, <1>a
     DEF TakeClassTotals, NoBytes, classKernelVars, roundVars, classFoldVars
<1> QED
  BY <1>1, <1>2, <1>3, <1>4, <1>5, <1>6, <1>7, <1>8, <1>9, ClassNextCases
     DEF ClassNextStep

(* The LAN and WAN totals are never more than the traffic, however the     *)
(* classifier is switched, but for IPv6 bytes a reading left out.          *)
THEOREM ClassSoundHolds == ClassSpec => []ClassSound
<1>1. ClassInit => ClassSoundInv
  BY DEF ClassInit, ClassSoundInv, ClassCovered, ClassPending, Positive,
         KernelCount, NoBytes, NoTraffic, Families
<1>2. ClassTypeOK /\ ClassSoundInv => ClassSound
  BY DEF ClassTypeOK, ClassCounters, ClassSoundInv, ClassCovered, ClassPending,
         Positive, KernelCount, ClassSound, Families
<1> QED
  BY <1>1, <1>2, ClassTypeInit, ClassTypeStep, ClassSoundStep, PTL
     DEF ClassSpec

-----------------------------------------------------------------------------
(* How much less a reading shows than was counted since the reading        *)
(* before: of the round under way, and of the rounds after it.  A reading  *)
(* after one that left IPv6 out shows more.                                *)
ClassShortNow(c) ==
    IF pc = "read" /\ last[c] > 0 THEN classInHand[c] - (reading[c] - last[c]) ELSE 0
ClassNewest(c) == IF pc = "read" THEN reading[c] ELSE last[c]
ClassShortLater(c) ==
    IF ClassNewest(c) > 0 THEN classUnread[c] - (KernelCount(c) - ClassNewest(c)) ELSE 0
ClassKept(c) == classLive[c] + classTaken[c] + classDropped[c]

(* ClassComplete is not inductive: what readings are short by, or show too *)
(* much, and rounds have yet to settle, is within what restarts erased and *)
(* what readings have left out.                                            *)
Settled(c) ==
    /\ ClassKept(c) + Positive(-ClassShortNow(c)) + Positive(-ClassShortLater(c))
         <= classDue[c] + over[c]
    /\ classDue[c] + Positive(ClassShortNow(c)) + Positive(ClassShortLater(c))
         <= ClassKept(c) + classErased[c] + over[c]
ClassCompleteInv ==
    /\ \A c \in Classes : Settled(c)
    /\ classErased = NoBytes /\ over = NoBytes => classDropped = NoBytes

(* The quantities ClassCompleteInv compares are numbers.                   *)
LEMMA ClassShortTypes ==
    ASSUME ClassTypeOK, NEW c \in Classes
    PROVE  /\ classLive[c] \in Nat /\ classTaken[c] \in Nat /\ classDropped[c] \in Nat
           /\ classDue[c] \in Nat /\ over[c] \in Nat /\ classErased[c] \in Nat
           /\ classInHand[c] \in Nat /\ classUnread[c] \in Nat
           /\ reading[c] \in Nat /\ last[c] \in Nat /\ KernelCount(c) \in Nat
           /\ ClassNewest(c) \in Nat /\ ClassKept(c) \in Nat
           /\ ClassShortNow(c) \in Int /\ ClassShortLater(c) \in Int
<1>1. /\ classLive[c] \in Nat /\ classTaken[c] \in Nat /\ classDropped[c] \in Nat
      /\ classDue[c] \in Nat /\ over[c] \in Nat /\ classErased[c] \in Nat
      /\ classInHand[c] \in Nat /\ classUnread[c] \in Nat
      /\ reading[c] \in Nat /\ last[c] \in Nat
  BY DEF ClassTypeOK, ClassCounters
<1>2. KernelCount(c) \in Nat
  BY DEF ClassTypeOK, KernelCount, Families
<1> QED
  BY <1>1, <1>2 DEF ClassNewest, ClassKept, ClassShortNow, ClassShortLater

(* Steps that leave what every reading is short by, and only move totals.  *)
LEMMA ClassCompleteStays ==
    ASSUME ClassCompleteInv, UNCHANGED <<classDue, classDropped, classErased, over>>,
           \A c \in Classes :
              /\ classLive'[c] + classTaken'[c] = classLive[c] + classTaken[c]
              /\ ClassShortNow(c)' = ClassShortNow(c)
              /\ ClassShortLater(c)' = ClassShortLater(c)
    PROVE  ClassCompleteInv'
<1>1. \A c \in Classes : ClassKept(c)' = ClassKept(c)
  BY DEF ClassKept
<1>2. \A c \in Classes : Settled(c) => Settled(c)'
  BY <1>1 DEF Settled
<1> QED
  BY <1>2 DEF ClassCompleteInv

(* A reading shows all, or leaves out the IPv6 bytes that over counts.     *)
LEMMA ClassCompleteRead ==
    ASSUME ClassTypeOK, ClassCompleteInv, NEW values \in ClassCounters, Reading(values),
           \A c \in Classes : /\ over'[c] \in Nat /\ over'[c] >= over[c]
                              /\ values[c] = KernelCount(c) - (over'[c] - over[c])
    PROVE  \A c \in Classes : Settled(c)'
<1> SUFFICES ASSUME NEW c \in Classes PROVE Settled(c)'
  OBVIOUS
<1> DEFINE k == KernelCount(c)
           v == values[c]
           u == classUnread[c]
           o == over'[c] - over[c]
<1>1. /\ pc = "reading" /\ pc' = "read" /\ reading' = values
      /\ classInHand' = classUnread /\ classUnread' = NoBytes
      /\ UNCHANGED <<classCnt, classErased, last, classDue, classDropped, classLive,
                     classTaken>>
  BY DEF Reading, EndRead, classKernelVars, classFoldVars, classTotalVars
<1>2. /\ k \in Nat /\ v \in Nat /\ u \in Nat /\ o \in Nat /\ v = k - o
      /\ last[c] \in Nat /\ over[c] \in Nat /\ over'[c] = over[c] + o
      /\ ClassKept(c) \in Nat /\ classDue[c] \in Nat /\ classErased[c] \in Nat
  BY ClassShortTypes DEF ClassCounters
<1>3. /\ ClassShortNow(c) = 0
      /\ ClassShortLater(c) = IF last[c] > 0 THEN u - (k - last[c]) ELSE 0
  BY <1>1 DEF ClassShortNow, ClassShortLater, ClassNewest
<1>4. /\ ClassShortNow(c)' = IF last[c] > 0 THEN u - (v - last[c]) ELSE 0
      /\ ClassShortLater(c)' = IF v > 0 THEN 0 - (k - v) ELSE 0
  BY <1>1 DEF ClassShortNow, ClassShortLater, ClassNewest, KernelCount, NoBytes
<1>5. ClassKept(c)' = ClassKept(c)
  BY <1>1 DEF ClassKept
<1>6. Settled(c)
  BY DEF ClassCompleteInv
<1> HIDE DEF k, v, u, o
<1>7. CASE last[c] > 0
  <2>1. /\ ClassShortNow(c)' = ClassShortLater(c) + o
        /\ ClassShortLater(c)' \in {0, -o} /\ ClassShortLater(c) \in Int
    BY <1>2, <1>3, <1>4, <1>7
  <2> QED
    BY <1>1, <1>2, <1>3, <1>5, <1>6, <2>1 DEF Settled, Positive
<1>8. CASE ~(last[c] > 0)
  <2>1. /\ ClassShortNow(c)' = 0 /\ ClassShortLater(c) = 0
        /\ ClassShortLater(c)' \in {0, -o}
    BY <1>2, <1>3, <1>4, <1>8
  <2> QED
    BY <1>1, <1>2, <1>3, <1>5, <1>6, <2>1 DEF Settled, Positive
<1> QED
  BY <1>7, <1>8

(* A switch of the classifier erases what its counters had come to.        *)
LEMMA ClassCompleteSwitch ==
    ASSUME ClassTypeOK, ClassCompleteInv, NEW backend \in Backends, Reconfigure(backend)
    PROVE  ClassCompleteInv'
<1>1. /\ UNCHANGED <<pc, reading, last, classInHand, classUnread, classDue,
                     classDropped, classLive, classTaken, over>>
      /\ classCnt' = NoTraffic
      /\ \A c \in Classes : classErased'[c] = classErased[c] + KernelCount(c)
  BY ClassSums
  DEF Reconfigure, roundVars, classByteVars, classFoldVars, classTotalVars,
      ClassTypeOK, KernelCount
<1>2. ASSUME NEW c \in Classes PROVE Settled(c)'
  <2>1. KernelCount(c)' = 0
    BY <1>1 DEF KernelCount, NoTraffic, Families
  <2>2. /\ ClassShortNow(c)' = ClassShortNow(c) /\ ClassNewest(c)' = ClassNewest(c)
        /\ ClassKept(c)' = ClassKept(c)
    BY <1>1 DEF ClassShortNow, ClassNewest, ClassKept
  <2>3. \/ ClassShortLater(c)' = ClassShortLater(c) + KernelCount(c)
        \/ ClassShortLater(c)' = 0 /\ ClassShortLater(c) = 0
    BY <1>1, <2>1, <2>2, ClassShortTypes DEF ClassShortLater
  <2>4. Settled(c) /\ classErased'[c] = classErased[c] + KernelCount(c)
    BY <1>1 DEF ClassCompleteInv
  <2>5. /\ KernelCount(c) \in Nat /\ ClassKept(c) \in Nat /\ classDue[c] \in Nat
        /\ classErased[c] \in Nat /\ over[c] \in Nat
        /\ ClassShortNow(c) \in Int /\ ClassShortLater(c) \in Int
    BY ClassShortTypes
  <2> QED
    BY <1>1, <2>2, <2>3, <2>4, <2>5 DEF Settled, Positive
<1>3. classErased' = NoBytes => classErased = NoBytes
  <2> SUFFICES ASSUME classErased' = NoBytes PROVE classErased = NoBytes
    OBVIOUS
  <2>1. \A c \in Classes : classErased[c] = 0
    BY <1>1, ClassShortTypes DEF NoBytes
  <2> QED
    BY <2>1 DEF NoBytes, ClassTypeOK, ClassCounters
<1> QED
  BY <1>1, <1>2, <1>3 DEF ClassCompleteInv

(* A round adds, or drops, what its reading shows.                         *)
LEMMA ClassCompleteFold ==
    ASSUME ClassTypeOK, ClassCompleteInv, FoldClasses
    PROVE  ClassCompleteInv'
<1>1. /\ pc = "read" /\ pc' = "idle" /\ last' = reading
      /\ classDue' = ClassPlus(classDue, ClassRound)
      /\ UNCHANGED <<classCnt, classErased, over, classUnread, classTaken>>
  BY DEF FoldClasses, classKernelVars
<1>2. ASSUME NEW c \in Classes PROVE Settled(c)'
  <2> DEFINE r == ClassRound[c]
             w == ClassShortNow(c)
             l == ClassShortLater(c)
  <2>1. ClassShortNow(c)' = 0 /\ ClassShortLater(c)' = l
    BY <1>1 DEF ClassShortNow, ClassShortLater, ClassNewest, KernelCount
  <2>2. /\ r \in Nat /\ w \in Int /\ l \in Int /\ ClassKept(c) \in Nat
        /\ classDue[c] \in Nat /\ classErased[c] \in Nat /\ over[c] \in Nat
        /\ classLive[c] \in Nat /\ classTaken[c] \in Nat /\ classDropped[c] \in Nat
        /\ reading[c] \in Nat /\ last[c] \in Nat /\ classInHand[c] \in Nat
    BY ClassShortTypes, ClassRoundType DEF ClassCounters
  <2>3. ClassDelta(c) = r - w
    BY <1>1, <2>2 DEF ClassDelta, ClassRound, ClassShortNow
  <2>4. classDue'[c] = classDue[c] + r
    BY <1>1 DEF ClassPlus
  <2>5. ClassKept(c)' \in {ClassKept(c) + r, ClassKept(c) + r - w}
    <3>1. CASE ClassWentBack
      <4>1. classLive' = classLive /\ classDropped'[c] = classDropped[c] + r
        BY <3>1 DEF FoldClasses, Dropped, ClassPlus
      <4> QED
        BY <1>1, <2>2, <4>1 DEF ClassKept
    <3>2. CASE ~ClassWentBack
      <4>1. classLive'[c] = classLive[c] + ClassDelta(c) /\ classDropped' = classDropped
        BY <3>2 DEF FoldClasses
      <4> HIDE DEF r, w
      <4> QED
        BY <1>1, <2>2, <2>3, <4>1 DEF ClassKept
    <3> QED
      BY <3>1, <3>2
  <2>6. /\ ClassKept(c) + Positive(-w) + Positive(-l) <= classDue[c] + over[c]
        /\ classDue[c] + Positive(w) + Positive(l)
             <= ClassKept(c) + classErased[c] + over[c]
    BY DEF ClassCompleteInv, Settled
  <2> HIDE DEF r, w, l
  <2> QED
    BY <1>1, <2>1, <2>2, <2>4, <2>5, <2>6 DEF Settled, Positive
<1>3. ASSUME classErased = NoBytes, over = NoBytes PROVE classDropped' = NoBytes
  <2> SUFFICES ASSUME NEW c \in Classes, last[c] > 0, reading[c] < last[c] PROVE FALSE
    BY <1>3 DEF FoldClasses, ClassWentBack, ClassCompleteInv
  <2>1. /\ classInHand[c] \in Nat /\ reading[c] \in Nat /\ last[c] \in Nat
        /\ ClassKept(c) \in Nat /\ classDue[c] \in Nat
        /\ ClassShortNow(c) \in Int /\ ClassShortLater(c) \in Int
    BY ClassShortTypes
  <2>2. ClassShortNow(c) = classInHand[c] - (reading[c] - last[c])
    BY <1>1 DEF ClassShortNow
  <2>3. ClassShortNow(c) > 0
    BY <2>1, <2>2
  <2>4. classErased[c] = 0 /\ over[c] = 0 /\ Settled(c)
    BY <1>3 DEF NoBytes, ClassCompleteInv
  <2> QED
    BY <2>1, <2>3, <2>4 DEF Settled, Positive
<1> QED
  BY <1>1, <1>2, <1>3 DEF ClassCompleteInv

(* ClassCompleteInv is inductive with the types.                           *)
LEMMA ClassCompleteStep ==
    ClassTypeOK /\ ClassCompleteInv /\ [ClassNext]_classVars => ClassCompleteInv'
<1> SUFFICES ASSUME ClassTypeOK, ClassCompleteInv, [ClassNext]_classVars
             PROVE  ClassCompleteInv'
  OBVIOUS
<1>1. CASE UNCHANGED classVars \/ TakeClassTotals
  <2>1. /\ UNCHANGED <<classKernelVars, roundVars, classByteVars, classFoldVars, over>>
        /\ \A c \in Classes :
              classLive'[c] + classTaken'[c] = classLive[c] + classTaken[c]
    BY <1>1
    DEF classVars, TakeClassTotals, NoBytes, classTotalVars, ClassTypeOK, ClassCounters
  <2>2. \A c \in Classes : /\ ClassShortNow(c)' = ClassShortNow(c)
                           /\ ClassShortLater(c)' = ClassShortLater(c)
    BY <2>1
    DEF ClassShortNow, ClassShortLater, ClassNewest, KernelCount, classKernelVars,
        roundVars, classByteVars, classFoldVars
  <2> QED
    BY <2>1, <2>2, ClassCompleteStays DEF classKernelVars, classFoldVars
<1>2. ASSUME NEW e \in Classes, NEW f \in Families, ClassPacket(e, f)
      PROVE  ClassCompleteInv'
  <2>1. UNCHANGED <<classErased, roundVars, classInHand, classFoldVars, classTotalVars,
                    over>>
    BY <1>2 DEF ClassPacket
  <2>2. ASSUME NEW c \in Classes
        PROVE  /\ ClassShortNow(c)' = ClassShortNow(c)
               /\ ClassShortLater(c)' = ClassShortLater(c)
    <3>1. ClassNewest(c)' = ClassNewest(c) /\ ClassShortNow(c)' = ClassShortNow(c)
      BY <2>1 DEF ClassNewest, ClassShortNow, roundVars, classFoldVars
    <3>2. \/ /\ classUnread'[c] = classUnread[c] + 1
             /\ KernelCount(c)' = KernelCount(c) + 1
          \/ classUnread'[c] = classUnread[c] /\ KernelCount(c)' = KernelCount(c)
      BY <1>2, PacketCounts
    <3> QED
      BY <3>1, <3>2, ClassShortTypes DEF ClassShortLater
  <2> QED
    BY <2>1, <2>2, ClassCompleteStays DEF classFoldVars, classTotalVars
<1>3. ASSUME NEW backend \in Backends, Reconfigure(backend) PROVE ClassCompleteInv'
  BY <1>3, ClassCompleteSwitch
<1>4. CASE BeginRead \/ ReadFails
  <2>1. /\ UNCHANGED <<classKernelVars, reading, classByteVars, classFoldVars,
                       classTotalVars, over>>
        /\ pc # "read" /\ pc' # "read"
    BY <1>4 DEF BeginRead, ReadFails, EndRead
  <2>2. \A c \in Classes : /\ ClassShortNow(c)' = ClassShortNow(c)
                           /\ ClassShortLater(c)' = ClassShortLater(c)
    BY <2>1
    DEF ClassShortNow, ClassShortLater, ClassNewest, KernelCount, classKernelVars,
        classByteVars, classFoldVars
  <2> QED
    BY <2>1, <2>2, ClassCompleteStays DEF classKernelVars, classFoldVars, classTotalVars
<1>5. CASE ReadCounters \/ ReadV4Only
  <2>1. UNCHANGED <<classErased, classDropped>>
    BY <1>5
    DEF ReadCounters, ReadV4Only, Reading, EndRead, classKernelVars, classFoldVars
  <2>2. \A c \in Classes : Settled(c)'
    <3>1. CASE ReadCounters
      <4>1. /\ InBoth(classCnt) \in ClassCounters /\ over' = over
            /\ \A c \in Classes : over[c] \in Nat /\ InBoth(classCnt)[c] = KernelCount(c)
            /\ Reading(InBoth(classCnt))
        BY <3>1, ClassSums, ClassShortTypes DEF ClassTypeOK, KernelCount, ReadCounters
      <4>2. \A c \in Classes : KernelCount(c) \in Nat
        BY ClassShortTypes
      <4> QED
        BY <4>1, <4>2, ClassCompleteRead
    <3>2. CASE ReadV4Only
      <4> DEFINE v4 == [c \in Classes |-> classCnt[c]["v4"]]
      <4>1. /\ v4 \in ClassCounters /\ Reading(v4)
            /\ \A c \in Classes : /\ over'[c] = over[c] + classCnt[c]["v6"]
                                  /\ classCnt[c]["v6"] \in Nat /\ over[c] \in Nat
                                  /\ classCnt[c]["v4"] \in Nat
                                  /\ v4[c] = classCnt[c]["v4"]
        BY <3>2 DEF ReadV4Only, ClassTypeOK, ClassCounters, Families
      <4> HIDE DEF v4
      <4>2. \A c \in Classes : /\ over'[c] \in Nat /\ over'[c] >= over[c]
                               /\ v4[c] = KernelCount(c) - (over'[c] - over[c])
        BY <4>1 DEF KernelCount
      <4> QED
        BY <4>1, <4>2, ClassCompleteRead
    <3> QED
      BY <1>5, <3>1, <3>2
  <2>3. over' = NoBytes => over = NoBytes
    <3>1. CASE ReadCounters
      BY <3>1 DEF ReadCounters
    <3>2. CASE ReadV4Only
      <4> SUFFICES ASSUME over' = NoBytes PROVE over = NoBytes
        OBVIOUS
      <4>1. \A c \in Classes : /\ over'[c] = over[c] + classCnt[c]["v6"]
                               /\ classCnt[c]["v6"] \in Nat /\ over[c] \in Nat
        BY <3>2 DEF ReadV4Only, ClassTypeOK, ClassCounters, Families
      <4>2. \A c \in Classes : over[c] = 0
        BY <4>1 DEF NoBytes
      <4> QED
        BY <4>2 DEF NoBytes, ClassTypeOK, ClassCounters
    <3> QED
      BY <1>5, <3>1, <3>2
  <2> QED
    BY <2>1, <2>2, <2>3 DEF ClassCompleteInv
<1>6. CASE FoldClasses
  BY <1>6, ClassCompleteFold
<1> QED
  BY <1>1, <1>2, <1>3, <1>4, <1>5, <1>6, ClassNextCases DEF ClassNextStep

(* What the classifier counted after a nonzero reading of a class, up to   *)
(* the last reading, is in the totals or in a round that was dropped,      *)
(* short by at most what a counter had come to when the classifier was     *)
(* switched and up to the IPv6 bytes that readings left out; and no round  *)
(* is dropped before either has happened.                                  *)
THEOREM ClassCompleteHolds == ClassSpec => []ClassComplete
<1>1. ClassInit => ClassCompleteInv
  <2> SUFFICES ASSUME ClassInit PROVE ClassCompleteInv
    OBVIOUS
  <2>1. \A c \in Classes :
           /\ ClassShortNow(c) = 0 /\ ClassShortLater(c) = 0 /\ ClassKept(c) = 0
           /\ classDue[c] = 0 /\ over[c] = 0 /\ classErased[c] = 0
    BY DEF ClassInit, NoBytes, ClassShortNow, ClassShortLater, ClassNewest, ClassKept
  <2>2. \A c \in Classes : Settled(c)
    BY <2>1 DEF Settled, Positive
  <2> QED
    BY <2>2 DEF ClassInit, ClassCompleteInv
<1>2. ClassTypeOK /\ ClassCompleteInv => ClassComplete
  <2> SUFFICES ASSUME ClassTypeOK, ClassCompleteInv PROVE ClassComplete
    OBVIOUS
  <2>1. ASSUME NEW c \in Classes
        PROVE  /\ ClassKept(c) <= classDue[c] + over[c]
               /\ classDue[c] <= ClassKept(c) + classErased[c] + over[c]
    <3>1. /\ Settled(c) /\ ClassShortNow(c) \in Int /\ ClassShortLater(c) \in Int
          /\ ClassKept(c) \in Nat /\ classDue[c] \in Nat
          /\ classErased[c] \in Nat /\ over[c] \in Nat
      BY ClassShortTypes DEF ClassCompleteInv
    <3> QED
      BY <3>1 DEF Settled, Positive
  <2> QED
    BY <2>1 DEF ClassComplete, ClassKept, ClassCompleteInv
<1> QED
  BY <1>1, <1>2, ClassTypeInit, ClassTypeStep, ClassCompleteStep, PTL DEF ClassSpec
=============================================================================
