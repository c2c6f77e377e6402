------------------------- MODULE ConfigReloadProofs -------------------------
(***************************************************************************)
(* Theorems about ConfigReload, for any number of updates, reads and       *)
(* crashes.                                                                *)
(***************************************************************************)
EXTENDS ConfigReload, TLAPS

(* Merging an update into a configuration gives a configuration.           *)
LEMMA MergeType ==
    ASSUME NEW c \in Config, NEW p \in Puts
    PROVE  Merge(c, p) \in Config /\ Merge(c, p).applied = c.applied \cup {p}
  BY ReloadAssumption DEF Merge, Pick, Config

LEMMA TypeInit ==
    ASSUME Init PROVE TypeOK
<1>1. /\ Initial \in Config /\ Initial.interval \in Nat
      /\ Initial.split \in BOOLEAN /\ 0 \in 0..MaxCrashes
  BY ReloadAssumption DEF Config
<1> QED BY <1>1 DEF Init, TypeOK

LEMMA TypePut ==
    ASSUME TypeOK, NEW p \in Puts, PutHandler(p) PROVE TypeOK'
<1> USE DEF configVars, cacheVars, tickVars, getVars, history, PutStep
<1>1. CASE Lock(p) \/ Reject(p) \/ Save(p)
  BY <1>1 DEF Lock, Reject, Save, TypeOK
<1>2. CASE Clone(p)
  BY <1>2, MergeType DEF Clone, TypeOK
<1>3. CASE Swap(p)
  BY <1>3 DEF Swap, TypeOK
<1>4. CASE UpdateSnapshot(p)
  BY <1>4 DEF UpdateSnapshot, TypeOK
<1>5. CASE InvalidateConfigJSON(p)
  BY <1>5 DEF InvalidateConfigJSON, TypeOK
<1>6. CASE ReadSplit(p)
  BY <1>6 DEF ReadSplit, TypeOK, Config
<1>7. CASE ApplyLanWanSplit(p)
  BY <1>7 DEF ApplyLanWanSplit, TypeOK
<1>8. CASE NotifyIntervalChanged(p)
  BY <1>8 DEF NotifyIntervalChanged, TypeOK
<1>9. CASE Answer(p)
  BY <1>9 DEF Answer, TypeOK
<1> QED
  BY <1>1, <1>2, <1>3, <1>4, <1>5, <1>6, <1>7, <1>8, <1>9 DEF PutHandler

LEMMA TypeGet ==
    ASSUME TypeOK, NEW g \in Gets, GetHandler(g) PROVE TypeOK'
<1> USE DEF configVars, cacheVars, tickVars, putVars, history, GetStep
<1>1. CASE Arrive(g)
  BY <1>1 DEF Arrive, TypeOK
<1>2. CASE Peek(g)
  BY <1>2 DEF Peek, TypeOK
<1>3. CASE Marshal(g)
  BY <1>3 DEF Marshal, TypeOK
<1>4. CASE Store(g)
  BY <1>4 DEF Store, Reply, TypeOK
<1> QED BY <1>1, <1>2, <1>3, <1>4 DEF GetHandler

LEMMA TypeNext ==
    ASSUME TypeOK, [Next]_vars PROVE TypeOK'
<1> USE DEF configVars, cacheVars, tickVars, putVars, getVars, history
<1>1. CASE ReadInterval
  BY <1>1 DEF ReadInterval, TypeOK, Config
<1>2. CASE ResetTicker
  BY <1>2 DEF ResetTicker, TypeOK
<1>3. CASE Crash
  <2>1. file.interval \in Nat /\ file.split \in BOOLEAN
        /\ MaxCrashes \in Nat /\ crashes' \in 0..MaxCrashes
    BY <1>3, ReloadAssumption DEF Crash, TypeOK, Config
  <2>2. put' \in [Puts -> {"new", "clone", "save", "swap", "snapshot", "invalidate",
                           "readsplit", "split", "notify", "answer", "ok", "failed"}]
        /\ get' \in [Gets -> {"new", "peek", "marshal", "store", "done", "failed"}]
    BY <1>3 DEF Crash, TypeOK
  <2> QED BY <1>3, <2>1, <2>2 DEF Crash, TypeOK
<1>4. CASE UNCHANGED vars
  BY <1>4 DEF vars, TypeOK
<1> QED BY <1>1, <1>2, <1>3, <1>4, TypePut, TypeGet DEF Next, Loop, Idle

(* Every configuration in memory, on disk or under way is a configuration  *)
(* made of updates that were sent.                                         *)
THEOREM TypeCorrect == Spec => []TypeOK
<1>1. TypeOK /\ [Next]_vars => TypeOK'
  BY TypeNext
<1> QED BY <1>1, TypeInit, PTL DEF Spec
-----------------------------------------------------------------------------
(* Between Lock and Swap a handler holds saveMu, and what it is about to   *)
(* install is the current configuration with its update.                   *)
Reloading == {"clone", "save", "swap"}
ReloadInv ==
    /\ \A p \in Puts : put[p] \in Reloading <=> saveMu = p
    /\ \A p \in Puts : put[p] \in {"save", "swap"} => updated[p] = Merge(data, p)
    /\ \A p \in Puts : put[p] = "swap" => file = updated[p]
    /\ (\A p \in Puts : put[p] # "swap") => file = data

(* The handlers that have swapped and not yet invalidated the cache, and   *)
(* those that have done both.                                              *)
Doomed == {"snapshot", "invalidate"}
Told == {"readsplit", "split", "notify", "answer", "ok"}
Invalidated == {p \in Puts : put[p] \in Told}

(* What is acknowledged was invalidated before, and swapped before that.   *)
AckInv ==
    /\ \A p \in Puts : put[p] \in Doomed \cup Told => p \in data.applied
    /\ \A p \in acked : p \in Puts /\ put[p] = "ok"
    /\ \A g \in Gets : floor[g] \subseteq acked

(* A configuration a reader may return: it lacks updates only of handlers  *)
(* that are about to invalidate the cache.                                 *)
Fresh(c) ==
    /\ c.applied \subseteq data.applied
    /\ Invalidated \subseteq c.applied
    /\ (\A p \in Puts : put[p] \notin Doomed) => c = data
CacheInv ==
    /\ cached # None => Fresh(cached)
    /\ \A g \in Gets : get[g] \in {"marshal", "store"} => readGen[g] <= gen
    /\ \A g \in Gets : get[g] = "store" =>
          floor[g] \subseteq body[g].applied /\ body[g].applied \subseteq data.applied
    /\ \A g \in Gets : get[g] = "store" /\ readGen[g] = gen => Fresh(body[g])

ConfigInv == TypeOK /\ ReloadInv /\ AckInv /\ CacheInv

LEMMA ConfigInvInit ==
    ASSUME Init PROVE ConfigInv
<1>1. Initial.applied = {}
  BY ReloadAssumption
<1>2. ReloadInv
  BY ReloadAssumption DEF Init, ReloadInv, Reloading
<1>3. AckInv
  BY <1>1 DEF Init, AckInv, Doomed, Told
<1>4. CacheInv
  BY DEF Init, CacheInv
<1> QED BY <1>2, <1>3, <1>4, TypeInit DEF ConfigInv

-----------------------------------------------------------------------------
(* A handler's step that touches neither data nor cache concerns readers   *)
(* only if it makes the handler doomed or told, or ends that.              *)
LEMMA SilentStep ==
    ASSUME ConfigInv, NEW p \in Puts, NEW from, NEW to,
           PutStep(p, from, to), from # "ok",
           from \in Doomed <=> to \in Doomed, from \in Told <=> to \in Told,
           UNCHANGED <<data, cacheVars, getVars, acked, floor>>
    PROVE  AckInv' /\ CacheInv'
<1>1. \A q \in Puts : put'[q] = IF q = p THEN to ELSE put[q]
  BY DEF PutStep, ConfigInv, TypeOK
<1>2. put[p] = from
  BY DEF PutStep
<1>3. AckInv'
  BY <1>1, <1>2 DEF ConfigInv, AckInv
<1>4. Invalidated' = Invalidated
  BY <1>1, <1>2 DEF Invalidated
<1>5. (\A q \in Puts : put'[q] \notin Doomed) => \A q \in Puts : put[q] \notin Doomed
  BY <1>1, <1>2
<1>6. CacheInv'
  BY <1>4, <1>5 DEF ConfigInv, CacheInv, Fresh, cacheVars, getVars
<1> QED BY <1>3, <1>6

LEMMA ReloadSteps ==
    ASSUME ConfigInv, NEW p \in Puts,
           Lock(p) \/ Clone(p) \/ Reject(p) \/ Save(p)
    PROVE  ReloadInv' /\ AckInv' /\ CacheInv'
<1> USE DEF configVars, history, Doomed, Told
<1>1. \A q \in Puts : q # None
  BY ReloadAssumption
<1>2. CASE Lock(p)
  <2>1. PutStep(p, "new", "clone") /\ UNCHANGED <<data, cacheVars, getVars, acked, floor>>
    BY <1>2 DEF Lock
  <2>2. \A q \in Puts : put'[q] = IF q = p THEN "clone" ELSE put[q]
    BY <2>1 DEF PutStep, ConfigInv, TypeOK
  <2>3. ReloadInv'
    BY <1>1, <1>2, <2>1, <2>2 DEF Lock, ConfigInv, ReloadInv, Reloading, PutStep, Merge
  <2> QED BY <2>1, <2>3, SilentStep
<1>3. CASE Clone(p)
  <2>1. PutStep(p, "clone", "save") /\ UNCHANGED <<data, cacheVars, getVars, acked, floor>>
    BY <1>3 DEF Clone
  <2>2. \A q \in Puts : put'[q] = IF q = p THEN "save" ELSE put[q]
    BY <2>1 DEF PutStep, ConfigInv, TypeOK
  <2>3. \A q \in Puts : updated'[q] = IF q = p THEN Merge(data, p) ELSE updated[q]
    BY <1>3 DEF Clone, ConfigInv, TypeOK
  <2>4. ReloadInv'
    BY <1>3, <2>1, <2>2, <2>3
       DEF Clone, ConfigInv, ReloadInv, Reloading, PutStep, Merge
  <2> QED BY <2>1, <2>4, SilentStep
<1>4. CASE Reject(p)
  <2>1. PutStep(p, "save", "failed") /\ UNCHANGED <<data, cacheVars, getVars, acked, floor>>
    BY <1>4 DEF Reject
  <2>2. \A q \in Puts : put'[q] = IF q = p THEN "failed" ELSE put[q]
    BY <2>1 DEF PutStep, ConfigInv, TypeOK
  <2>3. ReloadInv'
    BY <1>1, <1>4, <2>1, <2>2
       DEF Reject, ConfigInv, ReloadInv, Reloading, PutStep, Merge
  <2> QED BY <2>1, <2>3, SilentStep
<1>5. CASE Save(p)
  <2>1. PutStep(p, "save", "swap") /\ UNCHANGED <<data, cacheVars, getVars, acked, floor>>
    BY <1>5 DEF Save
  <2>2. \A q \in Puts : put'[q] = IF q = p THEN "swap" ELSE put[q]
    BY <2>1 DEF PutStep, ConfigInv, TypeOK
  <2>3. ReloadInv'
    BY <1>5, <2>1, <2>2 DEF Save, ConfigInv, ReloadInv, Reloading, PutStep, Merge
  <2> QED BY <2>1, <2>3, SilentStep
<1> QED BY <1>2, <1>3, <1>4, <1>5

(* The swap makes stale what readers have; the handler is doomed to        *)
(* invalidate it.                                                          *)
LEMMA SwapStep ==
    ASSUME ConfigInv, NEW p \in Puts, Swap(p)
    PROVE  ReloadInv' /\ AckInv' /\ CacheInv'
<1>1. \A q \in Puts : put'[q] = IF q = p THEN "snapshot" ELSE put[q]
  BY DEF Swap, PutStep, ConfigInv, TypeOK
<1>2. put[p] = "swap" /\ saveMu = p /\ data' = updated[p] /\ file = updated[p]
      /\ UNCHANGED <<file, updated, cached, gen, get, body, readGen, acked, floor>>
      /\ saveMu' = None
  BY DEF Swap, PutStep, ConfigInv, ReloadInv, Reloading, cacheVars, getVars, history
<1>3. data'.applied = data.applied \cup {p}
  BY <1>2, MergeType DEF ConfigInv, ReloadInv, TypeOK
<1>4. \A q \in Puts : q # p => put[q] \notin Reloading
  BY <1>2 DEF ConfigInv, ReloadInv
<1>5. ReloadInv'
  BY <1>1, <1>2, <1>4, ReloadAssumption DEF ReloadInv, Reloading
<1>6. AckInv'
  BY <1>1, <1>2, <1>3 DEF ConfigInv, AckInv, Doomed, Told
<1>7. Invalidated' = Invalidated /\ put'[p] \in Doomed
  BY <1>1, <1>2 DEF Invalidated, Doomed, Told
<1>8. CacheInv'
  BY <1>2, <1>3, <1>7 DEF ConfigInv, CacheInv, Fresh
<1> QED BY <1>5, <1>6, <1>8

(* Invalidating empties the cache and outdates every marshal under way.    *)
LEMMA InvalidateStep ==
    ASSUME ConfigInv, NEW p \in Puts, InvalidateConfigJSON(p)
    PROVE  ReloadInv' /\ AckInv' /\ CacheInv'
<1>1. \A q \in Puts : put'[q] = IF q = p THEN "readsplit" ELSE put[q]
  BY DEF InvalidateConfigJSON, PutStep, ConfigInv, TypeOK
<1>2. put[p] = "invalidate" /\ cached' = None /\ gen' = gen + 1
      /\ UNCHANGED <<data, file, saveMu, updated, get, body, readGen, acked, floor>>
  BY DEF InvalidateConfigJSON, PutStep, configVars, getVars, history
<1>3. ReloadInv'
  BY <1>1, <1>2 DEF ConfigInv, ReloadInv, Reloading, Merge
<1>4. AckInv'
  BY <1>1, <1>2 DEF ConfigInv, AckInv, Doomed, Told
<1>5. gen \in Nat /\ \A g \in Gets : readGen[g] \in Nat
  BY DEF ConfigInv, TypeOK
<1>6. CacheInv'
  BY <1>2, <1>5 DEF ConfigInv, CacheInv
<1> QED BY <1>3, <1>4, <1>6

LEMMA TellSteps ==
    ASSUME ConfigInv, NEW p \in Puts,
           UpdateSnapshot(p) \/ ReadSplit(p) \/ ApplyLanWanSplit(p)
             \/ NotifyIntervalChanged(p)
    PROVE  ReloadInv' /\ AckInv' /\ CacheInv'
<1>1. PICK from \in Doomed \cup Told, to \in Doomed \cup Told :
        /\ PutStep(p, from, to) /\ from # "ok"
        /\ from \in Doomed <=> to \in Doomed
        /\ from \in Told <=> to \in Told
  BY DEF UpdateSnapshot, ReadSplit, ApplyLanWanSplit, NotifyIntervalChanged,
         Doomed, Told
<1>2. UNCHANGED <<data, file, saveMu, updated, cacheVars, getVars, acked, floor>>
  BY DEF UpdateSnapshot, ReadSplit, ApplyLanWanSplit, NotifyIntervalChanged,
         configVars, history
<1>3. \A q \in Puts : put'[q] = IF q = p THEN to ELSE put[q]
  BY <1>1 DEF PutStep, ConfigInv, TypeOK
<1>4. put[p] \notin Reloading /\ to \notin Reloading
  BY <1>1 DEF PutStep, Doomed, Told, Reloading
<1>5. ReloadInv'
  BY <1>2, <1>3, <1>4 DEF ConfigInv, ReloadInv, Reloading, Merge
<1> QED BY <1>1, <1>2, <1>5, SilentStep

LEMMA AnswerStep ==
    ASSUME ConfigInv, NEW p \in Puts, Answer(p)
    PROVE  ReloadInv' /\ AckInv' /\ CacheInv'
<1>1. \A q \in Puts : put'[q] = IF q = p THEN "ok" ELSE put[q]
  BY DEF Answer, PutStep, ConfigInv, TypeOK
<1>2. put[p] = "answer" /\ acked' = acked \cup {p}
      /\ UNCHANGED <<data, file, saveMu, updated, cached, gen, get, body, readGen, floor>>
  BY DEF Answer, PutStep, configVars, cacheVars, getVars
<1>3. ReloadInv'
  BY <1>1, <1>2 DEF ConfigInv, ReloadInv, Reloading, Merge
<1>4. AckInv'
  BY <1>1, <1>2 DEF ConfigInv, AckInv, Doomed, Told
<1>5. Invalidated' = Invalidated
      /\ ((\A q \in Puts : put'[q] \notin Doomed) => \A q \in Puts : put[q] \notin Doomed)
  BY <1>1, <1>2 DEF Invalidated, Doomed, Told
<1>6. CacheInv'
  BY <1>2, <1>5 DEF ConfigInv, CacheInv, Fresh
<1> QED BY <1>3, <1>4, <1>6

-----------------------------------------------------------------------------
(* A reader's steps.                                                       *)
LEMMA GetSteps ==
    ASSUME ConfigInv, NEW g \in Gets, GetHandler(g)
    PROVE  ReloadInv' /\ AckInv' /\ CacheInv'
<1>1. UNCHANGED <<data, file, saveMu, put, updated, gen, acked>>
  BY DEF GetHandler, Arrive, Peek, Marshal, Store, configVars, cacheVars, putVars,
         history
<1>2. ReloadInv'
  BY <1>1 DEF ConfigInv, ReloadInv, Merge
<1>3. AckInv'
  <2>1. \A h \in Gets : floor'[h] = floor[h] \/ floor'[h] = acked
    BY DEF GetHandler, Arrive, Peek, Marshal, Store, history, ConfigInv, TypeOK
  <2> QED BY <1>1, <2>1 DEF ConfigInv, AckInv
<1>4. Invalidated' = Invalidated
  BY <1>1 DEF Invalidated
<1>5. Invalidated \subseteq data.applied /\ acked \subseteq Invalidated
      /\ floor[g] \subseteq acked
  BY DEF ConfigInv, AckInv, Invalidated, Told
<1>6. gen \in Nat /\ cached \in Config \cup {None} /\ None \notin Config
  BY ReloadAssumption DEF ConfigInv, TypeOK
<1>7. CASE Arrive(g)
  <2>1. \A h \in Gets : get'[h] = "store" => get[h] = "store" /\ floor'[h] = floor[h]
    BY <1>7 DEF Arrive, GetStep, ConfigInv, TypeOK
  <2>2. \A h \in Gets : get'[h] \in {"marshal", "store"} => get[h] = get'[h]
    BY <1>7 DEF Arrive, GetStep, ConfigInv, TypeOK
  <2>3. UNCHANGED <<cached, body, readGen>>
    BY <1>7 DEF Arrive, cacheVars
  <2>4. CacheInv'
    BY <1>1, <1>4, <2>1, <2>2, <2>3 DEF ConfigInv, CacheInv, Fresh
  <2> QED BY <1>2, <1>3, <2>4
<1>8. CASE Peek(g)
  <2>1. \A h \in Gets : get'[h] = "store" =>
          get[h] = "store" /\ h # g /\ body'[h] = body[h] /\ readGen'[h] = readGen[h]
    BY <1>8 DEF Peek, GetStep, ConfigInv, TypeOK
  <2>2. \A h \in Gets : get'[h] = "marshal" =>
          IF h = g THEN readGen'[h] = gen
          ELSE get[h] = "marshal" /\ readGen'[h] = readGen[h]
    BY <1>8 DEF Peek, GetStep, ConfigInv, TypeOK
  <2>3. UNCHANGED <<cached, floor>>
    BY <1>8 DEF Peek, cacheVars, history
  <2>4. CacheInv'
    BY <1>1, <1>4, <1>6, <2>1, <2>2, <2>3 DEF ConfigInv, CacheInv, Fresh
  <2> QED BY <1>2, <1>3, <2>4
<1>9. CASE Marshal(g)
  <2>1. \A h \in Gets : get'[h] = "store" =>
          IF h = g THEN body'[h] = data ELSE get[h] = "store" /\ body'[h] = body[h]
    BY <1>9 DEF Marshal, GetStep, ConfigInv, TypeOK
  <2>2. \A h \in Gets : get'[h] \in {"marshal", "store"} =>
          get[h] \in {"marshal", "store"}
    BY <1>9 DEF Marshal, GetStep, ConfigInv, TypeOK
  <2>3. UNCHANGED <<cached, readGen, floor>>
    BY <1>9 DEF Marshal, cacheVars, history
  <2>4. CacheInv'
    BY <1>1, <1>4, <1>5, <2>1, <2>2, <2>3 DEF ConfigInv, CacheInv, Fresh
  <2> QED BY <1>2, <1>3, <2>4
<1>10. CASE Store(g)
  <2>1. \A h \in Gets : get'[h] \in {"marshal", "store"} =>
          get[h] = get'[h] /\ body'[h] = body[h]
    BY <1>10 DEF Store, GetStep, ConfigInv, TypeOK
  <2>2. UNCHANGED <<readGen, floor>>
    BY <1>10 DEF Store, history
  <2>3. cached' # None => Fresh(cached)'
    <3>1. cached' = cached \/ (cached' = body[g] /\ readGen[g] = gen /\ get[g] = "store")
      BY <1>10 DEF Store, Filled, GetStep
    <3> QED BY <1>1, <1>4, <3>1 DEF ConfigInv, CacheInv, Fresh
  <2>4. CacheInv'
    BY <1>1, <1>4, <2>1, <2>2, <2>3 DEF ConfigInv, CacheInv, Fresh
  <2> QED BY <1>2, <1>3, <2>4
<1> QED BY <1>7, <1>8, <1>9, <1>10 DEF GetHandler

(* A restart keeps the file, and the file has everything in effect.        *)
LEMMA CrashStep ==
    ASSUME ConfigInv, Crash PROVE ReloadInv' /\ AckInv' /\ CacheInv'
<1>1. /\ data' = file /\ file' = file /\ saveMu' = None /\ cached' = None
      /\ UNCHANGED <<acked, floor>>
      /\ \A p \in Puts : put'[p] = IF put[p] \in {"new", "ok"} THEN put[p] ELSE "failed"
      /\ \A g \in Gets : get'[g] = IF get[g] \in {"new", "done"} THEN get[g]
                                   ELSE "failed"
  BY DEF Crash, history
<1>2. data.applied \subseteq file.applied
  BY MergeType DEF ConfigInv, ReloadInv, TypeOK
<1>3. ReloadInv'
  BY <1>1, ReloadAssumption DEF ReloadInv, Reloading
<1>4. AckInv'
  BY <1>1, <1>2 DEF ConfigInv, AckInv, Doomed, Told
<1>5. CacheInv'
  BY <1>1 DEF CacheInv
<1> QED BY <1>3, <1>4, <1>5

LEMMA ConfigInvNext ==
    ASSUME ConfigInv, [Next]_vars PROVE ConfigInv'
<1>1. CASE Loop \/ UNCHANGED vars
  <2>1. UNCHANGED <<data, file, saveMu, put, updated, cached, gen, get, body, readGen,
                    acked, floor>>
    BY <1>1 DEF Loop, ReadInterval, ResetTicker, vars, configVars, cacheVars, putVars,
                getVars, history
  <2> QED BY <2>1, TypeNext DEF ConfigInv, ReloadInv, AckInv, CacheInv, Fresh,
                                Invalidated, Merge
<1>2. CASE \E p \in Puts : PutHandler(p)
  BY <1>2, ReloadSteps, SwapStep, InvalidateStep, TellSteps, AnswerStep, TypeNext
     DEF PutHandler, ConfigInv
<1>3. CASE \E g \in Gets : GetHandler(g)
  BY <1>3, GetSteps, TypeNext DEF ConfigInv
<1>4. CASE Crash
  BY <1>4, CrashStep, TypeNext DEF ConfigInv
<1> QED BY <1>1, <1>2, <1>3, <1>4 DEF Next, Idle

THEOREM ConfigInvariant == Spec => []ConfigInv
<1>1. ConfigInv /\ [Next]_vars => ConfigInv'
  BY ConfigInvNext
<1> QED BY <1>1, ConfigInvInit, PTL DEF Spec

(* File and memory differ only within one Reload, and by its update.       *)
THEOREM FileCoherence == Spec => []FileCoherent
<1>1. ConfigInv => FileCoherent
  BY DEF ConfigInv, ReloadInv, Reloading, FileCoherent
<1> QED BY <1>1, ConfigInvariant, PTL

(* A stale cache is about to be invalidated, however the marshals and the  *)
(* updates interleave.                                                     *)
THEOREM CacheCoherence == Spec => []StaleCacheDoomed
<1>1. ConfigInv => StaleCacheDoomed
  BY DEF ConfigInv, CacheInv, Fresh, Doomed, StaleCacheDoomed
<1> QED BY <1>1, ConfigInvariant, PTL

-----------------------------------------------------------------------------
(* ConfigReload implements the durable register.                           *)
THEOREM RegisterRefinement == Spec => RegisterSpec
<1> USE DEF configVars, cacheVars, putVars, getVars, history
<1>1. Init => Register!Init
  BY ReloadAssumption DEF Init, Register!Init
<1>2. ConfigInv /\ [Next]_vars => [Register!Next]_(Register!registerVars)
  <2> SUFFICES ASSUME ConfigInv, [Next]_vars
               PROVE  [Register!Next]_(Register!registerVars)
    OBVIOUS
  <2> DEFINE returned == [g \in Gets |-> IF get[g] = "done" THEN body[g].applied
                                         ELSE None]
  <2>1. ASSUME NEW p \in Puts, PutHandler(p)
        PROVE  [Register!Next]_(Register!registerVars)
    <3>1. UNCHANGED <<get, body, floor>>
      BY <2>1 DEF PutHandler, Lock, Clone, Reject, Save, Swap, UpdateSnapshot,
                  InvalidateConfigJSON, ReadSplit, ApplyLanWanSplit,
                  NotifyIntervalChanged, Answer
    <3>2. CASE Swap(p)
      <4>1. data'.applied = data.applied \cup {p} /\ acked' = acked
        BY <3>2, MergeType DEF Swap, PutStep, ConfigInv, ReloadInv, TypeOK
      <4> QED BY <3>1, <4>1 DEF Register!Next, Register!Commit
    <3>3. CASE Answer(p)
      <4>1. data' = data /\ acked' = acked \cup {p} /\ p \in data.applied
        BY <3>3 DEF Answer, PutStep, ConfigInv, AckInv, Told
      <4> QED BY <3>1, <4>1 DEF Register!Next, Register!Ack
    <3>4. CASE ~Swap(p) /\ ~Answer(p)
      <4>1. data' = data /\ acked' = acked
        BY <2>1, <3>4 DEF PutHandler, Lock, Clone, Reject, Save, UpdateSnapshot,
              InvalidateConfigJSON, ReadSplit, ApplyLanWanSplit, NotifyIntervalChanged
      <4> QED BY <3>1, <4>1 DEF Register!registerVars
    <3> QED BY <3>2, <3>3, <3>4
  <2>2. ASSUME NEW g \in Gets, GetHandler(g)
        PROVE  [Register!Next]_(Register!registerVars)
    <3>1. data' = data /\ acked' = acked
      BY <2>2 DEF GetHandler, Arrive, Peek, Marshal, Store
    <3>2. CASE Arrive(g)
      <4>1. returned' = returned /\ floor' = [floor EXCEPT ![g] = acked]
        BY <3>2 DEF Arrive, GetStep, ConfigInv, TypeOK
      <4> QED BY <3>1, <4>1 DEF Register!Next, Register!StartRead
    <3>3. ASSUME NEW c \in Config, Fresh(c) \/ (c = body[g] /\ get[g] = "store"),
                 GetStep(g, get[g], "done"), get[g] # "done",
                 body' = [body EXCEPT ![g] = c], floor' = floor
          PROVE  [Register!Next]_(Register!registerVars)
      <4>1. returned' = [returned EXCEPT ![g] = c.applied]
        BY <3>3 DEF GetStep, ConfigInv, TypeOK
      <4>2. floor[g] \subseteq c.applied /\ c.applied \subseteq data.applied
        BY <3>3 DEF Fresh, ConfigInv, AckInv, CacheInv, Invalidated, Told
      <4> QED BY <3>1, <3>3, <4>1, <4>2 DEF Register!Next, Register!FinishRead
    <3>4. CASE Peek(g)
      <4>1. CASE cached # None
        <5>1. get[g] = "peek" /\ GetStep(g, get[g], "done") /\ floor' = floor
              /\ body' = [body EXCEPT ![g] = cached]
          BY <3>4, <4>1 DEF Peek, GetStep
        <5>2. cached \in Config /\ Fresh(cached)
          BY <4>1 DEF ConfigInv, CacheInv, TypeOK
        <5> QED BY <3>3, <5>1, <5>2
      <4>2. CASE cached = None
        <5>1. returned' = returned /\ floor' = floor
          BY <3>4, <4>2 DEF Peek, GetStep, ConfigInv, TypeOK
        <5> QED BY <3>1, <5>1 DEF Register!registerVars
      <4> QED BY <4>1, <4>2
    <3>5. CASE Marshal(g)
      <4>1. returned' = returned /\ floor' = floor
        BY <3>5 DEF Marshal, GetStep, ConfigInv, TypeOK
      <4> QED BY <3>1, <4>1 DEF Register!registerVars
    <3>6. CASE Store(g)
      <4>1. get[g] = "store" /\ GetStep(g, get[g], "done") /\ floor' = floor
            /\ body' = [body EXCEPT ![g] = Reply(g)]
        BY <3>6 DEF Store, GetStep
      <4>2. CASE cached # None
        BY <3>3, <4>1, <4>2 DEF Reply, ConfigInv, CacheInv, TypeOK
      <4>3. CASE cached = None
        BY <3>3, <4>1, <4>3 DEF Reply, ConfigInv, TypeOK
      <4> QED BY <4>2, <4>3
    <3> QED BY <2>2, <3>2, <3>4, <3>5, <3>6 DEF GetHandler
  <2>3. CASE Loop \/ UNCHANGED vars
    <3>1. UNCHANGED <<data, acked, floor, get, body>>
      BY <2>3 DEF Loop, ReadInterval, ResetTicker, vars
    <3> QED BY <3>1 DEF Register!registerVars
  <2>4. CASE Crash
    <3>1. returned' = returned
      BY <2>4 DEF Crash, ConfigInv, TypeOK
    <3>2. acked' = acked /\ floor' = floor /\ data' = file
      BY <2>4 DEF Crash
    <3>3. file = data \/ \E p \in Puts : file.applied = data.applied \cup {p}
      <4>1. CASE \A p \in Puts : put[p] # "swap"
        BY <4>1 DEF ConfigInv, ReloadInv
      <4>2. ASSUME NEW p \in Puts, put[p] = "swap"
            PROVE  file.applied = data.applied \cup {p}
        <5>1. file = Merge(data, p) /\ data \in Config
          BY <4>2 DEF ConfigInv, ReloadInv, TypeOK
        <5> QED BY <5>1, MergeType
      <4> QED BY <4>1, <4>2
    <3> QED BY <3>1, <3>2, <3>3
            DEF Register!Next, Register!Commit, Register!registerVars
  <2> QED BY <2>1, <2>2, <2>3, <2>4 DEF Next, Idle
<1> QED
  BY <1>1, <1>2, ConfigInvariant, PTL DEF Spec, RegisterSpec, Register!Spec
=============================================================================
