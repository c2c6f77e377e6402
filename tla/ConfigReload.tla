---------------------------- MODULE ConfigReload ----------------------------
(***************************************************************************)
(* A configuration change while the program runs.  PUT /api/config         *)
(* (server.updateConfigHandler) runs Config.Reload, which rewrites the     *)
(* file and swaps the data in memory, and then tells the collector, the    *)
(* cached JSON of GET /api/config, the LAN/WAN classifier and the          *)
(* collector's ticker.  Every step between two lock operations is an       *)
(* action; any number of PUT and GET handlers run concurrently with the    *)
(* collector goroutine, and the process may crash and start again.         *)
(*                                                                         *)
(* Of a configuration the model keeps monitor.interval,                    *)
(* monitor.lan_wan_split and the set of the updates incorporated in it.    *)
(***************************************************************************)
EXTENDS Naturals, FiniteSets

CONSTANTS
    Puts,        \* requests that update the configuration, each sent once
    Gets,        \* requests that read it, each sent once
    Patch,       \* Patch[p]: the fields p sets, Keep for the others
    Initial,     \* the configuration in the file at the start
    MaxCrashes,  \* bound on the number of crashes
    Keep, None

Config == [applied : SUBSET Puts, interval : Nat, split : BOOLEAN]

ASSUME ReloadAssumption ==
    /\ Initial \in Config /\ Initial.applied = {}
    /\ MaxCrashes \in Nat
    /\ Patch \in [Puts -> [interval : Nat \cup {Keep},
                           split : BOOLEAN \cup {Keep}]]
    /\ None \notin Config /\ None \notin Puts

VARIABLES
    data,        \* Config.data
    file,        \* the configuration file
    saveMu,      \* holder of Config.saveMu, or None
    snapshot,    \* Collector.snapshot
    cached,      \* Server.configJSONBytes, or None
    gen,         \* Server.configJSONGen
    classifier,  \* TRUE while the LAN/WAN classifier is on
    reloadCh,    \* TRUE while a token is in Collector.reloadCh
    ticker,      \* period of the collector's ticker
    put,         \* put[p]: where the handler of p is
    updated,     \* updated[p]: updatedSnap, p's new configuration
    changed,     \* changed[p]: intervalChanged
    arg,         \* arg[p]: the argument of applyLanWanSplit
    get,         \* get[g]: where the handler of g is
    body,        \* body[g]: the configuration g has marshalled or returned
    readGen,     \* readGen[g]: the generation g has read
    loop,        \* where the collector goroutine is
    newInterval, \* the interval it has read
    crashes,
    acked,       \* history: updates answered with "ok"
    floor        \* history: updates answered when g started

configVars == <<data, file, saveMu>>
cacheVars == <<cached, gen>>
tickVars == <<reloadCh, ticker, loop, newInterval>>
putVars == <<put, updated, changed, arg>>
getVars == <<get, body, readGen>>
history == <<acked, floor>>
vars == <<configVars, snapshot, cacheVars, classifier, tickVars, putVars,
          getVars, crashes, history>>

Init ==
    /\ data = Initial /\ file = Initial /\ saveMu = None
    /\ snapshot = Initial
    /\ cached = None /\ gen = 0
    /\ classifier = Initial.split
    /\ reloadCh = FALSE /\ loop = "boot"
    /\ ticker = Initial.interval /\ newInterval = Initial.interval
    /\ put = [p \in Puts |-> "new"]
    /\ updated = [p \in Puts |-> Initial]
    /\ changed = [p \in Puts |-> FALSE]
    /\ arg = [p \in Puts |-> Initial.split]
    /\ get = [g \in Gets |-> "new"]
    /\ body = [g \in Gets |-> Initial]
    /\ readGen = [g \in Gets |-> 0]
    /\ crashes = 0
    /\ acked = {} /\ floor = [g \in Gets |-> {}]

-----------------------------------------------------------------------------
(* applyUpdates: an update replaces the fields it names.                   *)
Pick(new, old) == IF new = Keep THEN old ELSE new
(* Faulty variant: an absent field is copied like a present one. *)
MergeAbsent(c, p) == [applied |-> c.applied \cup {p},
                      interval |-> Patch[p].interval,
                      split |-> Patch[p].split]

Merge(c, p) == [applied |-> c.applied \cup {p},
                interval |-> Pick(Patch[p].interval, c.interval),
                split |-> Pick(Patch[p].split, c.split)]

PutStep(p, from, to) == put[p] = from /\ put' = [put EXCEPT ![p] = to]
GetStep(g, from, to) == get[g] = from /\ get' = [get EXCEPT ![g] = to]

(* Faulty variant: Reload does not take saveMu. *)
LockNothing(p) ==
    /\ saveMu' = p
    /\ PutStep(p, "new", "clone")
    /\ UNCHANGED <<data, file, snapshot, cacheVars, classifier, tickVars,
                   updated, changed, arg, getVars, crashes, history>>

(* Reload takes saveMu ...                                                 *)
Lock(p) ==
    /\ saveMu = None
    /\ saveMu' = p
    /\ PutStep(p, "new", "clone")
    /\ UNCHANGED <<data, file, snapshot, cacheVars, classifier, tickVars,
                   updated, changed, arg, getVars, crashes, history>>

(* Faulty variant: the update is merged into the collector's copy. *)
CloneSnapshot(p) ==
    /\ PutStep(p, "clone", "save")
    /\ updated' = [updated EXCEPT ![p] = Merge(snapshot, p)]
    /\ UNCHANGED <<configVars, snapshot, cacheVars, classifier, tickVars,
                   changed, arg, getVars, crashes, history>>

(* ... clones the data and merges the update into the clone ...            *)
Clone(p) ==
    /\ PutStep(p, "clone", "save")
    /\ updated' = [updated EXCEPT ![p] = Merge(data, p)]
    /\ UNCHANGED <<configVars, snapshot, cacheVars, classifier, tickVars,
                   changed, arg, getVars, crashes, history>>

(* ... gives up if the result is invalid or cannot be saved ...            *)
Reject(p) ==
    /\ PutStep(p, "save", "failed")
    /\ saveMu' = None
    /\ UNCHANGED <<data, file, snapshot, cacheVars, classifier, tickVars,
                   updated, changed, arg, getVars, crashes, history>>

(* ... renames the new file into place ...                                 *)
Save(p) ==
    /\ PutStep(p, "save", "swap")
    /\ file' = updated[p]
    /\ UNCHANGED <<data, saveMu, snapshot, cacheVars, classifier, tickVars,
                   updated, changed, arg, getVars, crashes, history>>

(* ... swaps the data under mu, and releases saveMu.                       *)
Swap(p) ==
    /\ PutStep(p, "swap", "snapshot")
    /\ data' = updated[p]
    /\ changed' = [changed EXCEPT ![p] = updated[p].interval # data.interval]
    /\ saveMu' = None
    /\ UNCHANGED <<file, snapshot, cacheVars, classifier, tickVars, updated,
                   arg, getVars, crashes, history>>

-----------------------------------------------------------------------------
(* Faulty variant: it is called only if the interval has changed. *)
UpdateSnapshotIfChanged(p) ==
    /\ PutStep(p, "snapshot", "invalidate")
    /\ snapshot' = IF changed[p] THEN data ELSE snapshot
    /\ UNCHANGED <<configVars, cacheVars, classifier, tickVars, updated,
                   changed, arg, getVars, crashes, history>>

(* UpdateSnapshot reads the data while it holds snapshotMu.                *)
UpdateSnapshot(p) ==
    /\ PutStep(p, "snapshot", "invalidate")
    /\ snapshot' = data
    /\ UNCHANGED <<configVars, cacheVars, classifier, tickVars, updated,
                   changed, arg, getVars, crashes, history>>

InvalidateConfigJSON(p) ==
    /\ PutStep(p, "invalidate", "readsplit")
    /\ cached' = None
    /\ gen' = gen + 1
    /\ UNCHANGED <<configVars, snapshot, classifier, tickVars, updated,
                   changed, arg, getVars, crashes, history>>

(* The argument cfg.Snapshot().Monitor.LanWanSplit is read under mu ...    *)
ReadSplit(p) ==
    /\ PutStep(p, "readsplit", "split")
    /\ arg' = [arg EXCEPT ![p] = data.split]
    /\ UNCHANGED <<configVars, snapshot, cacheVars, classifier, tickVars,
                   updated, changed, getVars, crashes, history>>

(* ... and applied under classifierMu; here the classifier never fails.    *)
ApplyLanWanSplit(p) ==
    /\ PutStep(p, "split", "notify")
    /\ classifier' = arg[p]
    /\ UNCHANGED <<configVars, snapshot, cacheVars, tickVars, updated,
                   changed, arg, getVars, crashes, history>>

(* NotifyIntervalChanged drops the token if there is one already.          *)
NotifyIntervalChanged(p) ==
    /\ PutStep(p, "notify", "answer")
    /\ reloadCh' = (reloadCh \/ changed[p])
    /\ UNCHANGED <<configVars, snapshot, cacheVars, classifier, ticker, loop,
                   newInterval, updated, changed, arg, getVars, crashes, history>>

Answer(p) ==
    /\ PutStep(p, "answer", "ok")
    /\ acked' = acked \cup {p}
    /\ UNCHANGED <<configVars, snapshot, cacheVars, classifier, tickVars,
                   updated, changed, arg, getVars, crashes, floor>>

-----------------------------------------------------------------------------
(* getConfigHandler: the request arrives ...                               *)
Arrive(g) ==
    /\ GetStep(g, "new", "peek")
    /\ floor' = [floor EXCEPT ![g] = acked]
    /\ UNCHANGED <<configVars, snapshot, cacheVars, classifier, tickVars,
                   putVars, body, readGen, crashes, acked>>

(* ... is answered from the cache, or remembers its generation ...         *)
Peek(g) ==
    /\ IF cached # None
       THEN /\ GetStep(g, "peek", "done")
            /\ body' = [body EXCEPT ![g] = cached]
            /\ UNCHANGED readGen
       ELSE /\ GetStep(g, "peek", "marshal")
            /\ readGen' = [readGen EXCEPT ![g] = gen]
            /\ UNCHANGED body
    /\ UNCHANGED <<configVars, snapshot, cacheVars, classifier, tickVars,
                   putVars, crashes, history>>

(* ... reads the data (MaskSensitive, under mu) and marshals them ...      *)
Marshal(g) ==
    /\ GetStep(g, "marshal", "store")
    /\ body' = [body EXCEPT ![g] = data]
    /\ UNCHANGED <<configVars, snapshot, cacheVars, classifier, tickVars,
                   putVars, readGen, crashes, history>>

(* Faulty variant: the generation is not compared. *)
FilledAnyGen(g) == cached = None

(* ... and caches the result unless the cache was invalidated or filled.   *)
Filled(g) == cached = None /\ gen = readGen[g]
Reply(g) == IF cached # None THEN cached ELSE body[g]
Store(g) ==
    /\ GetStep(g, "store", "done")
    /\ cached' = IF Filled(g) THEN body[g] ELSE cached
    /\ body' = [body EXCEPT ![g] = Reply(g)]
    /\ UNCHANGED <<configVars, snapshot, gen, classifier, tickVars, putVars,
                   readGen, crashes, history>>

-----------------------------------------------------------------------------
(* The collector goroutine reads the interval, at its start or on a token, *)
ReadInterval ==
    /\ \/ loop = "boot"
       \/ loop = "select" /\ reloadCh
    /\ reloadCh' = IF loop = "boot" THEN reloadCh ELSE FALSE
    /\ newInterval' = snapshot.interval
    /\ loop' = "reset"
    /\ UNCHANGED <<configVars, snapshot, cacheVars, classifier, ticker,
                   putVars, getVars, crashes, history>>

(* and sets its ticker to it.                                              *)
ResetTicker ==
    /\ loop = "reset"
    /\ ticker' = newInterval
    /\ loop' = "select"
    /\ UNCHANGED <<configVars, snapshot, cacheVars, classifier, reloadCh,
                   newInterval, putVars, getVars, crashes, history>>

(* The process dies and main starts it again: only the file is left.       *)
Crash ==
    /\ crashes < MaxCrashes
    /\ crashes' = crashes + 1
    /\ data' = file /\ snapshot' = file /\ saveMu' = None
    /\ cached' = None /\ gen' = 0
    /\ classifier' = file.split
    /\ reloadCh' = FALSE /\ loop' = "boot"
    /\ ticker' = file.interval /\ newInterval' = file.interval
    /\ put' = [p \in Puts |-> IF put[p] \in {"new", "ok"} THEN put[p] ELSE "failed"]
    /\ get' = [g \in Gets |-> IF get[g] \in {"new", "done"} THEN get[g] ELSE "failed"]
    /\ UNCHANGED <<file, updated, changed, arg, body, readGen, history>>

-----------------------------------------------------------------------------
PutHandler(p) ==
    \/ Lock(p) \/ Clone(p) \/ Reject(p) \/ Save(p) \/ Swap(p)
    \/ UpdateSnapshot(p) \/ InvalidateConfigJSON(p)
    \/ ReadSplit(p) \/ ApplyLanWanSplit(p) \/ NotifyIntervalChanged(p)
    \/ Answer(p)

GetHandler(g) == Arrive(g) \/ Peek(g) \/ Marshal(g) \/ Store(g)

Loop == ReadInterval \/ ResetTicker

(* Every request has been answered and the collector waits for its ticker. *)
Quiet ==
    /\ \A p \in Puts : put[p] \in {"ok", "failed"}
    /\ \A g \in Gets : get[g] \in {"done", "failed"}
    /\ loop = "select" /\ ~reloadCh

Idle == Quiet /\ UNCHANGED vars

Next ==
    \/ \E p \in Puts : PutHandler(p)
    \/ \E g \in Gets : GetHandler(g)
    \/ Loop
    \/ Crash
    \/ Idle

(* A handler of an update, once accepted, and the collector go on when     *)
(* they can; clients need not send a request, and reads may hang.          *)
Fairness ==
    /\ \A p \in Puts : WF_vars(put[p] # "new" /\ PutHandler(p))
    /\ WF_vars(Loop)

Spec == Init /\ [][Next]_vars
FairSpec == Spec /\ Fairness

-----------------------------------------------------------------------------
TypeOK ==
    /\ data \in Config /\ file \in Config /\ snapshot \in Config
    /\ saveMu \in Puts \cup {None}
    /\ cached \in Config \cup {None} /\ gen \in Nat
    /\ classifier \in BOOLEAN /\ reloadCh \in BOOLEAN
    /\ ticker \in Nat /\ newInterval \in Nat
    /\ loop \in {"boot", "reset", "select"}
    /\ put \in [Puts -> {"new", "clone", "save", "swap", "snapshot", "invalidate",
                         "readsplit", "split", "notify", "answer", "ok", "failed"}]
    /\ updated \in [Puts -> Config]
    /\ changed \in [Puts -> BOOLEAN] /\ arg \in [Puts -> BOOLEAN]
    /\ get \in [Gets -> {"new", "peek", "marshal", "store", "done", "failed"}]
    /\ body \in [Gets -> Config] /\ readGen \in [Gets -> Nat]
    /\ crashes \in 0..MaxCrashes
    /\ acked \subseteq Puts /\ floor \in [Gets -> SUBSET Puts]

(* "saveMu serializes concurrent Reload calls so the file write and the    *)
(* in-memory swap stay coherent": they differ only while a Reload is       *)
(* between the two, and then by its update alone.                          *)
FileCoherent ==
    file # data => \E p \in Puts : /\ saveMu = p /\ put[p] = "swap"
                                   /\ file = Merge(data, p)

(* "A generation counter prevents a slow marshal from writing a stale      *)
(* snapshot back after invalidation": a stale cache is about to be         *)
(* invalidated by the handler that has made it stale.                      *)
StaleCacheDoomed ==
    cached # None /\ cached # data =>
        \E p \in Puts : put[p] \in {"snapshot", "invalidate"}

(* The clients of /api/config see one durable register: no update is lost, *)
(* not even by a crash once it is in effect, and no read misses an update  *)
(* that was acknowledged before it.                                        *)
Register == INSTANCE ConfigRegister WITH
    value <- data.applied,
    result <- [g \in Gets |->
                 IF get[g] = "done" THEN body[g].applied ELSE None]
RegisterSpec == Register!Spec

(* Once the updates stop, the collector's settings and the period of its   *)
(* ticker are those of the configuration.                                  *)
Converges == <>[](snapshot = data /\ ticker = data.interval)

(* "Configuration updated and in effect" (updateConfigHandler): when all   *)
(* handlers are done, the classifier is on if and only if it is configured.*)
SplitInEffect == Quiet => classifier = data.split
=============================================================================
