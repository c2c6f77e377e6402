------------------------------ MODULE Sessions ------------------------------
(***************************************************************************)
(* server/server.go and the auth_sessions table of store/sqlite.go: login  *)
(* sessions are kept in a bounded map; those of "remember me" have a row   *)
(* too, and a restart restores the rows.  The map and the table are never  *)
(* changed together: a login inserts and then saves, a logout, a visit and *)
(* the cleaner delete from the map and then the row, an eviction leaves    *)
(* the row, and any statement may fail and the process die in between.     *)
(*                                                                         *)
(* A login makes a fresh token; its password and the limiter before it are *)
(* left out.  An expiry in the map and in its row are one time: the row's  *)
(* is cut to seconds.                                                      *)
(***************************************************************************)
EXTENDS Integers, FiniteSets

CONSTANTS
    Tokens,       \* one per successful login, numbered in their order
    MaxSessions,  \* maxSessions
    Plain,        \* how long a session lasts
    Remembered,   \* how long it lasts with "remember me"
    MaxTime,      \* bound on the clock
    MaxFaults,    \* bound on failing statements
    MaxCrashes    \* bound on the deaths of the process

ASSUME SessionAssumption ==
    /\ Tokens \subseteq Nat /\ IsFiniteSet(Tokens)
    /\ MaxSessions \in Nat \ {0}
    /\ Plain \in Nat \ {0} /\ Remembered \in Nat /\ Plain <= Remembered
    /\ MaxTime \in Nat /\ MaxFaults \in Nat /\ MaxCrashes \in Nat

VARIABLES
    now,        \* the clock
    up,         \* the process runs
    hasDB,      \* it has opened the database
    stage,      \* of each login: "unborn", "saving", "answered", "lost"
    remember,   \* tokens of logins with "remember me"
    expires,    \* when each session ends
    sessions,   \* the map
    rows,       \* auth_sessions
    visits,     \* tokens that a request has found expired, to be deleted
    deletes,    \* tokens that a request is deleting from the table
    cleaner,    \* "idle", "rows": where the cleaner is
    stale,      \* tokens whose rows the cleaner is deleting
    faults,     \* failures so far
    crashes,    \* deaths so far
    loggedOut,  \* history: tokens that were logged out
    excused,    \* history: those whose row the logout did not set out to
                \* delete, and tokens with a failed or interrupted deletion
    evicted,    \* history: tokens evicted unexpired since the start
    forgotten,  \* history: tokens a start did not restore
    saved,      \* history: tokens that had a row
    restored    \* history: how many sessions the last start restored

procVars == <<up, hasDB, crashes, restored, forgotten>>
loginVars == <<stage, remember, expires, saved>>
deleteVars == <<visits, deletes>>
cleanVars == <<cleaner, stale>>
vars == <<now, procVars, loginVars, sessions, rows, deleteVars, cleanVars,
          faults, loggedOut, excused, evicted>>

Expired(t) == now > expires[t]
Fail == faults < MaxFaults /\ faults' = faults + 1

Init ==
    /\ now = 0 /\ up = TRUE /\ hasDB \in BOOLEAN
    /\ stage = [t \in Tokens |-> "unborn"] /\ remember = {}
    /\ expires = [t \in Tokens |-> 0]
    /\ sessions = {} /\ rows = {} /\ visits = {} /\ deletes = {}
    /\ cleaner = "idle" /\ stale = {}
    /\ faults = 0 /\ crashes = 0
    /\ loggedOut = {} /\ excused = {} /\ evicted = {}
    /\ forgotten = {} /\ saved = {} /\ restored = 0

Tick ==
    /\ now < MaxTime /\ now' = now + 1
    /\ UNCHANGED <<procVars, loginVars, sessions, rows, deleteVars, cleanVars,
                   faults, loggedOut, excused, evicted>>

-----------------------------------------------------------------------------
(* evictSessionsLocked: what the map keeps so that one more fits.  It goes *)
(* by the time the request began, which may have been a tick earlier.      *)
Full(S) == Cardinality(S) >= MaxSessions

(* Faulty variant: the map may hold one more.                              *)
Overfull(S) == Cardinality(S) > MaxSessions
AtBound(S) == Full(S)

Evictions(began) ==
    LET fresh == {t \in sessions : began <= expires[t]}
    IN  IF ~AtBound(sessions) THEN {sessions}
        ELSE IF ~AtBound(fresh) THEN {fresh}
        ELSE {fresh \ {v} : v \in {v \in fresh :
                 \A t \in fresh : expires[v] <= expires[t]}}

Insert(t, rem, began) ==
    /\ up /\ stage[t] = "unborn"
    /\ \A s \in Tokens : s < t => stage[s] # "unborn"
    /\ expires' = [expires EXCEPT ![t] = now + (IF rem THEN Remembered ELSE Plain)]
    /\ \E kept \in Evictions(began) :
          /\ sessions' = kept \cup {t}
          /\ evicted' = evicted \cup {v \in sessions \ kept : ~Expired(v)}
    /\ remember' = IF rem THEN remember \cup {t} ELSE remember
    /\ stage' = [stage EXCEPT ![t] = IF rem /\ hasDB THEN "saving" ELSE "answered"]
    /\ UNCHANGED <<now, procVars, saved, rows, deleteVars, cleanVars, faults,
                   loggedOut, excused>>

Answer(t) ==
    /\ up /\ stage[t] = "saving"
    /\ stage' = [stage EXCEPT ![t] = "answered"]
    /\ UNCHANGED <<now, procVars, remember, expires, sessions, deleteVars,
                   cleanVars, loggedOut, excused, evicted>>

SaveSession(t) ==
    /\ Answer(t) /\ rows' = rows \cup {t} /\ saved' = saved \cup {t}
    /\ UNCHANGED faults

SaveFails(t) == Answer(t) /\ Fail /\ UNCHANGED <<rows, saved>>

-----------------------------------------------------------------------------
(* Only a client that has its cookie can log out or visit.                 *)
(* Faulty variants: the row is not deleted; it is deleted unasked.         *)
NoRow(t) == {}
AnyRow(t) == IF hasDB THEN {t} ELSE {}
RowOf(t) == IF t \in remember /\ hasDB THEN {t} ELSE {}

Logout(t) ==
    LET ok == t \in sessions IN
    /\ up /\ stage[t] = "answered"
    /\ sessions' = sessions \ {t}
    /\ deletes' = IF ok THEN deletes \cup RowOf(t) ELSE deletes
    /\ loggedOut' = loggedOut \cup {t}
    /\ excused' = IF ok /\ hasDB THEN excused ELSE excused \cup {t}
    /\ UNCHANGED <<now, procVars, loginVars, rows, visits, cleanVars, faults,
                   evicted>>

(* authMiddleware looks under the read lock ...                            *)
FindExpired(t) ==
    /\ up /\ stage[t] = "answered" /\ t \in sessions \ visits /\ Expired(t)
    /\ visits' = visits \cup {t}
    /\ UNCHANGED <<now, procVars, loginVars, sessions, rows, deletes, cleanVars,
                   faults, loggedOut, excused, evicted>>

(* ... and deletes under the write lock what it has seen before.           *)
DropExpired(t) ==
    /\ t \in visits /\ visits' = visits \ {t}
    /\ sessions' = sessions \ {t}
    /\ deletes' = deletes \cup RowOf(t)
    /\ UNCHANGED <<now, procVars, loginVars, rows, cleanVars, faults, loggedOut,
                   excused, evicted>>

EndDelete(t) ==
    /\ t \in deletes /\ deletes' = deletes \ {t}
    /\ UNCHANGED <<now, procVars, loginVars, sessions, visits, cleanVars,
                   loggedOut, evicted>>

DeleteSession(t) ==
    EndDelete(t) /\ rows' = rows \ {t} /\ UNCHANGED <<faults, excused>>

DeleteFails(t) ==
    EndDelete(t) /\ Fail /\ excused' = excused \cup {t} /\ UNCHANGED rows

-----------------------------------------------------------------------------
(* cleanupStaleOnce, every ten minutes: the map, then the rows.            *)
(* Faulty variant: sessions go a tick early.                               *)
ExpiresSoon(t) == now + 1 >= expires[t]
Outdated(t) == Expired(t)

CleanMap ==
    LET old == {t \in sessions : Outdated(t)} IN
    /\ up /\ cleaner = "idle" /\ cleaner' = "rows"
    /\ sessions' = sessions \ old
    /\ stale' = IF hasDB THEN old \cap remember ELSE {}
    /\ UNCHANGED <<now, procVars, loginVars, rows, deleteVars, faults, loggedOut,
                   excused, evicted>>

CleanerStep ==
    /\ cleaner = "rows"
    /\ UNCHANGED <<now, procVars, loginVars, sessions, deleteVars, loggedOut,
                   excused, evicted>>

CleanRow(t) ==
    /\ CleanerStep /\ t \in stale /\ stale' = stale \ {t}
    /\ \/ rows' = rows \ {t} /\ UNCHANGED faults
       \/ Fail /\ UNCHANGED rows
    /\ UNCHANGED cleaner

(* DeleteExpiredSessions.  Faulty variants: it looks at the map; it is     *)
(* left out.                                                               *)
NotInMap == {t \in rows : t \notin sessions}
NoRows == {}
ExpiredRows == {t \in rows : expires[t] <= now}

Sweep ==
    /\ CleanerStep /\ stale = {} /\ cleaner' = "idle"
    /\ \/ hasDB /\ rows' = rows \ ExpiredRows /\ UNCHANGED faults
       \/ hasDB /\ Fail /\ UNCHANGED rows
       \/ ~hasDB /\ UNCHANGED <<rows, faults>>
    /\ UNCHANGED stale

-----------------------------------------------------------------------------
(* The process dies, or stops; a request in flight is never answered.      *)
Crash ==
    /\ up /\ crashes < MaxCrashes /\ crashes' = crashes + 1
    /\ up' = FALSE /\ hasDB' = FALSE
    /\ sessions' = {} /\ visits' = {} /\ deletes' = {} /\ stale' = {}
    /\ cleaner' = "idle"
    /\ stage' = [t \in Tokens |-> IF stage[t] = "saving" THEN "lost" ELSE stage[t]]
    /\ excused' = excused \cup deletes
    /\ evicted' = {} /\ restored' = 0
    /\ UNCHANGED <<now, remember, expires, saved, rows, faults, loggedOut,
                   forgotten>>

StartWith(loaded, lost) ==
    /\ ~up /\ up' = TRUE
    /\ sessions' = loaded /\ restored' = Cardinality(loaded)
    /\ forgotten' = lost
    /\ UNCHANGED <<now, crashes, loginVars, rows, deleteVars, cleanVars,
                   loggedOut, excused, evicted>>

(* LoadSessions.                                                           *)
Born == {t \in Tokens : stage[t] # "unborn"}
LiveRows == {t \in rows : expires[t] > now}

(* NewDB may fail, and so may the query; the program goes on without.      *)
Start ==
    \/ StartWith(LiveRows, Born \ saved) /\ hasDB' = TRUE /\ UNCHANGED faults
    \/ StartWith({}, Born) /\ hasDB' \in BOOLEAN /\ Fail

Next ==
    \/ Tick
    \/ \E t \in Tokens, rem \in BOOLEAN, began \in {now, now - 1} :
          Insert(t, rem, began)
    \/ \E t \in Tokens :
          \/ SaveSession(t) \/ SaveFails(t)
          \/ Logout(t) \/ FindExpired(t) \/ DropExpired(t)
          \/ DeleteSession(t) \/ DeleteFails(t)
          \/ CleanRow(t)
    \/ CleanMap \/ Sweep
    \/ Crash \/ Start

(* The ticker and systemd (Restart=on-failure), and handlers come to their *)
(* end; nobody has to log in, to log out or to visit.                      *)
Fairness ==
    /\ WF_vars(CleanMap) /\ WF_vars(Sweep) /\ WF_vars(Start)
    /\ \A t \in Tokens : WF_vars(CleanRow(t))

Spec == Init /\ [][Next]_vars
FairSpec == Spec /\ Fairness

-----------------------------------------------------------------------------
TypeOK ==
    /\ now \in Nat /\ {up, hasDB} \subseteq BOOLEAN
    /\ stage \in [Tokens -> {"unborn", "saving", "answered", "lost"}]
    /\ expires \in [Tokens -> Nat]
    /\ remember \subseteq Tokens /\ sessions \subseteq Tokens
    /\ rows \subseteq saved /\ saved \subseteq remember
    /\ visits \subseteq Tokens /\ deletes \subseteq remember
    /\ stale \subseteq remember /\ cleaner \in {"idle", "rows"}
    /\ {faults, crashes, restored} \subseteq Nat
    /\ loggedOut \subseteq Tokens /\ excused \subseteq Tokens
    /\ evicted \subseteq Tokens
    /\ forgotten \subseteq Tokens

(* A logout is final, across restarts too: the session is in the map, or   *)
(* has a row that nobody is deleting, only if the logout did not find it   *)
(* in the map (it had been evicted, or not restored), ran without the      *)
(* database, or its deletion failed or was cut short (logoutHandler).      *)
LogoutFinal ==
    \A t \in loggedOut \ excused :
        t \notin sessions /\ (t \in rows => t \in deletes)

(* "remember marks sessions persisted to disk so they survive restarts":   *)
(* a row stays until its session ends or is logged out, through evictions, *)
(* crashes and the cleaner.                                                *)
RememberedKept ==
    \A t \in saved \ loggedOut : now < expires[t] => t \in rows

(* A client's session is good until it ends, unless it was logged out or   *)
(* evicted since the start, or had no row when the process restarted, or   *)
(* the start could not read the rows (loadPersistentSessions).             *)
CookieGood ==
    \A t \in Tokens \ (loggedOut \cup evicted \cup forgotten) :
        up /\ stage[t] = "answered" /\ now < expires[t] => t \in sessions

(* The map outgrows its bound only as far as a restart has filled it.      *)
MapBounded ==
    Cardinality(sessions) <= MaxSessions \/ Cardinality(sessions) <= restored

(* Rows do not pile up: whatever evictions, failures and crashes leave     *)
(* behind is deleted once it has expired, unless the process runs without  *)
(* the database for ever (cleanupStaleOnce).                               *)
ExpiredRowsGo ==
    []<>hasDB => \A t \in Tokens : (t \in rows /\ expires[t] <= now) ~> t \notin rows
=============================================================================
