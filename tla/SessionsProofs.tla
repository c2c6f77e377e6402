--------------------------- MODULE SessionsProofs ---------------------------
(***************************************************************************)
(* Proofs about the login sessions, for any number of logins, any bound on *)
(* the map and any number of failures and restarts.                        *)
(***************************************************************************)
EXTENDS Sessions, FiniteSetTheorems, TLAPS

(* Who is where: only what was inserted is anywhere, only what has expired *)
(* or was logged out is deleted, and a dead process holds nothing.         *)
PlaceInv ==
    /\ \A t \in sessions \cup saved \cup visits \cup deletes \cup stale :
          stage[t] # "unborn"
    /\ \A t \in loggedOut : stage[t] = "answered"
    /\ \A t \in Tokens : stage[t] = "saving" => t \in remember
    /\ \A t \in visits \cup stale : Expired(t)
    /\ \A t \in deletes : Expired(t) \/ t \in loggedOut
    /\ ~up => /\ sessions = {} /\ visits = {} /\ deletes = {} /\ stale = {}
              /\ cleaner = "idle"
              /\ \A t \in Tokens : stage[t] # "saving"

(* CookieGood holds of a session from its insertion, before the answer.    *)
CookieInv ==
    \A t \in Tokens \ (loggedOut \cup evicted \cup forgotten) :
        /\ up /\ stage[t] \in {"saving", "answered"} /\ now < expires[t]
        => t \in sessions

SessionInv ==
    TypeOK /\ PlaceInv /\ LogoutFinal /\ RememberedKept /\ CookieInv

LEMMA SessionInit == Init => SessionInv
  BY SessionAssumption
     DEF Init, SessionInv, TypeOK, PlaceInv, LogoutFinal, RememberedKept, CookieInv

-----------------------------------------------------------------------------
LEMMA TickInv == SessionInv /\ Tick => SessionInv'
  BY DEF Tick, SessionInv, TypeOK, PlaceInv, LogoutFinal, RememberedKept,
         CookieInv, Expired, procVars, loginVars, deleteVars, cleanVars

LEMMA InsertInv ==
    ASSUME SessionInv, NEW t \in Tokens, NEW rem \in BOOLEAN,
           NEW began \in {now, now - 1}, Insert(t, rem, began)
    PROVE  SessionInv'
<1> USE DEF SessionInv
<1>1. PICK kept \in Evictions(began) :
         /\ sessions' = kept \cup {t}
         /\ evicted' = evicted \cup {v \in sessions \ kept : ~Expired(v)}
  BY DEF Insert
<1>2. kept \subseteq sessions
  BY DEF Evictions
<1>3. /\ stage[t] = "unborn" /\ up
      /\ stage' = [stage EXCEPT ![t] = IF rem /\ hasDB THEN "saving" ELSE "answered"]
      /\ expires' = [expires EXCEPT ![t] = now + (IF rem THEN Remembered ELSE Plain)]
      /\ remember \subseteq remember' /\ remember' \subseteq remember \cup {t}
      /\ rem => t \in remember'
      /\ UNCHANGED <<now, up, hasDB, crashes, restored, forgotten, saved, rows,
                     visits, deletes, cleaner, stale, faults, loggedOut, excused>>
  BY DEF Insert, procVars, deleteVars, cleanVars
<1>4. expires' \in [Tokens -> Nat]
  BY <1>3, SessionAssumption DEF TypeOK
<1>5. \A s \in Tokens \ {t} : stage'[s] = stage[s] /\ expires'[s] = expires[s]
  BY <1>3 DEF TypeOK
<1>6. TypeOK'
  BY <1>1, <1>2, <1>3, <1>4 DEF TypeOK
<1>7. t \notin saved \cup visits \cup deletes \cup stale \cup loggedOut
  BY <1>3 DEF PlaceInv
<1>8. PlaceInv'
  BY <1>1, <1>2, <1>3, <1>5, <1>7 DEF TypeOK, PlaceInv, Expired
<1>9. LogoutFinal' /\ RememberedKept'
  BY <1>1, <1>2, <1>3, <1>5, <1>7 DEF TypeOK, LogoutFinal, RememberedKept
<1>10. CookieInv'
  BY <1>1, <1>2, <1>3, <1>5 DEF TypeOK, CookieInv, Expired
<1> QED
  BY <1>6, <1>8, <1>9, <1>10

LEMMA AnswerInv ==
    ASSUME SessionInv, NEW t \in Tokens, SaveSession(t) \/ SaveFails(t)
    PROVE  SessionInv'
<1> USE DEF SessionInv, SaveSession, SaveFails, Answer, Fail
<1>1. TypeOK'
  <2>1. t \in remember
    BY DEF PlaceInv
  <2>2. stage' \in [Tokens -> {"unborn", "saving", "answered", "lost"}]
    BY DEF TypeOK
  <2>3. saved' \subseteq remember' /\ rows' \subseteq saved' /\ faults' \in Nat
    BY <2>1 DEF TypeOK
  <2> QED
    BY <2>2, <2>3 DEF TypeOK, procVars, deleteVars, cleanVars
<1>2. PlaceInv'
  BY DEF TypeOK, PlaceInv, Expired, procVars, deleteVars, cleanVars
<1>3. LogoutFinal' /\ RememberedKept'
  BY DEF TypeOK, PlaceInv, LogoutFinal, RememberedKept, procVars, deleteVars
<1>4. CookieInv'
  BY DEF TypeOK, CookieInv, procVars
<1> QED
  BY <1>1, <1>2, <1>3, <1>4

LEMMA RequestInv ==
    ASSUME SessionInv, NEW t \in Tokens,
           \/ Logout(t) \/ FindExpired(t) \/ DropExpired(t)
           \/ DeleteSession(t) \/ DeleteFails(t)
    PROVE  SessionInv'
<1> USE DEF SessionInv, procVars, loginVars, deleteVars, cleanVars, Expired
<1>1. CASE Logout(t)
  <2> USE <1>1 DEF Logout, RowOf
  <2>1. TypeOK' /\ PlaceInv'
    BY DEF TypeOK, PlaceInv
  <2>2. LogoutFinal'
    BY DEF TypeOK, PlaceInv, LogoutFinal
  <2>3. RememberedKept' /\ CookieInv'
    BY DEF TypeOK, RememberedKept, CookieInv
  <2> QED
    BY <2>1, <2>2, <2>3
<1>2. CASE FindExpired(t)
  BY <1>2 DEF FindExpired, TypeOK, PlaceInv, LogoutFinal, RememberedKept, CookieInv
<1>3. CASE DropExpired(t)
  <2> USE <1>3 DEF DropExpired, RowOf
  <2>1. TypeOK' /\ PlaceInv'
    BY DEF TypeOK, PlaceInv
  <2>2. LogoutFinal' /\ RememberedKept' /\ CookieInv'
    BY DEF TypeOK, PlaceInv, LogoutFinal, RememberedKept, CookieInv
  <2> QED
    BY <2>1, <2>2
<1>4. CASE DeleteSession(t) \/ DeleteFails(t)
  <2> USE <1>4 DEF DeleteSession, DeleteFails, EndDelete, Fail
  <2>1. TypeOK' /\ PlaceInv'
    BY DEF TypeOK, PlaceInv
  <2>2. LogoutFinal' /\ RememberedKept' /\ CookieInv'
    BY DEF TypeOK, PlaceInv, LogoutFinal, RememberedKept, CookieInv
  <2> QED
    BY <2>1, <2>2
<1> QED
  BY <1>1, <1>2, <1>3, <1>4

LEMMA CleanerInv ==
    ASSUME SessionInv, CleanMap \/ Sweep \/ \E t \in Tokens : CleanRow(t)
    PROVE  SessionInv'
<1> USE DEF SessionInv, procVars, loginVars, deleteVars, cleanVars, Expired
<1>1. CASE CleanMap
  <2> USE <1>1 DEF CleanMap, Outdated
  <2>1. TypeOK' /\ PlaceInv'
    BY DEF TypeOK, PlaceInv
  <2>2. LogoutFinal' /\ RememberedKept' /\ CookieInv'
    BY DEF TypeOK, PlaceInv, LogoutFinal, RememberedKept, CookieInv
  <2> QED
    BY <2>1, <2>2
<1>2. CASE Sweep
  <2> USE <1>2 DEF Sweep, CleanerStep, ExpiredRows, Fail
  <2>1. TypeOK' /\ PlaceInv'
    BY DEF TypeOK, PlaceInv
  <2>2. LogoutFinal' /\ RememberedKept' /\ CookieInv'
    BY DEF TypeOK, PlaceInv, LogoutFinal, RememberedKept, CookieInv
  <2> QED
    BY <2>1, <2>2
<1>3. ASSUME NEW t \in Tokens, CleanRow(t) PROVE SessionInv'
  <2> USE <1>3 DEF CleanRow, CleanerStep, Fail
  <2>1. TypeOK' /\ PlaceInv'
    BY DEF TypeOK, PlaceInv
  <2>2. LogoutFinal' /\ RememberedKept' /\ CookieInv'
    BY DEF TypeOK, PlaceInv, LogoutFinal, RememberedKept, CookieInv
  <2> QED
    BY <2>1, <2>2
<1> QED
  BY <1>1, <1>2, <1>3

LEMMA CrashInv == SessionInv /\ Crash => SessionInv'
<1> SUFFICES ASSUME SessionInv, Crash PROVE SessionInv'
  OBVIOUS
<1> USE DEF SessionInv, Crash, Expired
<1>1. TypeOK'
  <2>1. stage' \in [Tokens -> {"unborn", "saving", "answered", "lost"}]
    BY DEF TypeOK
  <2>2. crashes' \in Nat /\ restored' \in Nat
    BY DEF TypeOK
  <2>3. up' \in BOOLEAN /\ hasDB' \in BOOLEAN
    OBVIOUS
  <2>4. excused' \subseteq Tokens
    BY DEF TypeOK
  <2> QED
    BY <2>1, <2>2, <2>3, <2>4 DEF TypeOK
<1>2. PlaceInv'
  BY DEF TypeOK, PlaceInv
<1>3. LogoutFinal' /\ RememberedKept' /\ CookieInv'
  BY DEF TypeOK, PlaceInv, LogoutFinal, RememberedKept, CookieInv
<1> QED
  BY <1>1, <1>2, <1>3

LEMMA StartInv == SessionInv /\ Start => SessionInv'
<1> SUFFICES ASSUME SessionInv, Start PROVE SessionInv'
  OBVIOUS
<1> USE DEF SessionInv, Start, StartWith, LiveRows, Born, Fail, loginVars,
            deleteVars, cleanVars, Expired
<1>1. Cardinality(LiveRows) \in Nat /\ Cardinality({}) \in Nat
  <2>1. IsFiniteSet(LiveRows)
    BY SessionAssumption, FS_Subset DEF TypeOK
  <2> QED
    BY <2>1, FS_CardinalityType, FS_EmptySet
<1>2. TypeOK'
  <2>1. restored' \in Nat /\ faults' \in Nat
    BY <1>1 DEF TypeOK
  <2>2. sessions' \subseteq Tokens /\ forgotten' \subseteq Tokens
    BY DEF TypeOK
  <2>3. up' \in BOOLEAN /\ hasDB' \in BOOLEAN
    OBVIOUS
  <2> QED
    BY <2>1, <2>2, <2>3 DEF TypeOK
<1>3. PlaceInv'
  BY DEF TypeOK, PlaceInv
<1>4. LogoutFinal'
  BY DEF TypeOK, PlaceInv, LogoutFinal
<1>5. RememberedKept' /\ CookieInv'
  BY DEF TypeOK, PlaceInv, RememberedKept, CookieInv
<1> QED
  BY <1>2, <1>3, <1>4, <1>5

LEMMA SessionStep == SessionInv /\ [Next]_vars => SessionInv'
<1> SUFFICES ASSUME SessionInv, [Next]_vars PROVE SessionInv'
  OBVIOUS
<1>1. CASE UNCHANGED vars
  BY <1>1 DEF vars, SessionInv, TypeOK, PlaceInv, LogoutFinal, RememberedKept,
              CookieInv, Expired, procVars, loginVars, deleteVars, cleanVars
<1>2. CASE Next
  BY <1>2, TickInv, InsertInv, AnswerInv, RequestInv, CleanerInv, CrashInv,
     StartInv DEF Next
<1> QED
  BY <1>1, <1>2

THEOREM SessionInvariant == Spec => []SessionInv
  BY SessionInit, SessionStep, PTL DEF Spec

(* Every variable keeps its type: only "remember me" sessions have rows.   *)
THEOREM SessionTypes == Spec => []TypeOK
  BY SessionInvariant, PTL DEF SessionInv

(* A logout is final across restarts, but for the excuses it names.        *)
THEOREM LogoutFinalHolds == Spec => []LogoutFinal
  BY SessionInvariant, PTL DEF SessionInv

(* Remembered sessions survive evictions, crashes and the cleaner.         *)
THEOREM RememberedKeptHolds == Spec => []RememberedKept
  BY SessionInvariant, PTL DEF SessionInv

(* A cookie is good until its session ends.                                *)
THEOREM CookieGoodHolds == Spec => []CookieGood
<1>1. CookieInv => CookieGood
  BY DEF CookieInv, CookieGood
<1> QED
  BY <1>1, SessionInvariant, PTL DEF SessionInv
-----------------------------------------------------------------------------
(* An insertion makes room: it stays within the bound, or does not grow a  *)
(* map that a restart has filled beyond it.                                *)
LEMMA InsertBound ==
    ASSUME TypeOK, NEW t \in Tokens, NEW rem \in BOOLEAN,
           NEW began \in {now, now - 1}, Insert(t, rem, began)
    PROVE  \/ Cardinality(sessions') <= MaxSessions
           \/ Cardinality(sessions') <= Cardinality(sessions)
<1> DEFINE fresh == {s \in sessions : began <= expires[s]}
<1>1. PICK kept \in Evictions(began) : sessions' = kept \cup {t}
  BY DEF Insert
<1>2. IsFiniteSet(sessions) /\ Cardinality(sessions) \in Nat
  BY SessionAssumption, FS_Subset, FS_CardinalityType DEF TypeOK
<1>3. /\ IsFiniteSet(fresh) /\ Cardinality(fresh) \in Nat
      /\ Cardinality(fresh) <= Cardinality(sessions)
  BY <1>2, FS_Subset, FS_CardinalityType
<1>4. ASSUME NEW S, IsFiniteSet(S)
      PROVE  /\ Cardinality(S) \in Nat /\ Cardinality(S \cup {t}) \in Nat
             /\ Cardinality(S \cup {t}) <= Cardinality(S) + 1
  <2>1. Cardinality(S) \in Nat
    BY <1>4, FS_CardinalityType
  <2>2. Cardinality(S \cup {t}) =
           IF t \in S THEN Cardinality(S) ELSE Cardinality(S) + 1
    BY <1>4, FS_AddElement
  <2> QED
    BY <2>1, <2>2
<1>5. CASE kept \in {sessions, fresh} /\ ~Full(kept)
  <2>1. IsFiniteSet(kept)
    BY <1>2, <1>3, <1>5
  <2>2. /\ Cardinality(kept) \in Nat /\ Cardinality(kept \cup {t}) \in Nat
        /\ Cardinality(kept \cup {t}) <= Cardinality(kept) + 1
    BY <2>1, <1>4
  <2>3. Cardinality(kept) < MaxSessions
    BY <1>5, <2>2, SessionAssumption DEF Full
  <2> QED
    BY <1>1, <2>2, <2>3, SessionAssumption
<1>6. ASSUME NEW v \in fresh, kept = fresh \ {v}
      PROVE  Cardinality(sessions') <= Cardinality(sessions)
  <2>1. IsFiniteSet(kept) /\ Cardinality(kept) = Cardinality(fresh) - 1
    BY <1>3, <1>6, FS_RemoveElement
  <2> QED
    BY <1>1, <1>2, <1>3, <1>4, <2>1
<1>7. \/ kept \in {sessions, fresh} /\ ~Full(kept)
      \/ \E v \in fresh : kept = fresh \ {v}
  BY <1>1 DEF Evictions, AtBound
<1> QED
  BY <1>5, <1>6, <1>7

(* Every other action but a start leaves the map or takes from it.         *)
LEMMA MapStep == TypeOK /\ TypeOK' /\ MapBounded /\ [Next]_vars => MapBounded'
<1> SUFFICES ASSUME TypeOK, TypeOK', MapBounded, [Next]_vars PROVE MapBounded'
  OBVIOUS
<1>1. IsFiniteSet(sessions) /\ IsFiniteSet(sessions')
  BY SessionAssumption, FS_Subset DEF TypeOK
<1>2. /\ Cardinality(sessions) \in Nat /\ Cardinality(sessions') \in Nat
      /\ restored \in Nat /\ MaxSessions \in Nat
  BY <1>1, FS_CardinalityType, SessionAssumption DEF TypeOK
<1>3. CASE sessions' \subseteq sessions /\ restored' = restored
  <2>1. Cardinality(sessions') <= Cardinality(sessions)
    BY <1>1, <1>3, FS_Subset
  <2> QED
    BY <1>2, <1>3, <2>1 DEF MapBounded
<1>4. CASE Crash
  <2>1. Cardinality(sessions') = 0
    BY <1>4, FS_EmptySet DEF Crash
  <2> QED
    BY <1>2, <2>1 DEF MapBounded
<1>5. CASE Start
  <2>1. restored' = Cardinality(sessions')
    BY <1>5 DEF Start, StartWith
  <2> QED
    BY <1>2, <2>1 DEF MapBounded
<1>6. ASSUME NEW t \in Tokens, NEW rem \in BOOLEAN,
             NEW began \in {now, now - 1}, Insert(t, rem, began)
      PROVE  MapBounded'
  <2>1. restored' = restored
    BY <1>6 DEF Insert, procVars
  <2> QED
    BY <1>2, <1>6, <2>1, InsertBound DEF MapBounded
<1>7. \/ sessions' \subseteq sessions /\ restored' = restored
      \/ Crash \/ Start
      \/ \E t \in Tokens, rem \in BOOLEAN, began \in {now, now - 1} :
            Insert(t, rem, began)
  <2> USE DEF procVars
  <2>1. CASE UNCHANGED vars \/ Tick \/ CleanMap \/ Sweep
    BY <2>1 DEF vars, Tick, CleanMap, Sweep, CleanerStep
  <2>2. ASSUME NEW t \in Tokens,
               \/ SaveSession(t) \/ SaveFails(t) \/ Logout(t)
               \/ FindExpired(t) \/ DropExpired(t)
               \/ DeleteSession(t) \/ DeleteFails(t) \/ CleanRow(t)
        PROVE  sessions' \subseteq sessions /\ restored' = restored
    BY <2>2 DEF SaveSession, SaveFails, Answer, Logout, FindExpired, DropExpired,
                DeleteSession, DeleteFails, EndDelete, CleanRow, CleanerStep
  <2> QED
    BY <2>1, <2>2 DEF Next
<1> QED
  BY <1>3, <1>4, <1>5, <1>6, <1>7

(* However many log in at once, the map keeps its bound or what a restart  *)
(* restored (evictSessionsLocked).                                         *)
THEOREM MapBoundedHolds == Spec => []MapBounded
<1>1. Init => MapBounded
  BY FS_EmptySet, SessionAssumption DEF Init, MapBounded
<1> QED
  BY <1>1, MapStep, SessionTypes, PTL DEF Spec
=============================================================================
