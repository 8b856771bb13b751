----------------------- MODULE ParkingSessions_proofs -----------------------
(***************************************************************************)
(* Proofs about ParkingSessions for any number of workers, sessions,       *)
(* vehicles and keys.                                                      *)
(***************************************************************************)
EXTENDS ParkingSessions, FiniteSetTheorems, TLAPS

\* The number of PARKED sessions, which reconciliation reads, is a number.
LEMMA ParkedCount == Cardinality(Parked) \in Nat
<1>1. Parked \subseteq SessionIds
  BY DEF Parked, Rows
<1>2. IsFiniteSet(Parked)
  BY <1>1, FS_Subset, ConstantsAssumption
<1> QED
  BY <1>2, FS_CardinalityType

\* The limit that the settings give a customer class is a number.
LEMMA LimitType ==
  ASSUME settings \in Settings, NEW c
  PROVE  Limit(c) \in Nat
BY DEF Limit, Settings

\* A flush of loaded columns produces a row and keeps the session's request.
LEMMA WriteBackType ==
  ASSUME TypeOK, NEW r \in Slots, sid[r] \in SessionIds
  PROVE  WriteBack(r) \in [SessionIds -> Row]
<1>1. rows[sid[r]] \in Row /\ seen[r] \in Row /\ want[r] \in Row
  BY DEF TypeOK
<1>2. rows \in [SessionIds -> Row]
  BY DEF TypeOK
<1>3. WriteBack(r)[sid[r]] \in Row
  BY <1>1, <1>2 DEF WriteBack, Written, Row
<1>4. \A s \in SessionIds \ {sid[r]} : WriteBack(r)[s] = rows[s]
  BY <1>2 DEF WriteBack
<1>5. WriteBack(r) = [s \in SessionIds |-> WriteBack(r)[s]]
  BY <1>2 DEF WriteBack
<1> QED
  BY <1>2, <1>3, <1>4, <1>5

\* The released locks are free or belong to another slot.
LEMMA ReleaseType ==
  ASSUME TypeOK, NEW r \in Slots, Release(r)
  PROVE  /\ ctrLock' \in Slots \cup {NoSlot} /\ lotLock' \in Slots \cup {NoSlot}
         /\ ctrLock' # r /\ lotLock' # r
         /\ ctrLock' # NoSlot => ctrLock' = ctrLock
         /\ lotLock' # NoSlot => lotLock' = lotLock
BY ConstantsAssumption DEF Release, TypeOK

\* A request that ends leaves well-typed local state behind.
LEMMA FinishType ==
  ASSUME TypeOK, NEW r \in Slots, NEW code \in Codes, Finish(r, code)
  PROVE  /\ ctrLock' \in Slots \cup {NoSlot} /\ lotLock' \in Slots \cup {NoSlot}
         /\ pc' \in [Slots -> Places]
         /\ req' \in [Slots -> Request \cup {NoRequest}]
         /\ sid' \in [Slots -> SessionIds \cup {NoSession}]
         /\ seen' \in [Slots -> Row] /\ want' \in [Slots -> Row]
         /\ num' \in [Slots -> Nat]
         /\ answer' \in [Slots -> Codes]
<1>1. NoRow \in Row
  BY DEF NoRow, Row, Status
<1>2. ctrLock' \in Slots \cup {NoSlot} /\ lotLock' \in Slots \cup {NoSlot}
  BY ReleaseType DEF Finish
<1> QED
  BY <1>1, <1>2 DEF Finish, Forget, TypeOK, Places

-----------------------------------------------------------------------------
(* The inductive invariant RequestsAgreeWithTables, one lemma per kind of   *)
(* step.                                                                   *)

\* Lock holders are distinguishable from the free lock, ids from their absence.
LEMMA Tokens ==
  /\ \A r \in Slots : r # NoSlot
  /\ \A s \in SessionIds : s # NoSession
  /\ \A e \in Request : e # NoRequest
BY ConstantsAssumption

\* A request that ends leaves the other requests' view of the tables right, if
\* the sessions they work on keep their request and the uncommitted inserts
\* still clash with nothing.
LEMMA EndKeepsOthers ==
  ASSUME RequestsAgreeWithTables, NEW r \in Slots, NEW code \in Codes,
         Finish(r, code), UNCHANGED settings,
         \A s \in Rows : s \in Rows' /\ rows'[s].req = rows[s].req,
         \A q \in Inserting \ {r} :
           /\ rows'[sid[q]].status = "NONE"
           /\ \A s \in Rows' : rows'[s].req.key # req[q].key
           /\ \A s \in Inside' : rows'[s].req.veh # req[q].veh
  PROVE  /\ LocksBelongToRequests'
         /\ InsertsAreSerialized'
         /\ ExitsKnowTheirSession'
<1> USE DEF RequestsAgreeWithTables
<1>1. /\ pc[r]' = "idle"
      /\ \A q \in Slots \ {r} :
           pc[q]' = pc[q] /\ req[q]' = req[q] /\ sid[q]' = sid[q]
             /\ seen[q]' = seen[q] /\ want[q]' = want[q] /\ num[q]' = num[q]
  BY DEF Finish, Forget, TypeOK
<1>2. LocksBelongToRequests'
  BY <1>1, ReleaseType, Tokens DEF LocksBelongToRequests, Finish, TypeOK
<1>3. InsertsAreSerialized'
  <2>1. \A q \in Slots : pc[q]' \in {"ci_insert", "ci_count", "ci_commit"} => lotLock' = q
    BY <1>1, Tokens DEF InsertsAreSerialized, InsertIsSerialized, Finish, Release, TypeOK
  <2>2. \A c : Limit(c)' = Limit(c)
    BY DEF Limit
  <2>3. ASSUME NEW q \in Slots, pc'[q] \in {"ci_count", "ci_commit"}
        PROVE  /\ sid'[q] \in SessionIds /\ rows'[sid'[q]].status = "NONE"
               /\ ActiveOf(req[q].veh)' = {} /\ ByKey(req[q].key)' = {}
               /\ pc'[q] = "ci_commit" => num'[q] = Limit(req[q].cls)'
    <3>1. q # r /\ q \in Inserting
      BY <1>1, <2>3 DEF Inserting
    <3>2. pc'[q] = pc[q] /\ req'[q] = req[q] /\ sid'[q] = sid[q] /\ num'[q] = num[q]
      BY <1>1, <2>3, <3>1
    <3>3. /\ ActiveOf(req[q].veh)' = {} /\ ByKey(req[q].key)' = {}
          /\ rows'[sid[q]].status = "NONE"
      BY <3>1, <3>2 DEF ActiveOf, ByKey, Inside
    <3> QED
      BY <2>2, <2>3, <3>2, <3>3 DEF InsertsAreSerialized, InsertIsSerialized
  <2> QED
    BY <2>1, <2>3 DEF InsertsAreSerialized, InsertIsSerialized
<1>4. ExitsKnowTheirSession'
  BY <1>1 DEF ExitsKnowTheirSession, ExitKnowsItsSession, EntryPlaces, ExitPlaces
<1> QED
  BY <1>2, <1>3, <1>4

\* The facts about the tables alone hold while the tables stay the same.
LEMMA SameTables ==
  ASSUME RequestsAgreeWithTables, UNCHANGED <<rows, answered>>
  PROVE  SessionsHaveTheirKey' /\ OneOpenSessionPerVehicle'
BY DEF RequestsAgreeWithTables, SessionsHaveTheirKey, OneOpenSessionPerVehicle,
       Rows, Inside, ByKey

\* An error answer keeps the invariant.
LEMMA FailKeeps ==
  ASSUME RequestsAgreeWithTables, NEW r \in Slots, NEW code \in Codes, Fail(r, code)
  PROVE  RequestsAgreeWithTables'
<1>1. UNCHANGED <<rows, occupied, ledger, paid, out, settings, answered>> /\ Finish(r, code)
  BY DEF Fail, table
<1>2. TypeOK'
  BY <1>1, FinishType DEF RequestsAgreeWithTables, TypeOK
<1>3. \A s \in Rows : s \in Rows' /\ rows'[s].req = rows[s].req
  BY <1>1 DEF Rows
<1>4. \A q \in Inserting : /\ rows'[sid[q]].status = "NONE"
                           /\ \A s \in Rows' : rows'[s].req.key # req[q].key
                           /\ \A s \in Inside' : rows'[s].req.veh # req[q].veh
  BY <1>1 DEF RequestsAgreeWithTables, InsertsAreSerialized, InsertIsSerialized,
                    Inserting, Rows, Inside, ActiveOf, ByKey
<1> QED
  BY <1>1, <1>2, <1>3, <1>4, EndKeepsOthers, SameTables DEF RequestsAgreeWithTables

\* The rows of a replayed key are known sessions, so a replay keeps the invariant.
LEMMA ReplayKeeps ==
  ASSUME RequestsAgreeWithTables, NEW r \in Slots, NEW e \in Request,
         NEW s \in ByKey(e.key), Replay(r, e, s)
  PROVE  RequestsAgreeWithTables'
<1>1. /\ UNCHANGED <<rows, occupied, ledger, paid, out, settings>>
      /\ Finish(r, "REPLAYED") \/ Finish(r, "IDEMPOTENCY_KEY_REUSED")
      /\ \/ answered' = answered
         \/ answered' = [answered EXCEPT ![e.key] = @ \cup {s}]
  BY DEF Replay, table
<1>2. PICK code \in Codes : Finish(r, code)
  BY <1>1 DEF Codes
<1>3. s \in SessionIds /\ e.key \in Keys
  BY DEF ByKey, Rows, Request
<1>4. TypeOK'
  BY <1>1, <1>2, <1>3, FinishType DEF RequestsAgreeWithTables, TypeOK
<1>5. \A t \in Rows : t \in Rows' /\ rows'[t].req = rows[t].req
  BY <1>1 DEF Rows
<1>6. \A q \in Inserting : /\ rows'[sid[q]].status = "NONE"
                           /\ \A t \in Rows' : rows'[t].req.key # req[q].key
                           /\ \A t \in Inside' : rows'[t].req.veh # req[q].veh
  BY <1>1 DEF RequestsAgreeWithTables, InsertsAreSerialized, InsertIsSerialized,
                    Inserting, Rows, Inside, ActiveOf, ByKey
<1>7. SessionsHaveTheirKey' /\ OneOpenSessionPerVehicle'
  BY <1>1, <1>3 DEF RequestsAgreeWithTables, SessionsHaveTheirKey, TypeOK,
                    OneOpenSessionPerVehicle, Rows, Inside, ByKey
<1> QED
  BY <1>1, <1>2, <1>4, <1>5, <1>6, <1>7, EndKeepsOthers DEF RequestsAgreeWithTables

\* A request that moves on with the tables as they are keeps the invariant if
\* the invariant is true of the request itself at its new place.
LEMMA MoveKeeps ==
  ASSUME RequestsAgreeWithTables, TypeOK', NEW r \in Slots, NEW place, Goto(r, place),
         UNCHANGED <<rows, settings, answered>>,
         \A q \in Slots \ {r} : /\ req'[q] = req[q] /\ sid'[q] = sid[q]
                               /\ seen'[q] = seen[q] /\ want'[q] = want[q]
                               /\ num'[q] = num[q],
         ctrLock' \in {ctrLock, NoSlot, r},
         lotLock' = lotLock \/ {lotLock, lotLock'} \subseteq {r, NoSlot},
         ctrLock' = r => place \in {"ci_dup", "ci_ready", "ci_insert", "ci_count",
                                    "ci_commit", "em_flush"},
         lotLock' = r => place \in {"ci_insert", "ci_count", "ci_commit"},
         InsertIsSerialized(r)', ExitKnowsItsSession(r)'
  PROVE  RequestsAgreeWithTables'
<1> USE DEF RequestsAgreeWithTables
<1>1. pc'[r] = place /\ \A q \in Slots \ {r} : pc'[q] = pc[q]
  BY DEF Goto, TypeOK
<1>2. LocksBelongToRequests'
  BY <1>1, Tokens DEF LocksBelongToRequests, TypeOK
<1>3. ASSUME NEW q \in Slots \ {r}
      PROVE  InsertIsSerialized(q)' /\ ExitKnowsItsSession(q)'
  <2>1. \A v, k, c : v = req[q].veh /\ k = req[q].key /\ c = req[q].cls =>
          /\ ActiveOf(req[q].veh)' = ActiveOf(v) /\ ByKey(req[q].key)' = ByKey(k)
          /\ Limit(req[q].cls)' = Limit(c)
    BY <1>3 DEF ActiveOf, ByKey, Rows, Limit
  <2>2. InsertIsSerialized(q) /\ ExitKnowsItsSession(q)
    BY <1>3 DEF InsertsAreSerialized, ExitsKnowTheirSession
  <2>3. InsertIsSerialized(q)'
    BY <1>1, <1>3, <2>1, <2>2, Tokens DEF InsertIsSerialized
  <2>4. ExitKnowsItsSession(q)'
    BY <1>1, <1>3, <2>2 DEF ExitKnowsItsSession, Rows
  <2> QED
    BY <2>3, <2>4
<1> QED
  BY <1>2, <1>3, SameTables DEF InsertsAreSerialized, ExitsKnowTheirSession
-----------------------------------------------------------------------------
(* The actions.                                                            *)

\* The arrival of a check-in keeps the invariant: a known key is answered with
\* its session, any other request starts with nothing locked.
LEMMA CheckInKeeps ==
  ASSUME RequestsAgreeWithTables, NEW r \in Slots, NEW e \in CheckInRequests, CheckIn(r, e)
  PROVE  RequestsAgreeWithTables'
<1>1. e \in Request
  BY ConstantsAssumption
<1>2. CASE \E s \in ByKey(e.key) : Replay(r, e, s)
  BY <1>1, <1>2, ReplayKeeps
<1>3. CASE /\ Goto(r, "ci_access")
           /\ pc[r] = "idle"
           /\ req' = [req EXCEPT ![r] = e]
           /\ UNCHANGED <<table, settings, locks, sid, seen, want, num, answer, answered>>
  <2>1. TypeOK'
    BY <1>1, <1>3 DEF RequestsAgreeWithTables, TypeOK, table, locks, Goto, Places
  <2>2. ctrLock # r /\ lotLock # r
    BY <1>3, Tokens DEF RequestsAgreeWithTables, LocksBelongToRequests
  <2>3. pc'[r] = "ci_access" /\ req'[r] = e
    BY <1>3 DEF RequestsAgreeWithTables, TypeOK, Goto
  <2>4. InsertIsSerialized(r)' /\ ExitKnowsItsSession(r)'
    BY <1>1, <2>3 DEF InsertIsSerialized, ExitKnowsItsSession, ExitPlaces
  <2> QED
    BY <1>3, <2>1, <2>2, <2>4, MoveKeeps DEF RequestsAgreeWithTables, TypeOK, table, locks
<1> QED
  BY <1>2, <1>3 DEF CheckIn

\* The capacity pre-check keeps the invariant: it locks the counter or ends.
LEMMA AccessControlKeeps ==
  ASSUME RequestsAgreeWithTables, NEW r \in Slots, AccessControl(r)
  PROVE  RequestsAgreeWithTables'
<1>1. CASE Fail(r, "CAPACITY_FULL")
  BY <1>1, FailKeeps DEF Codes
<1>2. CASE /\ pc[r] = "ci_access" /\ Goto(r, "ci_dup")
           /\ ctrLock' \in {ctrLock, r}
           /\ UNCHANGED <<table, settings, lotLock, local, answer, answered>>
  <2>1. TypeOK'
    BY <1>2 DEF RequestsAgreeWithTables, TypeOK, table, local, Goto, Places
  <2>2. lotLock # r
    BY <1>2, Tokens DEF RequestsAgreeWithTables, LocksBelongToRequests
  <2>3. pc'[r] = "ci_dup" /\ req[r] \in Request
    BY <1>2 DEF RequestsAgreeWithTables, TypeOK, Goto, ExitsKnowTheirSession,
                ExitKnowsItsSession, EntryPlaces
  <2>4. InsertIsSerialized(r)' /\ ExitKnowsItsSession(r)'
    BY <1>2, <2>3 DEF InsertIsSerialized, ExitKnowsItsSession, ExitPlaces, local
  <2> QED
    BY <1>2, <2>1, <2>2, <2>4, MoveKeeps DEF table, local
<1> QED
  BY <1>1, <1>2 DEF AccessControl, locks

\* The lookup of an open session keeps the invariant: it only moves or ends.
LEMMA DuplicateCheckKeeps ==
  ASSUME RequestsAgreeWithTables, NEW r \in Slots, DuplicateCheck(r)
  PROVE  RequestsAgreeWithTables'
<1>1. CASE Fail(r, DuplicateCode(req[r].veh))
  BY <1>1, FailKeeps DEF Codes, DuplicateCode
<1>2. CASE /\ pc[r] = "ci_dup" /\ Goto(r, "ci_ready")
           /\ UNCHANGED <<table, settings, locks, local, answer, answered>>
  <2>1. TypeOK'
    BY <1>2 DEF RequestsAgreeWithTables, TypeOK, table, local, locks, Goto, Places
  <2>2. lotLock # r
    BY <1>2, Tokens DEF RequestsAgreeWithTables, LocksBelongToRequests
  <2>3. pc'[r] = "ci_ready" /\ req[r] \in Request
    BY <1>2 DEF RequestsAgreeWithTables, TypeOK, Goto, ExitsKnowTheirSession,
                ExitKnowsItsSession, EntryPlaces
  <2>4. InsertIsSerialized(r)' /\ ExitKnowsItsSession(r)'
    BY <1>2, <2>3 DEF InsertIsSerialized, ExitKnowsItsSession, ExitPlaces, local
  <2> QED
    BY <1>2, <2>1, <2>2, <2>4, MoveKeeps DEF table, local, locks
<1> QED
  BY <1>1, <1>2 DEF DuplicateCheck

\* The lot's lock is taken only when it is free: the entry is serialized from here on.
LEMMA RequireReadyKeeps ==
  ASSUME RequestsAgreeWithTables, NEW r \in Slots, RequireReady(r)
  PROVE  RequestsAgreeWithTables'
<1> USE DEF RequireReady
<1>1. TypeOK'
  BY DEF RequestsAgreeWithTables, TypeOK, table, local, Goto, Places
<1>2. pc'[r] = "ci_insert" /\ req[r] \in Request
  BY DEF RequestsAgreeWithTables, TypeOK, Goto, ExitsKnowTheirSession,
         ExitKnowsItsSession, EntryPlaces
<1>3. InsertIsSerialized(r)' /\ ExitKnowsItsSession(r)'
  BY <1>2 DEF InsertIsSerialized, ExitKnowsItsSession, ExitPlaces, local
<1> QED
  BY <1>1, <1>3, MoveKeeps DEF table, local

\* A flushed insert clashes with nothing committed; a refused one gives its locks back.
LEMMA InsertSessionKeeps ==
  ASSUME RequestsAgreeWithTables, NEW r \in Slots, InsertSession(r)
  PROVE  RequestsAgreeWithTables'
<1>1. pc[r] = "ci_insert" /\ req[r] \in Request /\ lotLock = r
  BY DEF InsertSession, RequestsAgreeWithTables, ExitsKnowTheirSession, ExitKnowsItsSession,
         EntryPlaces, InsertsAreSerialized, InsertIsSerialized
<1>2. CASE /\ ~InsertConflict(req[r]) /\ Goto(r, "ci_count")
           /\ \E s \in SessionIds \ Rows : sid' = [sid EXCEPT ![r] = s]
           /\ UNCHANGED <<table, settings, locks, req, seen, want, num, answer, answered>>
  <2>1. TypeOK'
    BY <1>2 DEF RequestsAgreeWithTables, TypeOK, table, locks, Goto, Places
  <2>2. pc'[r] = "ci_count" /\ sid'[r] \in SessionIds /\ rows[sid'[r]].status = "NONE"
    BY <1>2 DEF RequestsAgreeWithTables, TypeOK, Goto, Rows
  <2>3. ActiveOf(req[r].veh)' = {} /\ ByKey(req[r].key)' = {}
    BY <1>2 DEF InsertConflict, ActiveOf, ByKey, Rows, table
  <2>4. InsertIsSerialized(r)' /\ ExitKnowsItsSession(r)'
    BY <1>1, <1>2, <2>2, <2>3 DEF InsertIsSerialized, ExitKnowsItsSession, ExitPlaces,
                                  table, locks
  <2> QED
    BY <1>2, <2>1, <2>4, MoveKeeps DEF RequestsAgreeWithTables, TypeOK, table, locks
<1>3. CASE /\ Release(r) /\ Goto(r, "ci_conflict")
           /\ UNCHANGED <<table, settings, local, answer, answered>>
  <2>1. TypeOK'
    BY <1>3, ReleaseType DEF RequestsAgreeWithTables, TypeOK, table, local, Goto, Places
  <2>2. pc'[r] = "ci_conflict"
    BY <1>3 DEF RequestsAgreeWithTables, TypeOK, Goto
  <2>3. InsertIsSerialized(r)' /\ ExitKnowsItsSession(r)'
    BY <1>1, <1>3, <2>2 DEF InsertIsSerialized, ExitKnowsItsSession, ExitPlaces, local
  <2> QED
    BY <1>3, <2>1, <2>3, MoveKeeps, Tokens DEF table, local, Release
<1> QED
  BY <1>2, <1>3 DEF InsertSession

\* What follows a refused insert keeps the invariant: the transaction is over,
\* and a replay answers with the session of the key.
LEMMA ExplainConflictKeeps ==
  ASSUME RequestsAgreeWithTables, NEW r \in Slots, ExplainConflict(r)
  PROVE  RequestsAgreeWithTables'
<1>1. req[r] \in Request
  BY DEF ExplainConflict, RequestsAgreeWithTables, ExitsKnowTheirSession, ExitKnowsItsSession
<1>2. CASE \E s \in ByKey(req[r].key) : Replay(r, req[r], s)
  BY <1>1, <1>2, ReplayKeeps
<1>3. ASSUME NEW code, Fail(r, code),
             code \in {DuplicateCode(req[r].veh), "DATABASE_UNAVAILABLE"}
      PROVE  RequestsAgreeWithTables'
  BY <1>3, FailKeeps DEF Codes, DuplicateCode
<1> QED
  BY <1>2, <1>3 DEF ExplainConflict

\* The limit is read while the lot is locked, so it is the settings' limit.
LEMMA LockCounterForEntryKeeps ==
  ASSUME RequestsAgreeWithTables, NEW r \in Slots, LockCounterForEntry(r)
  PROVE  RequestsAgreeWithTables'
<1> USE DEF LockCounterForEntry
<1>1. /\ req[r] \in Request /\ lotLock = r
      /\ sid[r] \in SessionIds /\ rows[sid[r]].status = "NONE"
      /\ ActiveOf(req[r].veh) = {} /\ ByKey(req[r].key) = {}
  BY DEF RequestsAgreeWithTables, ExitsKnowTheirSession, ExitKnowsItsSession,
         EntryPlaces, InsertsAreSerialized, InsertIsSerialized
<1>2. TypeOK'
  BY LimitType DEF RequestsAgreeWithTables, TypeOK, table, Goto, Places
<1>3. pc'[r] = "ci_commit" /\ num'[r] = Limit(req[r].cls)
  BY DEF RequestsAgreeWithTables, TypeOK, Goto
<1>4. /\ ActiveOf(req[r].veh)' = {} /\ ByKey(req[r].key)' = {}
      /\ Limit(req[r].cls)' = Limit(req[r].cls)
  BY <1>1 DEF ActiveOf, ByKey, Rows, Limit, table
<1>5. InsertIsSerialized(r)' /\ ExitKnowsItsSession(r)'
  BY <1>1, <1>3, <1>4 DEF InsertIsSerialized, ExitKnowsItsSession, ExitPlaces, table
<1> QED
  BY <1>2, <1>5, MoveKeeps DEF RequestsAgreeWithTables, TypeOK, table

\* The new session is the only open one of its vehicle and the only one of its key.
LEMMA CommitEntryKeeps ==
  ASSUME RequestsAgreeWithTables, NEW r \in Slots, CommitEntry(r)
  PROVE  RequestsAgreeWithTables'
<1> USE DEF RequestsAgreeWithTables
<1>1. CASE Fail(r, "CAPACITY_FULL")
  BY <1>1, FailKeeps DEF Codes
<1>2. CASE /\ pc[r] = "ci_commit"
           /\ rows' = [rows EXCEPT ![sid[r]] = NewSession(req[r])]
           /\ occupied' = Incremented(occupied)
           /\ ledger' = ledger + 1
           /\ answered' = [answered EXCEPT ![req[r].key] = @ \cup {sid[r]}]
           /\ Finish(r, "CREATED")
           /\ UNCHANGED <<paid, out, settings>>
  <2>1. /\ req[r] \in Request /\ lotLock = r
        /\ sid[r] \in SessionIds /\ rows[sid[r]].status = "NONE"
        /\ ActiveOf(req[r].veh) = {} /\ ByKey(req[r].key) = {}
    BY <1>2 DEF ExitsKnowTheirSession, ExitKnowsItsSession, EntryPlaces,
                InsertsAreSerialized, InsertIsSerialized
  <2>2. /\ rows'[sid[r]] = NewSession(req[r])
        /\ \A s \in SessionIds \ {sid[r]} : rows'[s] = rows[s]
    BY <1>2, <2>1 DEF TypeOK
  <2> USE DEF NewSession
  <2>3. TypeOK'
    <3>1. NewSession(req[r]) \in Row
      BY <2>1 DEF Row, Status
    <3>2. rows' \in [SessionIds -> Row]
      BY <1>2, <3>1 DEF TypeOK
    <3>3. occupied' \in Nat /\ ledger' \in Int
      BY <1>2 DEF TypeOK, Incremented
    <3>4. answered' \in [Keys -> SUBSET SessionIds]
      BY <1>2, <2>1 DEF TypeOK
    <3> QED
      BY <1>2, <3>2, <3>3, <3>4, FinishType DEF TypeOK, Codes
  <2>4. \A s \in Rows : s \in Rows' /\ rows'[s].req = rows[s].req
    BY <2>1, <2>2 DEF Rows
  <2>5. Inserting \ {r} = {}
    BY <2>1, Tokens DEF Inserting, InsertsAreSerialized, InsertIsSerialized
  <2>6. Rows' = Rows \cup {sid[r]} /\ Inside' = Inside \cup {sid[r]}
    BY <2>1, <2>2 DEF Rows, Inside, Active
  <2>7. OneOpenSessionPerVehicle'
    BY <2>1, <2>2, <2>6 DEF OneOpenSessionPerVehicle, ActiveOf, Inside, Rows
  <2>8. SessionsHaveTheirKey'
    <3>1. \A s \in Rows : rows[s].req.key # req[r].key
      BY <2>1 DEF ByKey
    <3>2. \A k \in Keys : answered'[k] \subseteq ByKey(k)'
      BY <1>2, <2>1, <2>2, <2>6 DEF SessionsHaveTheirKey, ByKey, TypeOK, Rows
    <3> QED
      BY <2>1, <2>2, <2>6, <3>1, <3>2 DEF SessionsHaveTheirKey, Rows
  <2> QED
    BY <1>2, <2>3, <2>4, <2>5, <2>7, <2>8, EndKeepsOthers DEF Codes
<1> QED
  BY <1>1, <1>2 DEF CommitEntry
-----------------------------------------------------------------------------
(* Check-out, payment and emergency exit.                                  *)

\* A leaving request writes its own session: the request column stays, the
\* status becomes the wanted one or stays the committed one.
LEMMA WriteBackRow ==
  ASSUME RequestsAgreeWithTables, NEW r \in Slots, pc[r] \in ExitPlaces
  PROVE  /\ sid[r] \in SessionIds /\ sid[r] \in Rows
         /\ WriteBack(r) \in [SessionIds -> Row]
         /\ WriteBack(r)[sid[r]].req = rows[sid[r]].req
         /\ WriteBack(r)[sid[r]].status \in {rows[sid[r]].status, want[r].status}
         /\ want[r].status \in {"PAYMENT_PENDING", "COMPLETED"}
         /\ WriteBack(r)[sid[r]].status # rows[sid[r]].status
              => want[r].status # seen[r].status
         /\ \A s \in SessionIds \ {sid[r]} : WriteBack(r)[s] = rows[s]
<1>1. sid[r] \in Rows /\ sid[r] \in SessionIds
      /\ want[r].status \in {"PAYMENT_PENDING", "COMPLETED"}
  BY DEF RequestsAgreeWithTables, ExitsKnowTheirSession, ExitKnowsItsSession, Rows
<1>2. WriteBack(r) \in [SessionIds -> Row]
  BY <1>1, WriteBackType DEF RequestsAgreeWithTables
<1>3. rows \in [SessionIds -> Row]
  BY DEF RequestsAgreeWithTables, TypeOK
<1>4. /\ WriteBack(r)[sid[r]].req = rows[sid[r]].req
      /\ WriteBack(r)[sid[r]].status = Written(seen[r].status, want[r].status,
                                               rows[sid[r]].status)
  BY <1>1, <1>3 DEF WriteBack
<1>5. \A s \in SessionIds \ {sid[r]} : WriteBack(r)[s] = rows[s]
  BY <1>3 DEF WriteBack
<1> QED
  BY <1>1, <1>2, <1>4, <1>5 DEF Written

\* A leaving request that commits its session keeps the invariant, unless it
\* opens a closed session of a vehicle that is inside again.
LEMMA LeavingKeeps ==
  ASSUME RequestsAgreeWithTables, NEW r \in Slots, pc[r] \in ExitPlaces,
         NEW code \in Codes, Finish(r, code), rows' = WriteBack(r),
         UNCHANGED <<settings, answered>>,
         occupied' \in Nat, ledger' \in Int,
         paid' \in [SessionIds -> Nat], out' \in [SessionIds -> Nat],
         sid[r] \in Inside' /\ sid[r] \notin Inside =>
           /\ ActiveOf(rows[sid[r]].req.veh) = {}
           /\ \A q \in Inserting : req[q].veh # rows[sid[r]].req.veh
  PROVE  RequestsAgreeWithTables'
<1> USE DEF RequestsAgreeWithTables
<1>1. /\ sid[r] \in SessionIds /\ sid[r] \in Rows
      /\ rows' \in [SessionIds -> Row]
      /\ rows'[sid[r]].req = rows[sid[r]].req
      /\ rows'[sid[r]].status \in {rows[sid[r]].status, "PAYMENT_PENDING", "COMPLETED"}
      /\ \A s \in SessionIds \ {sid[r]} : rows'[s] = rows[s]
  BY WriteBackRow
<1>2. TypeOK'
  BY <1>1, FinishType DEF TypeOK
<1>3. Rows' = Rows /\ \A s \in SessionIds : rows'[s].req = rows[s].req
  BY <1>1 DEF Rows
<1>4. SessionsHaveTheirKey'
  BY <1>3 DEF SessionsHaveTheirKey, ByKey, Rows
<1>5. \A s \in Inside' : s \in Inside \/ s = sid[r]
  BY <1>1, <1>3 DEF Inside, Rows
<1>6. OneOpenSessionPerVehicle'
  <2> SUFFICES ASSUME NEW s \in Inside', NEW t \in Inside',
                      rows[s].req.veh = rows[t].req.veh, s # t
               PROVE  FALSE
    BY <1>3 DEF OneOpenSessionPerVehicle, Inside, Rows
  <2>1. s \notin Inside \/ t \notin Inside
    BY DEF OneOpenSessionPerVehicle
  <2>2. sid[r] \notin Inside /\ sid[r] \in Inside' /\ (s = sid[r] \/ t = sid[r])
    BY <1>5, <2>1
  <2> QED
    BY <1>5, <2>2 DEF ActiveOf, Inside
<1>7. \A q \in Inserting \ {r} :
        /\ rows'[sid[q]].status = "NONE"
        /\ \A s \in Rows' : rows'[s].req.key # req[q].key
        /\ \A s \in Inside' : rows'[s].req.veh # req[q].veh
  <2> SUFFICES ASSUME NEW q \in Inserting
               PROVE  /\ rows'[sid[q]].status = "NONE"
                      /\ \A s \in Rows : rows[s].req.key # req[q].key
                      /\ \A s \in Inside' : rows[s].req.veh # req[q].veh
    BY <1>3 DEF Rows, Inside
  <2>1. /\ sid[q] \in SessionIds /\ rows[sid[q]].status = "NONE"
        /\ ActiveOf(req[q].veh) = {} /\ ByKey(req[q].key) = {}
    BY DEF Inserting, InsertsAreSerialized, InsertIsSerialized
  <2>2. rows'[sid[q]].status = "NONE"
    BY <1>1, <2>1 DEF Rows
  <2>3. \A s \in Inside : rows[s].req.veh # req[q].veh
    BY <2>1 DEF ActiveOf, Inside
  <2> QED
    BY <1>5, <2>1, <2>2, <2>3 DEF ByKey
<1>8. \A s \in Rows : s \in Rows' /\ rows'[s].req = rows[s].req
  BY <1>3 DEF Rows
<1> QED
  BY <1>2, <1>4, <1>6, <1>7, <1>8, EndKeepsOthers

\* A request that leaves loads an existing session together with its request.
LEMMA LoadKeeps ==
  ASSUME RequestsAgreeWithTables, NEW r \in Slots, NEW s \in Rows, NEW place, NEW new,
         Load(r, s, new, place), new \in Row,
         place \in {"co_pend", "ex_flush", "em_count"},
         new.status = IF place = "co_pend" THEN "PAYMENT_PENDING" ELSE "COMPLETED",
         pc[r] \in {"idle", "co_find"},
         UNCHANGED <<table, settings, locks, req, num, answer, answered>>
  PROVE  RequestsAgreeWithTables'
<1> USE DEF RequestsAgreeWithTables
<1>1. s \in SessionIds /\ rows[s] \in Row
  BY DEF Rows, TypeOK
<1>2. TypeOK'
  BY <1>1 DEF TypeOK, Load, Goto, Places, table, locks
<1>3. /\ pc'[r] = place /\ sid'[r] = s /\ seen'[r] = rows[s] /\ want'[r] = new
      /\ rows' = rows
  BY DEF Load, Goto, TypeOK, table
<1>4. InsertIsSerialized(r)' /\ ExitKnowsItsSession(r)'
  BY <1>3 DEF InsertIsSerialized, ExitKnowsItsSession, EntryPlaces, ExitPlaces, Rows
<1>5. ctrLock' # r /\ lotLock' # r
  BY Tokens DEF LocksBelongToRequests, locks
<1> QED
  BY <1>2, <1>4, <1>5, MoveKeeps DEF Load, table, locks, TypeOK

\* The arrival of a check-out keeps the invariant.
LEMMA CheckOutKeeps ==
  ASSUME RequestsAgreeWithTables, NEW r \in Slots, NEW e \in CheckOutRequests, CheckOut(r, e)
  PROVE  RequestsAgreeWithTables'
<1>1. CASE Fail(r, "CLOSED_BEFORE")
  BY <1>1, FailKeeps DEF Codes
<1>2. CASE /\ pc[r] = "idle" /\ Goto(r, "co_find")
           /\ req' = [req EXCEPT ![r] = e]
           /\ UNCHANGED <<table, settings, locks, sid, seen, want, num, answer, answered>>
  <2>1. e \in Request
    BY ConstantsAssumption
  <2>2. TypeOK'
    BY <1>2, <2>1 DEF RequestsAgreeWithTables, TypeOK, table, locks, Goto, Places
  <2>3. ctrLock # r /\ lotLock # r
    BY <1>2, Tokens DEF RequestsAgreeWithTables, LocksBelongToRequests
  <2>4. pc'[r] = "co_find" /\ req'[r] = e
    BY <1>2 DEF RequestsAgreeWithTables, TypeOK, Goto
  <2>5. InsertIsSerialized(r)' /\ ExitKnowsItsSession(r)'
    BY <2>1, <2>4 DEF InsertIsSerialized, ExitKnowsItsSession, ExitPlaces
  <2> QED
    BY <1>2, <2>2, <2>3, <2>5, MoveKeeps DEF RequestsAgreeWithTables, TypeOK, table, locks
<1> QED
  BY <1>1, <1>2 DEF CheckOut

\* The row a leaving request prepares is well typed.
LEMMA PreparedRow ==
  ASSUME NEW row \in Row, NEW fee \in Fees \cup {NoFee},
         NEW notes \in SUBSET (Keys \cup {Evacuation})
  PROVE  /\ Completed(row, fee, notes) \in Row
         /\ Completed(row, fee, notes).status = "COMPLETED"
         /\ Pending(row, fee, notes) \in Row
         /\ Pending(row, fee, notes).status = "PAYMENT_PENDING"
BY DEF Completed, Pending, Row, Status

\* Loading the session to check out keeps the invariant: the loaded copy has
\* the request of the committed row.
LEMMA FindSessionKeeps ==
  ASSUME RequestsAgreeWithTables, NEW r \in Slots, FindSession(r)
  PROVE  RequestsAgreeWithTables'
<1>1. CASE Fail(r, "SESSION_NOT_FOUND")
  BY <1>1, FailKeeps DEF Codes
<1>2. ASSUME NEW s \in ActiveOf(req[r].veh), NEW fee \in Fees,
             IF fee = 0 \/ req[r].pay
             THEN Load(r, s, Completed(rows[s], fee, rows[s].notes \cup {req[r].key}), "ex_flush")
             ELSE Load(r, s, Pending(rows[s], fee, rows[s].notes \cup {req[r].key}), "co_pend"),
             UNCHANGED <<table, settings, locks, req, num, answer, answered>>
      PROVE  RequestsAgreeWithTables'
  <2> DEFINE notes == rows[s].notes \cup {req[r].key}
  <2>1. req[r] \in Request /\ pc[r] = "co_find"
    BY DEF FindSession, RequestsAgreeWithTables, ExitsKnowTheirSession, ExitKnowsItsSession
  <2>2. s \in Rows /\ rows[s] \in Row
    BY DEF ActiveOf, Rows, RequestsAgreeWithTables, TypeOK
  <2>3. notes \in SUBSET (Keys \cup {Evacuation})
    BY <2>1, <2>2 DEF Row, Request
  <2> HIDE DEF notes
  <2>4. /\ Completed(rows[s], fee, notes) \in Row
        /\ Completed(rows[s], fee, notes).status = "COMPLETED"
        /\ Pending(rows[s], fee, notes) \in Row
        /\ Pending(rows[s], fee, notes).status = "PAYMENT_PENDING"
    BY <2>2, <2>3, PreparedRow
  <2>5. \/ Load(r, s, Completed(rows[s], fee, notes), "ex_flush")
        \/ Load(r, s, Pending(rows[s], fee, notes), "co_pend")
    BY <1>2 DEF notes
  <2> QED
    BY <1>2, <2>1, <2>2, <2>4, <2>5, LoadKeeps
<1> QED
  BY <1>1, <1>2 DEF FindSession

\* A write that the unique index refuses keeps the invariant.
LEMMA ReopeningRefusedKeeps ==
  ASSUME RequestsAgreeWithTables, NEW r \in Slots, ReopeningRefused(r)
  PROVE  RequestsAgreeWithTables'
BY FailKeeps DEF ReopeningRefused, Codes

\* A closed session is not opened again while its vehicle is or comes inside.
LEMMA AwaitPaymentKeeps ==
  ASSUME RequestsAgreeWithTables, NEW r \in Slots, AwaitPayment(r)
  PROVE  RequestsAgreeWithTables'
<1>1. CASE ReopeningRefused(r)
  BY <1>1, ReopeningRefusedKeeps
<1>2. CASE /\ Reopenable(r)
           /\ rows' = WriteBack(r)
           /\ Finish(r, "PENDING")
           /\ UNCHANGED <<occupied, ledger, paid, out, settings, answered>>
  <2>1. pc[r] = "co_pend" /\ pc[r] \in ExitPlaces
    BY DEF AwaitPayment, ExitPlaces
  <2>2. seen[r].req = rows[sid[r]].req
    BY <2>1 DEF RequestsAgreeWithTables, ExitsKnowTheirSession, ExitKnowsItsSession
  <2>3. sid[r] \in Inside' /\ sid[r] \notin Inside => Reopens(r)
    BY <1>2, <2>1, WriteBackRow DEF Inside, Rows, Reopens
  <2>4. Reopens(r) => /\ ActiveOf(seen[r].req.veh) = {}
                      /\ \A q \in Inserting : req[q].veh # seen[r].req.veh
    BY <1>2 DEF Reopenable, IndexWaits
  <2>5. /\ occupied' \in Nat /\ ledger' \in Int
        /\ paid' \in [SessionIds -> Nat] /\ out' \in [SessionIds -> Nat]
    BY <1>2 DEF RequestsAgreeWithTables, TypeOK
  <2> QED
    BY <1>2, <2>1, <2>2, <2>3, <2>4, <2>5, LeavingKeeps DEF Codes
<1> QED
  BY <1>1, <1>2 DEF AwaitPayment

\* Loading the session to be paid keeps the invariant.
LEMMA RecordPaymentKeeps ==
  ASSUME RequestsAgreeWithTables, NEW r \in Slots, RecordPayment(r)
  PROVE  RequestsAgreeWithTables'
<1>1. PICK s \in Inside :
        Load(r, s, Completed(rows[s], rows[s].fee, rows[s].notes), "ex_flush")
  BY DEF RecordPayment
<1>2. s \in Rows /\ rows[s] \in Row
  BY DEF Inside, Rows, RequestsAgreeWithTables, TypeOK
<1>3. /\ rows[s].fee \in Fees \cup {NoFee}
      /\ rows[s].notes \in SUBSET (Keys \cup {Evacuation})
  BY <1>2 DEF Row
<1>4. /\ Completed(rows[s], rows[s].fee, rows[s].notes) \in Row
      /\ Completed(rows[s], rows[s].fee, rows[s].notes).status = "COMPLETED"
  BY <1>2, <1>3, PreparedRow
<1> QED
  BY <1>1, <1>2, <1>4, LoadKeeps DEF RecordPayment

\* Loading the session to evacuate keeps the invariant.
LEMMA EmergencyExitKeeps ==
  ASSUME RequestsAgreeWithTables, NEW r \in Slots, EmergencyExit(r)
  PROVE  RequestsAgreeWithTables'
<1>1. PICK s \in Inside :
        Load(r, s, Completed(rows[s], 0, rows[s].notes \cup {Evacuation}), "em_count")
  BY DEF EmergencyExit
<1>2. s \in Rows /\ rows[s] \in Row
  BY DEF Inside, Rows, RequestsAgreeWithTables, TypeOK
<1>3. /\ 0 \in Fees \cup {NoFee}
      /\ rows[s].notes \cup {Evacuation} \in SUBSET (Keys \cup {Evacuation})
  BY <1>2, ConstantsAssumption DEF Row
<1>4. /\ Completed(rows[s], 0, rows[s].notes \cup {Evacuation}) \in Row
      /\ Completed(rows[s], 0, rows[s].notes \cup {Evacuation}).status = "COMPLETED"
  BY <1>2, <1>3, PreparedRow
<1> QED
  BY <1>1, <1>2, <1>4, LoadKeeps DEF EmergencyExit

\* The exit's row is flushed; the counter comes next.
LEMMA FlushExitKeeps ==
  ASSUME RequestsAgreeWithTables, NEW r \in Slots, FlushExit(r)
  PROVE  RequestsAgreeWithTables'
<1> USE DEF RequestsAgreeWithTables
<1>1. CASE ReopeningRefused(r)
  BY <1>1, ReopeningRefusedKeeps
<1>2. CASE /\ pc[r] = "ex_flush" /\ Goto(r, "ex_count")
           /\ UNCHANGED <<table, settings, locks, local, answer, answered>>
  <2>1. TypeOK'
    BY <1>2 DEF TypeOK, table, local, locks, Goto, Places
  <2>2. ctrLock # r /\ lotLock # r
    BY <1>2, Tokens DEF LocksBelongToRequests
  <2>3. pc'[r] = "ex_count"
    BY <1>2 DEF TypeOK, Goto
  <2>4. ExitKnowsItsSession(r)
    BY DEF ExitsKnowTheirSession
  <2>5. InsertIsSerialized(r)' /\ ExitKnowsItsSession(r)'
    BY <1>2, <2>3, <2>4 DEF InsertIsSerialized, ExitKnowsItsSession, EntryPlaces, ExitPlaces,
                            local, table, Rows
  <2> QED
    BY <1>2, <2>1, <2>2, <2>5, MoveKeeps DEF table, local, locks
<1> QED
  BY <1>1, <1>2 DEF FlushExit

\* Locking the counter before an emergency exit keeps the invariant.
LEMMA LockCounterForEmergencyKeeps ==
  ASSUME RequestsAgreeWithTables, NEW r \in Slots, LockCounterForEmergency(r)
  PROVE  RequestsAgreeWithTables'
<1> USE DEF RequestsAgreeWithTables, LockCounterForEmergency
<1>1. TypeOK'
  BY DEF TypeOK, table, local, Goto, Places
<1>2. lotLock # r
  BY Tokens DEF LocksBelongToRequests
<1>3. pc'[r] = "em_flush"
  BY DEF TypeOK, Goto
<1>4. ExitKnowsItsSession(r)
  BY DEF ExitsKnowTheirSession
<1>5. InsertIsSerialized(r)' /\ ExitKnowsItsSession(r)'
  BY <1>3, <1>4 DEF InsertIsSerialized, ExitKnowsItsSession, EntryPlaces, ExitPlaces,
                    local, table, Rows
<1> QED
  BY <1>1, <1>2, <1>5, MoveKeeps DEF table, local

\* A completed exit never puts a session inside.
LEMMA CommitExitKeeps ==
  ASSUME RequestsAgreeWithTables, NEW r \in Slots, CommitExit(r) \/ CommitEmergency(r)
  PROVE  RequestsAgreeWithTables'
<1>1. pc[r] \in {"ex_count", "em_flush"} /\ pc[r] \in ExitPlaces
  BY DEF CommitExit, CommitEmergency, ExitPlaces
<1>2. /\ rows' = WriteBack(r) /\ Finish(r, "CLOSED") /\ UNCHANGED <<settings, answered>>
      /\ occupied' = Decremented(occupied) /\ ledger' = ledger - 1
      /\ paid' \in {paid, [paid EXCEPT ![sid[r]] = @ + PaymentEvents(r)]}
      /\ out' = [out EXCEPT ![sid[r]] = @ + 1]
  BY DEF CommitExit, CommitEmergency
<1>3. PaymentEvents(r) \in Nat
  BY DEF PaymentEvents
<1>4. /\ occupied' \in Nat /\ ledger' \in Int
      /\ paid' \in [SessionIds -> Nat] /\ out' \in [SessionIds -> Nat]
  <2>1. sid[r] \in SessionIds
    BY <1>1, WriteBackRow
  <2>2. occupied' \in Nat /\ ledger' \in Int
    BY <1>2 DEF RequestsAgreeWithTables, TypeOK, Decremented
  <2>3. paid' \in [SessionIds -> Nat]
    <3>1. [paid EXCEPT ![sid[r]] = @ + PaymentEvents(r)] \in [SessionIds -> Nat]
      BY <1>3, <2>1 DEF RequestsAgreeWithTables, TypeOK
    <3> QED
      BY <1>2, <3>1 DEF RequestsAgreeWithTables, TypeOK
  <2>4. out' \in [SessionIds -> Nat]
    BY <1>2, <2>1 DEF RequestsAgreeWithTables, TypeOK
  <2> QED
    BY <2>2, <2>3, <2>4
<1>5. want[r].status = "COMPLETED"
  BY <1>1 DEF RequestsAgreeWithTables, ExitsKnowTheirSession, ExitKnowsItsSession
<1>6. sid[r] \in Inside' => sid[r] \in Inside
  BY <1>1, <1>2, <1>5, WriteBackRow DEF Inside, Rows, Active
<1> QED
  BY <1>1, <1>2, <1>4, <1>6, LeavingKeeps DEF Codes

-----------------------------------------------------------------------------
(* Counter administration and settings.                                    *)

\* Counting the PARKED sessions keeps the invariant.
LEMMA ReconcileKeeps ==
  ASSUME RequestsAgreeWithTables, NEW r \in Slots, Reconcile(r)
  PROVE  RequestsAgreeWithTables'
<1> USE DEF RequestsAgreeWithTables, Reconcile
<1>1. TypeOK'
  BY ParkedCount DEF TypeOK, table, locks, Goto, Places
<1>2. ctrLock # r /\ lotLock # r
  BY Tokens DEF LocksBelongToRequests
<1>3. pc'[r] = "rc_lock"
  BY DEF TypeOK, Goto
<1>4. InsertIsSerialized(r)' /\ ExitKnowsItsSession(r)'
  BY <1>3 DEF InsertIsSerialized, ExitKnowsItsSession, EntryPlaces, ExitPlaces
<1> QED
  BY <1>1, <1>2, <1>4, MoveKeeps DEF table, locks, TypeOK

\* Moving the counter to the count keeps the invariant.
LEMMA CommitReconcileKeeps ==
  ASSUME RequestsAgreeWithTables, NEW r \in Slots, CommitReconcile(r)
  PROVE  RequestsAgreeWithTables'
<1>1. /\ Finish(r, "ADJUSTED") /\ UNCHANGED <<rows, paid, out, settings, answered>>
      /\ occupied' = num[r] /\ ledger' = ledger + (num[r] - occupied)
  BY DEF CommitReconcile
<1>2. occupied' \in Nat /\ ledger' \in Int
  BY <1>1 DEF RequestsAgreeWithTables, TypeOK
<1>3. TypeOK'
  BY <1>1, <1>2, FinishType DEF RequestsAgreeWithTables, TypeOK, Codes
<1>4. \A s \in Rows : s \in Rows' /\ rows'[s].req = rows[s].req
  BY <1>1 DEF Rows
<1>5. \A q \in Inserting : /\ rows'[sid[q]].status = "NONE"
                           /\ \A s \in Rows' : rows'[s].req.key # req[q].key
                           /\ \A s \in Inside' : rows'[s].req.veh # req[q].veh
  BY <1>1 DEF RequestsAgreeWithTables, InsertsAreSerialized, InsertIsSerialized,
                    Inserting, Rows, Inside, ActiveOf, ByKey
<1> QED
  BY <1>1, <1>3, <1>4, <1>5, EndKeepsOthers, SameTables DEF RequestsAgreeWithTables, Codes

\* An adjustment of the counter within its bounds keeps the invariant.
LEMMA AdjustCounterKeeps ==
  ASSUME RequestsAgreeWithTables, NEW d \in AdjustDeltas, AdjustCounter(d)
  PROVE  RequestsAgreeWithTables'
<1> USE DEF RequestsAgreeWithTables, AdjustCounter
<1>1. d \in Int
  BY ConstantsAssumption
<1>2. TypeOK'
  BY <1>1, ConstantsAssumption DEF TypeOK, local, locks
<1>3. SessionsHaveTheirKey' /\ OneOpenSessionPerVehicle'
  BY SameTables
<1>4. LocksBelongToRequests' /\ ExitsKnowTheirSession'
  BY DEF LocksBelongToRequests, ExitsKnowTheirSession, ExitKnowsItsSession, Rows, local, locks
<1>5. InsertsAreSerialized'
  BY DEF InsertsAreSerialized, InsertIsSerialized, ActiveOf, ByKey, Rows, Limit, local, locks
<1> QED
  BY <1>2, <1>3, <1>4, <1>5

\* Settings change only while no check-in holds the lot: no limit read becomes stale.
LEMMA WriteSettingsKeeps ==
  ASSUME RequestsAgreeWithTables, NEW c \in SettingsChoices, WriteSettings(c)
  PROVE  RequestsAgreeWithTables'
<1> USE DEF RequestsAgreeWithTables, WriteSettings
<1>1. TypeOK'
  BY ConstantsAssumption DEF TypeOK, local, locks, table
<1>2. SessionsHaveTheirKey' /\ OneOpenSessionPerVehicle'
  BY SameTables DEF table
<1>3. LocksBelongToRequests' /\ ExitsKnowTheirSession'
  BY DEF LocksBelongToRequests, ExitsKnowTheirSession, ExitKnowsItsSession, Rows,
         local, locks, table
<1>4. \A r \in Slots : pc'[r] \notin {"ci_insert", "ci_count", "ci_commit"}
  BY Tokens DEF InsertsAreSerialized, InsertIsSerialized
<1>5. InsertsAreSerialized'
  BY <1>4 DEF InsertsAreSerialized, InsertIsSerialized
<1> QED
  BY <1>1, <1>2, <1>3, <1>5
-----------------------------------------------------------------------------
(* The theorems.                                                           *)

\* The empty tables and idle workers satisfy the invariant.
LEMMA InitiallyAgrees == Init => RequestsAgreeWithTables
<1> SUFFICES ASSUME Init PROVE RequestsAgreeWithTables
  OBVIOUS
<1> USE DEF Init
<1>1. TypeOK
  BY ConstantsAssumption DEF TypeOK, NoRow, Row, Status, Places, Codes
<1>2. Rows = {} /\ Inside = {}
  BY DEF Rows, Inside, NoRow
<1>3. LocksBelongToRequests /\ OneOpenSessionPerVehicle
  BY <1>2 DEF LocksBelongToRequests, OneOpenSessionPerVehicle
<1>4. InsertsAreSerialized /\ ExitsKnowTheirSession
  BY DEF InsertsAreSerialized, InsertIsSerialized, ExitsKnowTheirSession,
         ExitKnowsItsSession, EntryPlaces, ExitPlaces
<1>5. SessionsHaveTheirKey
  BY <1>2 DEF SessionsHaveTheirKey
<1> QED
  BY <1>1, <1>3, <1>4, <1>5 DEF RequestsAgreeWithTables

\* Every step of a served request keeps the invariant.
LEMMA StepKeeps ==
  ASSUME RequestsAgreeWithTables, NEW r \in Slots, Step(r)
  PROVE  RequestsAgreeWithTables'
<1>1. CASE AccessControl(r)
  BY <1>1, AccessControlKeeps
<1>2. CASE DuplicateCheck(r)
  BY <1>2, DuplicateCheckKeeps
<1>3. CASE RequireReady(r)
  BY <1>3, RequireReadyKeeps
<1>4. CASE InsertSession(r)
  BY <1>4, InsertSessionKeeps
<1>5. CASE ExplainConflict(r)
  BY <1>5, ExplainConflictKeeps
<1>6. CASE LockCounterForEntry(r)
  BY <1>6, LockCounterForEntryKeeps
<1>7. CASE CommitEntry(r)
  BY <1>7, CommitEntryKeeps
<1>8. CASE FindSession(r)
  BY <1>8, FindSessionKeeps
<1>9. CASE AwaitPayment(r)
  BY <1>9, AwaitPaymentKeeps
<1>10. CASE FlushExit(r)
  BY <1>10, FlushExitKeeps
<1>11. CASE CommitExit(r) \/ CommitEmergency(r)
  BY <1>11, CommitExitKeeps
<1>12. CASE LockCounterForEmergency(r)
  BY <1>12, LockCounterForEmergencyKeeps
<1>13. CASE CommitReconcile(r)
  BY <1>13, CommitReconcileKeeps
<1> QED
  BY <1>1, <1>2, <1>3, <1>4, <1>5, <1>6, <1>7, <1>8, <1>9, <1>10, <1>11, <1>12, <1>13
  DEF Step

\* Every step of the system keeps the invariant.
LEMMA NextKeeps == RequestsAgreeWithTables /\ [Next]_vars => RequestsAgreeWithTables'
<1> SUFFICES ASSUME RequestsAgreeWithTables, [Next]_vars PROVE RequestsAgreeWithTables'
  OBVIOUS
<1>1. ASSUME NEW r \in Slots, Arrive(r) PROVE RequestsAgreeWithTables'
  BY <1>1, CheckInKeeps, CheckOutKeeps, RecordPaymentKeeps, EmergencyExitKeeps,
     ReconcileKeeps DEF Arrive
<1>2. ASSUME NEW r \in Slots, Step(r) PROVE RequestsAgreeWithTables'
  BY <1>2, StepKeeps
<1>3. ASSUME NEW r \in Slots, Refuse(r) \/ ConnectionLost(r) \/ DeadlockVictim(r)
      PROVE  RequestsAgreeWithTables'
  BY <1>3, FailKeeps DEF Refuse, ConnectionLost, DeadlockVictim, Codes
<1>4. ASSUME NEW d \in AdjustDeltas, AdjustCounter(d) PROVE RequestsAgreeWithTables'
  BY <1>4, AdjustCounterKeeps
<1>5. ASSUME NEW c \in SettingsChoices, WriteSettings(c) PROVE RequestsAgreeWithTables'
  BY <1>5, WriteSettingsKeeps
<1>6. CASE UNCHANGED vars
  <2> USE <1>6 DEF vars, table, local, locks, RequestsAgreeWithTables
  <2>1. TypeOK' /\ LocksBelongToRequests' /\ ExitsKnowTheirSession'
    BY DEF TypeOK, LocksBelongToRequests, ExitsKnowTheirSession, ExitKnowsItsSession, Rows
  <2>2. InsertsAreSerialized'
    BY DEF InsertsAreSerialized, InsertIsSerialized, ActiveOf, ByKey, Rows, Limit
  <2> QED
    BY <2>1, <2>2, SameTables
<1> QED
  BY <1>1, <1>2, <1>3, <1>4, <1>5, <1>6 DEF Next

\* Locks, uncommitted inserts and loaded sessions of all requests always agree
\* with the committed tables: the inductive invariant of check-in and check-out.
THEOREM AlwaysAgrees == Spec => []RequestsAgreeWithTables
BY InitiallyAgrees, NextKeeps, PTL DEF Spec

\* Every variable keeps its type, the counter is never negative.
THEOREM TypeCorrect == Spec => []TypeOK
<1>1. RequestsAgreeWithTables => TypeOK
  BY DEF RequestsAgreeWithTables
<1> QED
  BY <1>1, AlwaysAgrees, PTL

\* No interleaving of check-ins, check-outs, payments and emergency exits of any
\* number of workers gives a vehicle two open sessions.
THEOREM NoSecondOpenSession == Spec => []OneOpenSessionPerVehicle
<1>1. RequestsAgreeWithTables => OneOpenSessionPerVehicle
  BY DEF RequestsAgreeWithTables
<1> QED
  BY <1>1, AlwaysAgrees, PTL

\* Every successful check-in of a key, retry or concurrent duplicate, is given
\* the one session that the key created.
THEOREM CheckInIsIdempotent == Spec => []KeyAnswersOneSession
<1>1. RequestsAgreeWithTables => KeyAnswersOneSession
  BY DEF RequestsAgreeWithTables, SessionsHaveTheirKey, KeyAnswersOneSession, ByKey, Rows
<1> QED
  BY <1>1, AlwaysAgrees, PTL

\* No early return or error answer leaves the counter or the lot locked.
THEOREM NoLockIsLeftBehind == Spec => []LocksBelongToRequests
<1>1. RequestsAgreeWithTables => LocksBelongToRequests
  BY DEF RequestsAgreeWithTables
<1> QED
  BY <1>1, AlwaysAgrees, PTL
-----------------------------------------------------------------------------
(* The action properties.                                                  *)

\* A session appears only by the commit of a check-in below its limit.
LEMMA OnlyEntriesCreate ==
  ASSUME RequestsAgreeWithTables, [Next]_vars, NEW s \in SessionIds,
         rows[s].status = "NONE", rows'[s].status # "NONE"
  PROVE  occupied < Limit(rows'[s].req.cls)
<1> USE DEF RequestsAgreeWithTables
<1>1. \/ rows' = rows
      \/ \E r \in Slots : pc[r] \in ExitPlaces /\ rows' = WriteBack(r)
      \/ \E r \in Slots : /\ pc[r] = "ci_commit" /\ occupied < num[r]
                         /\ rows' = [rows EXCEPT ![sid[r]] = NewSession(req[r])]
  <2>1. ASSUME NEW r \in Slots, Arrive(r) PROVE rows' = rows
    BY <2>1 DEF Arrive, CheckIn, Replay, CheckOut, RecordPayment, EmergencyExit, Reconcile,
                Fail, table
  <2>2. ASSUME NEW r \in Slots,
               Refuse(r) \/ ConnectionLost(r) \/ DeadlockVictim(r)
        PROVE  rows' = rows
    BY <2>2 DEF Refuse, ConnectionLost, DeadlockVictim, Fail, table
  <2>3. ASSUME NEW r \in Slots, Step(r)
        PROVE  \/ rows' = rows
               \/ pc[r] \in ExitPlaces /\ rows' = WriteBack(r)
               \/ /\ pc[r] = "ci_commit" /\ occupied < num[r]
                  /\ rows' = [rows EXCEPT ![sid[r]] = NewSession(req[r])]
    <3>1. CASE AccessControl(r) \/ DuplicateCheck(r) \/ RequireReady(r) \/ InsertSession(r)
               \/ ExplainConflict(r) \/ LockCounterForEntry(r)
      BY <3>1 DEF AccessControl, DuplicateCheck, RequireReady, InsertSession,
                  ExplainConflict, Replay, LockCounterForEntry, Fail, table
    <3>2. CASE FindSession(r) \/ FlushExit(r) \/ LockCounterForEmergency(r)
               \/ CommitReconcile(r)
      BY <3>2 DEF FindSession, FlushExit, ReopeningRefused, LockCounterForEmergency, CommitReconcile,
                  Fail, table
    <3>3. CASE CommitEntry(r)
      BY <3>3 DEF CommitEntry, Fail, table
    <3>4. CASE AwaitPayment(r) \/ CommitExit(r) \/ CommitEmergency(r)
      BY <3>4 DEF AwaitPayment, ReopeningRefused, CommitExit, CommitEmergency, Fail, table, ExitPlaces
    <3> QED
      BY <2>3, <3>1, <3>2, <3>3, <3>4 DEF Step
  <2>4. ASSUME \/ \E d \in AdjustDeltas : AdjustCounter(d)
               \/ \E c \in SettingsChoices : WriteSettings(c)
               \/ UNCHANGED vars
        PROVE  rows' = rows
    BY <2>4 DEF AdjustCounter, WriteSettings, vars, table
  <2> QED
    BY <2>1, <2>2, <2>3, <2>4 DEF Next
<1>2. ASSUME NEW r \in Slots, pc[r] \in ExitPlaces, rows' = WriteBack(r)
      PROVE  FALSE
  BY <1>2, WriteBackRow DEF Rows
<1>3. PICK r \in Slots : /\ pc[r] = "ci_commit" /\ occupied < num[r]
                        /\ rows' = [rows EXCEPT ![sid[r]] = NewSession(req[r])]
  BY <1>1, <1>2
<1>4. rows'[s].req = req[r]
  BY <1>3 DEF TypeOK, NewSession
<1> QED
  BY <1>3, <1>4 DEF InsertsAreSerialized, InsertIsSerialized

\* However check-ins, exits and settings changes interleave, an entry commits
\* only below the limit that the settings then in force give its class.
THEOREM EntriesStayWithinLimit == Spec => EntryWithinLimit
<1> DEFINE Within == \A s \in SessionIds :
                       rows[s].status = "NONE" /\ rows'[s].status # "NONE"
                         => occupied < Limit(rows'[s].req.cls)
<1>1. RequestsAgreeWithTables /\ [Next]_vars => [Within]_vars
  BY OnlyEntriesCreate
<1> QED
  BY <1>1, AlwaysAgrees, PTL DEF Spec, EntryWithinLimit
-----------------------------------------------------------------------------
(* The counter between a check-in's pre-check and its commit.              *)

\* A check-in that passed the capacity pre-check holds the counter until its
\* transaction ends, so nobody moves the counter between its pre-check and its
\* commit; an overridden one holds it only from the counter's update on, and an
\* emergency exit while its session is flushed.
CheckInKeepsCounter ==
  \A r \in Slots :
    /\ pc[r] \in {"ci_commit", "em_flush"} => ctrLock = r
    /\ pc[r] \in {"ci_dup", "ci_ready", "ci_insert", "ci_count"} /\ ~req[r].review
         => ctrLock = r

\* A request that moves without touching another one's counter lock keeps
\* CheckInKeepsCounter if that is true of the request itself at its new place.
LEMMA MoveKeepsCounter ==
  ASSUME TypeOK, CheckInKeepsCounter, NEW r \in Slots,
         \A q \in Slots \ {r} : pc'[q] = pc[q] /\ req'[q] = req[q],
         ctrLock' = ctrLock \/ {ctrLock, ctrLock'} \subseteq {NoSlot, r},
         \/ pc'[r] \notin {"ci_dup", "ci_ready", "ci_insert", "ci_count", "ci_commit",
                          "em_flush"}
         \/ ctrLock' = r
         \/ req'[r].review /\ pc'[r] \notin {"ci_commit", "em_flush"}
  PROVE  CheckInKeepsCounter'
BY Tokens DEF CheckInKeepsCounter

\* A request that ends keeps CheckInKeepsCounter.
LEMMA EndKeepsCounter ==
  ASSUME TypeOK, CheckInKeepsCounter, NEW r \in Slots, NEW code, Finish(r, code)
  PROVE  CheckInKeepsCounter'
<1>1. pc'[r] = "idle" /\ \A q \in Slots \ {r} : pc'[q] = pc[q] /\ req'[q] = req[q]
  BY DEF Finish, Forget, TypeOK
<1>2. ctrLock' = ctrLock \/ {ctrLock, ctrLock'} \subseteq {NoSlot, r}
  BY DEF Finish, Release
<1> QED
  BY <1>1, <1>2, MoveKeepsCounter

\* A check-in gains the counter at its pre-check or, overridden, at the
\* counter's update, and gives it back only with the transaction.
LEMMA StepKeepsCounter ==
  ASSUME TypeOK, CheckInKeepsCounter, NEW r \in Slots, Step(r)
  PROVE  CheckInKeepsCounter'
<1>1. ASSUME NEW code, Finish(r, code) PROVE CheckInKeepsCounter'
  BY <1>1, EndKeepsCounter
<1>2. CASE AccessControl(r)
  <2>1. CASE \E code : Fail(r, code)
    BY <1>1, <2>1 DEF Fail
  <2>2. CASE /\ Goto(r, "ci_dup") /\ req' = req
             /\ \/ ctrLock' = ctrLock /\ req[r].review
                \/ ctrLock' = r /\ CounterFree(r)
    <3>1. pc'[r] = "ci_dup" /\ \A q \in Slots \ {r} : pc'[q] = pc[q]
      BY <2>2 DEF Goto, TypeOK
    <3> QED
      BY <2>2, <3>1, MoveKeepsCounter DEF CounterFree
  <2> QED
    BY <1>2, <2>1, <2>2 DEF AccessControl, PreChecksCapacity, locks, local
<1>3. CASE DuplicateCheck(r) \/ RequireReady(r)
  <2>1. CASE \E code : Fail(r, code)
    BY <1>1, <2>1 DEF Fail
  <2>2. CASE /\ pc[r] \in {"ci_dup", "ci_ready"} /\ UNCHANGED <<req, ctrLock>>
             /\ Goto(r, "ci_ready") \/ Goto(r, "ci_insert")
    <3>1. pc'[r] \in {"ci_ready", "ci_insert"} /\ \A q \in Slots \ {r} : pc'[q] = pc[q]
      BY <2>2 DEF Goto, TypeOK
    <3>2. ctrLock' = r \/ req'[r].review
      BY <2>2 DEF CheckInKeepsCounter
    <3> QED
      BY <2>2, <3>1, <3>2, MoveKeepsCounter
  <2> QED
    BY <1>3, <2>1, <2>2 DEF DuplicateCheck, RequireReady, locks, local
<1>4. CASE InsertSession(r)
  <2>1. CASE UNCHANGED <<req, ctrLock>> /\ Goto(r, "ci_count")
    <3>1. pc'[r] = "ci_count" /\ \A q \in Slots \ {r} : pc'[q] = pc[q]
      BY <2>1 DEF Goto, TypeOK
    <3>2. ctrLock' = r \/ req'[r].review
      BY <1>4, <2>1 DEF CheckInKeepsCounter, InsertSession
    <3> QED
      BY <2>1, <3>1, <3>2, MoveKeepsCounter
  <2>2. CASE req' = req /\ Release(r) /\ Goto(r, "ci_conflict")
    <3>1. pc'[r] = "ci_conflict" /\ \A q \in Slots \ {r} : pc'[q] = pc[q]
      BY <2>2 DEF Goto, TypeOK
    <3> QED
      BY <2>2, <3>1, MoveKeepsCounter DEF Release
  <2> QED
    BY <1>4, <2>1, <2>2 DEF InsertSession, locks, local
<1>5. CASE LockCounterForEntry(r) \/ LockCounterForEmergency(r)
  <2>1. /\ pc'[r] \in {"ci_commit", "em_flush"} /\ \A q \in Slots \ {r} : pc'[q] = pc[q]
        /\ req' = req /\ ctrLock' = r /\ CounterFree(r)
    BY <1>5 DEF LockCounterForEntry, LockCounterForEmergency, Goto, TypeOK, local
  <2> QED
    BY <2>1, MoveKeepsCounter DEF CounterFree
<1>6. CASE FindSession(r) \/ FlushExit(r)
  <2>1. CASE \E code : Finish(r, code)
    BY <1>1, <2>1
  <2>2. CASE /\ Goto(r, "ex_flush") \/ Goto(r, "co_pend") \/ Goto(r, "ex_count")
             /\ UNCHANGED <<req, ctrLock>>
    <3>1. /\ pc'[r] \in {"ex_flush", "co_pend", "ex_count"}
          /\ \A q \in Slots \ {r} : pc'[q] = pc[q]
      BY <2>2 DEF Goto, TypeOK
    <3> QED
      BY <2>2, <3>1, MoveKeepsCounter
  <2> QED
    BY <1>6, <2>1, <2>2 DEF FindSession, Load, FlushExit, ReopeningRefused, Fail, locks, local
<1>7. CASE ExplainConflict(r) \/ CommitEntry(r)
  BY <1>1, <1>7 DEF ExplainConflict, Replay, CommitEntry, Fail
<1>8. CASE AwaitPayment(r) \/ CommitExit(r) \/ CommitEmergency(r) \/ CommitReconcile(r)
  BY <1>1, <1>8 DEF AwaitPayment, ReopeningRefused, CommitExit, CommitEmergency,
                    CommitReconcile, Fail
<1> QED
  BY <1>2, <1>3, <1>4, <1>5, <1>6, <1>7, <1>8 DEF Step

\* Nothing takes the counter away from a check-in that holds it.
LEMMA NextKeepsCounter ==
  ASSUME TypeOK, CheckInKeepsCounter, [Next]_vars
  PROVE  CheckInKeepsCounter'
<1>1. ASSUME NEW r \in Slots, NEW code, Finish(r, code) PROVE CheckInKeepsCounter'
  BY <1>1, EndKeepsCounter
<1>2. ASSUME NEW r \in Slots, Arrive(r) PROVE CheckInKeepsCounter'
  <2>1. CASE \E code : Finish(r, code)
    BY <1>1, <2>1
  <2>2. CASE /\ \E place \in {"ci_access", "co_find", "ex_flush", "em_count", "rc_lock"} :
                  Goto(r, place)
             /\ ctrLock' = ctrLock
             /\ req' = req \/ \E e : req' = [req EXCEPT ![r] = e]
    <3>1. /\ pc'[r] \in {"ci_access", "co_find", "ex_flush", "em_count", "rc_lock"}
          /\ \A q \in Slots \ {r} : pc'[q] = pc[q] /\ req'[q] = req[q]
      BY <2>2 DEF Goto, TypeOK
    <3> QED
      BY <2>2, <3>1, MoveKeepsCounter
  <2> QED
    BY <1>2, <2>1, <2>2 DEF Arrive, CheckIn, Replay, CheckOut, RecordPayment, EmergencyExit,
                            Reconcile, Load, Fail, locks
<1>3. ASSUME NEW r \in Slots, Refuse(r) \/ ConnectionLost(r) \/ DeadlockVictim(r)
      PROVE  CheckInKeepsCounter'
  BY <1>1, <1>3 DEF Refuse, ConnectionLost, DeadlockVictim, Fail
<1>4. ASSUME UNCHANGED <<pc, req, ctrLock>> PROVE CheckInKeepsCounter'
  BY <1>4 DEF CheckInKeepsCounter
<1> QED
  BY <1>2, <1>3, <1>4, StepKeepsCounter
  DEF Next, AdjustCounter, WriteSettings, vars, local, locks

\* From its capacity pre-check to its commit a check-in holds the counter.
THEOREM CounterStaysWithCheckIn == Spec => []CheckInKeepsCounter
<1>1. Init => CheckInKeepsCounter
  BY DEF Init, CheckInKeepsCounter
<1>2. RequestsAgreeWithTables /\ CheckInKeepsCounter /\ [Next]_vars => CheckInKeepsCounter'
  BY NextKeepsCounter DEF RequestsAgreeWithTables
<1> QED
  BY <1>1, <1>2, AlwaysAgrees, PTL DEF Spec

\* A step of a served request moves the counter only while nobody else holds it.
LEMMA MoverHasCounter ==
  ASSUME CheckInKeepsCounter, NEW q \in Slots, Step(q), occupied' # occupied
  PROVE  /\ CounterFree(q)
         /\ pc[q] \in {"ci_commit", "ex_count", "em_flush", "rc_lock"}
         /\ pc[q] = "ci_commit" => \E code : Finish(q, code)
<1>1. UNCHANGED occupied \/ CommitEntry(q) \/ CommitExit(q) \/ CommitEmergency(q)
                         \/ CommitReconcile(q)
  BY DEF Step, AccessControl, DuplicateCheck, RequireReady, InsertSession, ExplainConflict,
         Replay, LockCounterForEntry, FindSession, AwaitPayment, FlushExit, ReopeningRefused,
         LockCounterForEmergency, Fail, table
<1>2. CASE CommitEntry(q)
  BY <1>2 DEF CommitEntry, Fail, CheckInKeepsCounter, CounterFree
<1>3. CASE CommitExit(q) \/ CommitEmergency(q) \/ CommitReconcile(q)
  BY <1>3 DEF CommitExit, CommitEmergency, CommitReconcile, CheckInKeepsCounter, CounterFree
<1> QED
  BY <1>1, <1>2, <1>3

\* What a check-in has found in the counter only its own commit changes.
LEMMA FoundStands ==
  ASSUME RequestsAgreeWithTables, CheckInKeepsCounter, [Next]_vars, NEW r \in Slots,
         pc[r] \in EntryPlaces \ {"ci_access"}, PreChecksCapacity(req[r]),
         occupied' # occupied
  PROVE  pc[r] = "ci_commit" /\ pc'[r] = "idle"
<1>1. ctrLock = r /\ r # NoSlot
  BY Tokens DEF CheckInKeepsCounter, EntryPlaces, PreChecksCapacity
<1>2. ASSUME NEW q \in Slots, Step(q) PROVE pc[r] = "ci_commit" /\ pc'[r] = "idle"
  <2>1. q = r
    BY <1>1, <1>2, MoverHasCounter DEF CounterFree
  <2>2. pc[r] = "ci_commit"
    BY <1>2, <2>1, MoverHasCounter DEF EntryPlaces
  <2>3. PICK code : Finish(r, code)
    BY <1>2, <2>1, <2>2, MoverHasCounter
  <2> QED
    BY <2>2, <2>3 DEF Finish, RequestsAgreeWithTables, TypeOK
<1>3. ASSUME NEW q \in Slots,
             Arrive(q) \/ Refuse(q) \/ ConnectionLost(q) \/ DeadlockVictim(q)
      PROVE  FALSE
  BY <1>3 DEF Arrive, CheckIn, Replay, CheckOut, RecordPayment, EmergencyExit, Reconcile,
              Refuse, ConnectionLost, DeadlockVictim, Fail, table
<1>4. ASSUME NEW d \in AdjustDeltas, AdjustCounter(d) PROVE FALSE
  BY <1>1, <1>4 DEF AdjustCounter
<1>5. ASSUME (\E c \in SettingsChoices : WriteSettings(c)) \/ UNCHANGED vars PROVE FALSE
  BY <1>5 DEF WriteSettings, vars, table
<1> QED
  BY <1>2, <1>3, <1>4, <1>5 DEF Next

\* A check-in that found room in its pre-check still finds it when it commits: no
\* exit, adjustment, reconciliation or other entry moves the counter meanwhile.
THEOREM CounterStaysAsFound == Spec => CounterFoundStands
<1>1. RequestsAgreeWithTables /\ CheckInKeepsCounter /\ [Next]_vars
        => [\A r \in Slots :
              pc[r] \in EntryPlaces \ {"ci_access"} /\ PreChecksCapacity(req[r])
                  /\ occupied' # occupied
                => pc[r] = "ci_commit" /\ pc'[r] = "idle"]_vars
  BY FoundStands
<1> QED
  BY <1>1, AlwaysAgrees, CounterStaysWithCheckIn, PTL DEF Spec, CounterFoundStands
-----------------------------------------------------------------------------
(* Deadlocks need an inversion of the lock order.                          *)

\* Only four places are both waiting and waited for: a check-in before the lot,
\* before its insert or before the counter, and an exit before the counter.
LEMMA DeadlockPlaces ==
  ASSUME RequestsAgreeWithTables, NEW D \in SUBSET Slots, Deadlocked(D), NEW q \in D
  PROVE  /\ pc[q] \in {"ci_ready", "ci_insert", "ci_count", "ex_count", "em_flush"}
         /\ pc[q] \in {"ci_ready", "em_flush"} => ctrLock = q
<1>1. PICK p \in D : q \in WaitsFor(p)
  BY DEF Deadlocked
<1>2. WaitsFor(q) # {}
  BY DEF Deadlocked
<1>3. pc[q] \notin {"idle", "ci_dup", "ci_commit", "ci_conflict", "co_find"}
  BY <1>2 DEF WaitsFor
<1>4. \/ q = ctrLock \/ q = lotLock
      \/ pc[q] \in {"ci_count", "ci_commit", "ex_count"}
  BY <1>1 DEF WaitsFor, InsertWaits, IndexWaits, Inserting, RowHeldBy
<1>5. q = ctrLock => pc[q] \in {"ci_dup", "ci_ready", "ci_insert", "ci_count",
                                "ci_commit", "em_flush"}
  BY Tokens DEF RequestsAgreeWithTables, LocksBelongToRequests
<1>6. q = lotLock => pc[q] \in {"ci_insert", "ci_count", "ci_commit"}
  BY Tokens DEF RequestsAgreeWithTables, LocksBelongToRequests
<1> QED
  BY <1>3, <1>4, <1>5, <1>6

\* In a deadlock without an overridden check-in nobody waits at its insert for
\* anything but an exit of the same vehicle: the lot admits one insert at a time.
LEMMA InsertWaitsForExit ==
  ASSUME RequestsAgreeWithTables, NEW D \in SUBSET Slots, Deadlocked(D),
         NEW r \in D, pc[r] = "ci_insert"
  PROVE  \E q \in D : pc[q] = "ex_count" /\ seen[q].req.veh = req[r].veh
<1>1. PICK q \in D : q \in InsertWaits(req[r])
  BY DEF Deadlocked, WaitsFor
<1>2. q \notin Inserting
  BY Tokens DEF Inserting, RequestsAgreeWithTables, InsertsAreSerialized, InsertIsSerialized
<1>3. \/ pc[q] = "ex_count" /\ seen[q].req.veh = req[r].veh
      \/ \E s \in ActiveOf(req[r].veh) : RowHeldBy(s, q)
  BY <1>1, <1>2 DEF InsertWaits, IndexWaits
<1>4. ASSUME NEW s \in ActiveOf(req[r].veh), RowHeldBy(s, q)
      PROVE  pc[q] = "ex_count" /\ seen[q].req.veh = req[r].veh
  BY <1>4 DEF RowHeldBy, ActiveOf, RequestsAgreeWithTables, ExitsKnowTheirSession,
              ExitKnowsItsSession, ExitPlaces
<1> QED
  BY <1>3, <1>4

\* A set of requests that wait for each other contains an overridden check-in,
\* an emergency exit or a re-entry: without them the counter comes before the
\* lot, the lot before the insert, and a row before the counter.
LEMMA InversionNeeded ==
  ASSUME RequestsAgreeWithTables, CheckInKeepsCounter
  PROVE  DeadlockNeedsInversion
<1> SUFFICES ASSUME NEW D \in SUBSET Slots, Deadlocked(D),
                    \A r \in D : /\ pc[r] \in EntryPlaces => ~req[r].review
                                 /\ pc[r] # "em_flush"
                                 /\ pc[r] # "ci_insert"
             PROVE  FALSE
  BY InsertWaitsForExit DEF DeadlockNeedsInversion
<1>1. \A q \in D : pc[q] \in {"ci_ready", "ci_count", "ex_count"}
  BY DeadlockPlaces
<1>2. \A q \in D : pc[q] \in {"ci_ready", "ci_count"} => ctrLock = q
  BY <1>1 DEF CheckInKeepsCounter, EntryPlaces
<1>3. \A q \in D : pc[q] # "ci_count"
  <2> SUFFICES ASSUME NEW q \in D, pc[q] = "ci_count" PROVE FALSE
    OBVIOUS
  <2>1. WaitsFor(q) = {ctrLock} \ {NoSlot, q}
    BY DEF WaitsFor
  <2> QED
    BY <1>2, <2>1 DEF Deadlocked
<1>4. \A q \in D : pc[q] # "ci_ready"
  <2> SUFFICES ASSUME NEW q \in D, pc[q] = "ci_ready" PROVE FALSE
    OBVIOUS
  <2>1. lotLock \in D
    BY DEF Deadlocked, WaitsFor
  <2>2. pc[lotLock] \in {"ci_insert", "ci_count", "ci_commit"}
    BY <2>1, Tokens DEF RequestsAgreeWithTables, LocksBelongToRequests
  <2> QED
    BY <1>1, <1>3, <2>1, <2>2
<1>5. PICK q \in D : pc[q] = "ex_count"
  BY <1>1, <1>3, <1>4 DEF Deadlocked
<1>6. ctrLock \in D
  <2>1. WaitsFor(q) = {ctrLock} \ {NoSlot, q}
    BY <1>5 DEF WaitsFor
  <2> QED
    BY <2>1 DEF Deadlocked
<1>7. pc[ctrLock] # "ex_count"
  BY <1>6, Tokens DEF RequestsAgreeWithTables, LocksBelongToRequests
<1> QED
  BY <1>1, <1>3, <1>4, <1>6, <1>7

\* However many workers serve requests, a deadlock takes an overridden check-in,
\* an emergency exit or a re-entry during the exit.
THEOREM OnlyInversionsDeadlock == Spec => []DeadlockNeedsInversion
<1>1. RequestsAgreeWithTables /\ CheckInKeepsCounter => DeadlockNeedsInversion
  BY InversionNeeded
<1> QED
  BY <1>1, AlwaysAgrees, CounterStaysWithCheckIn, PTL
=============================================================================
