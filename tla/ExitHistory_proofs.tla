------------------------- MODULE ExitHistory_proofs -------------------------
(***************************************************************************)
(* What sessions and counter keep however exits overlap: proofs that every *)
(* behaviour implements ParkingPromise, which promises less of a session   *)
(* that two requests have let out at the same time, that the counter lacks *)
(* no more than such exits and the adjustments took off, and that the      *)
(* vehicles inside exceed the capacity by no more than that.  They hold    *)
(* for any number of workers, sessions, vehicles, keys, fees and exits.    *)
(***************************************************************************)
EXTENDS ParkingSessions_proofs, ExitHistory
-----------------------------------------------------------------------------
(* The kinds of steps and what they leave alone.                           *)

\* What a step does to the sessions, their exits and their payments: nothing, a
\* committed entry, a session left waiting for its payment, or an exit.
Quiet == UNCHANGED <<rows, paid, out>>

Entered(r) ==
  /\ pc[r] = "ci_commit"
  /\ rows' = [rows EXCEPT ![sid[r]] = NewSession(req[r])]
  /\ occupied' = Incremented(occupied)
  /\ Finish(r, "CREATED")
  /\ UNCHANGED <<paid, out>>

Waits(r) ==
  /\ pc[r] = "co_pend"
  /\ rows' = WriteBack(r)
  /\ Finish(r, "PENDING")
  /\ UNCHANGED <<occupied, paid, out>>

Left(r) ==
  /\ pc[r] \in {"ex_count", "em_flush"}
  /\ rows' = WriteBack(r)
  /\ occupied' = Decremented(occupied)
  /\ out' = [out EXCEPT ![sid[r]] = @ + 1]
  /\ paid' = paid \/ paid' = [paid EXCEPT ![sid[r]] = @ + PaymentEvents(r)]
  /\ pc[r] = "ex_count" => paid' = [paid EXCEPT ![sid[r]] = @ + PaymentEvents(r)]
  /\ Finish(r, "CLOSED")

\* Where a quiet step can bring a request that leaves.
OnTheWayOut(r) ==
  pc'[r] \in ExitPlaces =>
    \/ /\ pc[r] \in ExitPlaces /\ sid'[r] = sid[r] /\ seen'[r] = seen[r] /\ want'[r] = want[r]
       /\ pc'[r] \in {"em_count", "em_flush"} => pc[r] \in {"em_count", "em_flush"}
    \/ /\ sid'[r] \in Inside /\ seen'[r] = rows[sid'[r]]
       /\ pc'[r] \in {"em_count", "em_flush"} => want'[r].fee = 0

\* A request that loads an open session is on its way out with a fresh copy.
LEMMA LoadIsFresh ==
  ASSUME TypeOK, NEW r \in Slots, NEW s \in Inside, NEW new, NEW place,
         Load(r, s, new, place), place \in {"em_count", "em_flush"} => new.fee = 0
  PROVE  OnTheWayOut(r)
<1>1. sid'[r] = s /\ seen'[r] = rows[s] /\ want'[r] = new /\ pc'[r] = place
  BY DEF Load, Goto, TypeOK
<1> QED
  BY <1>1 DEF OnTheWayOut

\* A request that ends is not on its way out.
LEMMA EndIsIdle ==
  ASSUME TypeOK, NEW r \in Slots, NEW code, Finish(r, code)
  PROVE  pc'[r] = "idle" /\ OnTheWayOut(r)
<1>1. pc'[r] = "idle"
  BY DEF Finish, TypeOK
<1> QED
  BY <1>1 DEF OnTheWayOut, ExitPlaces

\* A request that moves between the places of an entry is not on its way out.
LEMMA MoveIsInside ==
  ASSUME TypeOK, NEW r \in Slots, NEW place, Goto(r, place), place \notin ExitPlaces
  PROVE  OnTheWayOut(r)
BY DEF OnTheWayOut, Goto, TypeOK

\* The arrival of a request changes no session; what it loads is fresh.
LEMMA ArrivalKind ==
  ASSUME TypeOK, NEW r \in Slots, Arrive(r)
  PROVE  Quiet /\ UNCHANGED <<occupied>> /\ OnTheWayOut(r)
<1>1. Quiet /\ UNCHANGED <<occupied>>
  BY DEF Arrive, CheckIn, Replay, CheckOut, RecordPayment, EmergencyExit, Reconcile,
         Fail, Quiet, table
<1>2. CASE \E code : Finish(r, code)
  BY <1>1, <1>2, EndIsIdle
<1>3. CASE \E place \in {"ci_access", "co_find", "rc_lock"} : Goto(r, place)
  BY <1>1, <1>3, MoveIsInside DEF ExitPlaces
<1>4. CASE RecordPayment(r)
  BY <1>1, <1>4, LoadIsFresh DEF RecordPayment
<1>5. CASE EmergencyExit(r)
  <2>1. PICK s \in Inside :
          Load(r, s, Completed(rows[s], 0, rows[s].notes \cup {Evacuation}), "em_count")
    BY <1>5 DEF EmergencyExit
  <2>2. rows[s] \in Row
    BY DEF Inside, Rows, TypeOK
  <2>3. Completed(rows[s], 0, rows[s].notes \cup {Evacuation}).fee = 0
    BY <2>2 DEF Completed, Row
  <2> QED
    BY <1>1, <2>1, <2>3, LoadIsFresh
<1> QED
  BY <1>2, <1>3, <1>4, <1>5 DEF Arrive, CheckIn, Replay, CheckOut, Reconcile, Fail

\* Every step of a served request is quiet, an entry, a wait for payment or an exit.
LEMMA StepKind ==
  ASSUME RequestsAgreeWithTables, NEW r \in Slots, Step(r)
  PROVE  \/ Quiet /\ OnTheWayOut(r) /\ (occupied' = occupied \/ pc[r] = "rc_lock")
         \/ Entered(r) \/ Waits(r) \/ Left(r)
<1> DEFINE Silent == Quiet /\ OnTheWayOut(r) /\ (occupied' = occupied \/ pc[r] = "rc_lock")
<1>1. TypeOK
  BY DEF RequestsAgreeWithTables
<1>2. ASSUME NEW code, Fail(r, code) PROVE Silent
  BY <1>1, <1>2, EndIsIdle DEF Fail, Quiet, table
<1>3. ASSUME NEW place, Goto(r, place), place \notin ExitPlaces,
             UNCHANGED <<rows, occupied, paid, out>>
      PROVE  Silent
  BY <1>1, <1>3, MoveIsInside DEF Quiet
<1>4. CASE AccessControl(r)
  BY <1>2, <1>3, <1>4 DEF AccessControl, table, ExitPlaces
<1>5. CASE DuplicateCheck(r) \/ RequireReady(r)
  BY <1>2, <1>3, <1>5 DEF DuplicateCheck, RequireReady, table, ExitPlaces
<1>6. CASE InsertSession(r) \/ LockCounterForEntry(r)
  BY <1>2, <1>3, <1>6 DEF InsertSession, LockCounterForEntry, table, ExitPlaces
<1>7. CASE ExplainConflict(r)
  BY <1>1, <1>2, <1>7, EndIsIdle DEF ExplainConflict, Replay, Quiet, table
<1>8. CASE CommitEntry(r)
  BY <1>2, <1>8 DEF CommitEntry, Entered
<1>9. CASE FindSession(r)
  <2>1. CASE Fail(r, "SESSION_NOT_FOUND")
    BY <1>2, <2>1
  <2>2. CASE /\ \E s \in ActiveOf(req[r].veh) : \E new, place :
                  Load(r, s, new, place) /\ place \in {"ex_flush", "co_pend"}
             /\ UNCHANGED table
    BY <1>1, <2>2, LoadIsFresh DEF ActiveOf, Inside, Quiet, table
  <2> QED
    BY <1>9, <2>1, <2>2 DEF FindSession
<1>10. CASE AwaitPayment(r)
  BY <1>2, <1>10 DEF AwaitPayment, ReopeningRefused, Waits
<1>11. CASE FlushExit(r) \/ LockCounterForEmergency(r)
  <2>1. CASE \E code : Fail(r, code)
    BY <1>2, <2>1
  <2>2. CASE /\ UNCHANGED <<table, sid, seen, want>>
             /\ \/ pc[r] = "ex_flush" /\ Goto(r, "ex_count")
                \/ pc[r] = "em_count" /\ Goto(r, "em_flush")
    BY <1>1, <2>2 DEF OnTheWayOut, Goto, TypeOK, ExitPlaces, Quiet, table
  <2> QED
    BY <1>11, <2>1, <2>2 DEF FlushExit, ReopeningRefused, LockCounterForEmergency, local
<1>12. CASE CommitExit(r) \/ CommitEmergency(r)
  BY <1>12 DEF CommitExit, CommitEmergency, Left
<1>13. CASE CommitReconcile(r)
  BY <1>1, <1>13, EndIsIdle DEF CommitReconcile, Quiet
<1> QED
  BY <1>4, <1>5, <1>6, <1>7, <1>8, <1>9, <1>10, <1>11, <1>12, <1>13 DEF Step
\* A served request leaves the other workers alone.
Untouched(r) ==
  \A q \in Slots \ {r} : /\ pc'[q] = pc[q] /\ req'[q] = req[q] /\ sid'[q] = sid[q]
                          /\ seen'[q] = seen[q] /\ want'[q] = want[q]

\* The end of a request touches no other one.
LEMMA EndTouchesNobody ==
  ASSUME TypeOK, NEW r \in Slots, NEW code, Finish(r, code)
  PROVE  Untouched(r) /\ pc'[r] = "idle"
BY DEF Untouched, Finish, Forget, TypeOK

\* Nor does a request that moves on with what it has loaded.
LEMMA MoveTouchesNobody ==
  ASSUME TypeOK, NEW r \in Slots, NEW place, Goto(r, place), UNCHANGED <<req, sid, seen, want>>
  PROVE  /\ Untouched(r)
         /\ pc'[r] = place /\ req'[r] = req[r] /\ seen'[r] = seen[r]
BY DEF Untouched, Goto, TypeOK

\* Nor does a request that loads a session.
LEMMA LoadTouchesNobody ==
  ASSUME TypeOK, NEW r \in Slots, NEW s, NEW new, NEW place, Load(r, s, new, place),
         UNCHANGED req
  PROVE  Untouched(r) /\ pc'[r] = place /\ seen'[r] = rows[s]
BY DEF Untouched, Load, Goto, TypeOK

\* Whoever arrives leaves the others alone.
LEMMA ArrivalTouchesNobody ==
  ASSUME TypeOK, NEW r \in Slots, Arrive(r)
  PROVE  Untouched(r)
<1>1. CASE \E code : Finish(r, code)
  BY <1>1, EndTouchesNobody
<1>2. CASE \/ \E e \in CheckInRequests : CheckIn(r, e)
           \/ \E e \in CheckOutRequests : CheckOut(r, e)
  <2>1. CASE \E place, e : /\ Goto(r, place) /\ req' = [req EXCEPT ![r] = e]
                           /\ UNCHANGED <<sid, seen, want>>
    BY <2>1 DEF Untouched, Goto, TypeOK
  <2> QED
    BY <1>1, <1>2, <2>1 DEF CheckIn, Replay, CheckOut, Fail
<1>3. CASE RecordPayment(r) \/ EmergencyExit(r)
  BY <1>3, LoadTouchesNobody DEF RecordPayment, EmergencyExit
<1>4. CASE Reconcile(r)
  BY <1>4, MoveTouchesNobody DEF Reconcile
<1> QED
  BY <1>2, <1>3, <1>4 DEF Arrive

\* Whoever is served leaves the others alone.
LEMMA StepTouchesNobody ==
  ASSUME TypeOK, NEW r \in Slots, Step(r)
  PROVE  Untouched(r)
<1>1. ASSUME NEW code, Finish(r, code) PROVE Untouched(r)
  BY <1>1, EndTouchesNobody
<1>2. ASSUME NEW place, Goto(r, place), UNCHANGED <<req, sid, seen, want>> PROVE Untouched(r)
  BY <1>2, MoveTouchesNobody
<1>3. CASE AccessControl(r) \/ DuplicateCheck(r) \/ RequireReady(r)
  BY <1>1, <1>2, <1>3 DEF AccessControl, DuplicateCheck, RequireReady, Fail, local
<1>4. CASE InsertSession(r)
  BY <1>4 DEF InsertSession, Goto, Untouched, local, TypeOK
<1>5. CASE ExplainConflict(r) \/ LockCounterForEntry(r) \/ CommitEntry(r)
  BY <1>1, <1>2, <1>5 DEF ExplainConflict, Replay, LockCounterForEntry, CommitEntry, Fail
<1>6. CASE FindSession(r)
  BY <1>1, <1>6, LoadTouchesNobody DEF FindSession, Fail
<1>7. CASE AwaitPayment(r) \/ CommitExit(r) \/ CommitEmergency(r) \/ CommitReconcile(r)
  BY <1>1, <1>7 DEF AwaitPayment, ReopeningRefused, Fail, CommitExit, CommitEmergency,
                    CommitReconcile
<1>8. CASE FlushExit(r) \/ LockCounterForEmergency(r)
  BY <1>1, <1>2, <1>8 DEF FlushExit, ReopeningRefused, Fail, LockCounterForEmergency, local
<1> QED
  BY <1>3, <1>4, <1>5, <1>6, <1>7, <1>8 DEF Step

\* Every step of the system is of one of these kinds.
LEMMA NextKind ==
  ASSUME RequestsAgreeWithTables, [Next]_vars
  PROVE  \/ \E r \in Slots : Quiet /\ OnTheWayOut(r) /\ Untouched(r)
         \/ Quiet /\ UNCHANGED <<pc, local>>
         \/ \E r \in Slots : Untouched(r) /\ (Entered(r) \/ Waits(r) \/ Left(r))
<1>1. TypeOK
  BY DEF RequestsAgreeWithTables
<1>2. ASSUME NEW r \in Slots, Refuse(r) \/ ConnectionLost(r) \/ DeadlockVictim(r)
      PROVE  Quiet /\ OnTheWayOut(r) /\ Untouched(r)
  BY <1>1, <1>2, EndIsIdle, EndTouchesNobody
     DEF Refuse, ConnectionLost, DeadlockVictim, Fail, Quiet, table
<1>3. ASSUME \/ \E d \in AdjustDeltas : AdjustCounter(d)
             \/ \E c \in SettingsChoices : WriteSettings(c)
             \/ UNCHANGED vars
      PROVE  Quiet /\ UNCHANGED <<pc, local>>
  BY <1>3 DEF AdjustCounter, WriteSettings, vars, table, Quiet
<1> QED
  BY <1>1, <1>2, <1>3, ArrivalKind, ArrivalTouchesNobody, StepKind, StepTouchesNobody DEF Next

\* An entry commits the session it has inserted, which is free.
LEMMA EnteredRow ==
  ASSUME RequestsAgreeWithTables, NEW r \in Slots, Entered(r)
  PROVE  /\ sid[r] \in SessionIds /\ rows[sid[r]].status = "NONE"
         /\ req[r] \in Request /\ ActiveOf(req[r].veh) = {}
         /\ rows'[sid[r]].status = "PARKED" /\ rows'[sid[r]].req = req[r]
         /\ \A s \in SessionIds \ {sid[r]} : rows'[s] = rows[s]
         /\ sid[r] \notin Inside /\ Inside' = Inside \cup {sid[r]}
         /\ pc'[r] = "idle"
<1>1. /\ req[r] \in Request
      /\ sid[r] \in SessionIds /\ rows[sid[r]].status = "NONE"
      /\ ActiveOf(req[r].veh) = {}
  BY DEF Entered, RequestsAgreeWithTables, ExitsKnowTheirSession, ExitKnowsItsSession,
         EntryPlaces, InsertsAreSerialized, InsertIsSerialized
<1>2. /\ rows'[sid[r]].status = "PARKED" /\ rows'[sid[r]].req = req[r]
      /\ \A s \in SessionIds \ {sid[r]} : rows'[s] = rows[s]
  BY <1>1 DEF Entered, RequestsAgreeWithTables, TypeOK, NewSession
<1>3. sid[r] \notin Inside /\ Inside' = Inside \cup {sid[r]}
  BY <1>1, <1>2 DEF Inside, Rows, Active
<1>4. pc'[r] = "idle"
  BY EndIsIdle DEF Entered, RequestsAgreeWithTables
<1> QED
  BY <1>1, <1>2, <1>3, <1>4
-----------------------------------------------------------------------------
-----------------------------------------------------------------------------
(* The invariant of the exits.                                             *)

\* What is true of a session that no two requests have let out at the same time: it
\* is closed by one exit, with its payment event if it owed a fee, and the request
\* that works on it has a fresh copy of an open session.
ExitAgrees(s) ==
  /\ out[s] = IF rows[s].status = "COMPLETED" THEN 1 ELSE 0
  /\ rows[s].status = "COMPLETED" /\ rows[s].fee > 0 => paid[s] > 0
  /\ \A r \in LoadedBy(s) :
       /\ s \in Inside /\ seen[r] = rows[s]
       /\ pc[r] \in {"em_count", "em_flush"} => want[r].fee = 0

\* The inductive invariant: the history knows the shared sessions, every request has
\* loaded its session while it was open, and all other sessions agree with it.
ExitsAgree ==
  /\ Shared \subseteq shared /\ shared \subseteq Rows
  /\ \A r \in Slots : pc[r] \in ExitPlaces => seen[r].status \in Active
  /\ \A s \in SessionIds \ shared : ExitAgrees(s)

\* What a request that leaves writes to its session: COMPLETED by an exit; for one
\* that waits for its payment, PAYMENT_PENDING or what it was.
LEMMA LeftRow ==
  ASSUME RequestsAgreeWithTables, ExitsAgree, NEW r \in Slots, Waits(r) \/ Left(r)
  PROVE  /\ pc[r] \in ExitPlaces /\ r \in LoadedBy(sid[r])
         /\ sid[r] \in SessionIds /\ sid[r] \in Rows
         /\ rows'[sid[r]].req = rows[sid[r]].req
         /\ \A s \in SessionIds \ {sid[r]} : rows'[s] = rows[s]
         /\ Left(r) => /\ rows'[sid[r]].status = "COMPLETED"
                       /\ Inside' = Inside \ {sid[r]}
         /\ Waits(r) => /\ rows'[sid[r]].status \in {rows[sid[r]].status, "PAYMENT_PENDING"}
                        /\ Inside' = Inside \/ Inside' = Inside \cup {sid[r]}
         /\ pc'[r] = "idle"
<1>1. pc[r] \in ExitPlaces /\ rows' = WriteBack(r)
  BY DEF Waits, Left, ExitPlaces
<1>2. /\ sid[r] \in SessionIds /\ sid[r] \in Rows
      /\ rows'[sid[r]].req = rows[sid[r]].req
      /\ rows'[sid[r]].status \in {rows[sid[r]].status, want[r].status}
      /\ \A s \in SessionIds \ {sid[r]} : rows'[s] = rows[s]
  BY <1>1, WriteBackRow
<1>3. want[r].status = IF pc[r] = "co_pend" THEN "PAYMENT_PENDING" ELSE "COMPLETED"
  BY <1>1 DEF RequestsAgreeWithTables, ExitsKnowTheirSession, ExitKnowsItsSession
<1>4. rows \in [SessionIds -> Row]
  BY DEF RequestsAgreeWithTables, TypeOK
<1>5. rows'[sid[r]].status = Written(seen[r].status, want[r].status, rows[sid[r]].status)
  BY <1>1, <1>2, <1>4 DEF WriteBack
<1>6. seen[r].status # "COMPLETED"
  BY <1>1 DEF ExitsAgree, Active
<1>7. ASSUME Left(r)
      PROVE  rows'[sid[r]].status = "COMPLETED" /\ Inside' = Inside \ {sid[r]}
  <2>1. rows'[sid[r]].status = "COMPLETED"
    BY <1>3, <1>5, <1>6, <1>7 DEF Left, Written
  <2> QED
    BY <1>2, <2>1 DEF Inside, Rows, Active
<1>8. ASSUME Waits(r)
      PROVE  /\ rows'[sid[r]].status \in {rows[sid[r]].status, "PAYMENT_PENDING"}
             /\ Inside' = Inside \/ Inside' = Inside \cup {sid[r]}
  <2>1. rows'[sid[r]].status \in {rows[sid[r]].status, "PAYMENT_PENDING"}
    BY <1>2, <1>3, <1>8 DEF Waits
  <2> QED
    BY <1>2, <2>1 DEF Inside, Rows, Active
<1>9. pc'[r] = "idle"
  BY EndIsIdle DEF RequestsAgreeWithTables, Waits, Left
<1> QED
  BY <1>1, <1>2, <1>7, <1>8, <1>9 DEF LoadedBy

\* If its session is not shared, it writes what it wants, on an open session.
LEMMA FreshRow ==
  ASSUME RequestsAgreeWithTables, ExitsAgree, NEW r \in Slots, Waits(r) \/ Left(r),
         sid[r] \notin shared
  PROVE  /\ sid[r] \in Inside /\ ExitAgrees(sid[r])
         /\ LoadedBy(sid[r]) = {r}
         /\ rows'[sid[r]].status = IF Left(r) THEN "COMPLETED" ELSE "PAYMENT_PENDING"
         /\ rows'[sid[r]].fee = want[r].fee
<1>1. /\ pc[r] \in ExitPlaces /\ r \in LoadedBy(sid[r]) /\ sid[r] \in SessionIds
      /\ Left(r) => rows'[sid[r]].status = "COMPLETED"
      /\ rows' = WriteBack(r)
  BY LeftRow DEF Waits, Left
<1>2. ExitAgrees(sid[r]) /\ sid[r] \in Inside /\ seen[r] = rows[sid[r]]
  BY <1>1 DEF ExitsAgree, ExitAgrees
<1>3. LoadedBy(sid[r]) = {r}
  BY <1>1 DEF ExitsAgree, Shared
<1>4. rows \in [SessionIds -> Row]
  BY DEF RequestsAgreeWithTables, TypeOK
<1>5. /\ rows'[sid[r]].status = Written(seen[r].status, want[r].status, rows[sid[r]].status)
      /\ rows'[sid[r]].fee = Written(seen[r].fee, want[r].fee, rows[sid[r]].fee)
  BY <1>1, <1>4 DEF WriteBack
<1>6. /\ rows'[sid[r]].status = want[r].status
      /\ rows'[sid[r]].fee = want[r].fee
  BY <1>2, <1>5 DEF Written
<1>7. want[r].status = IF pc[r] = "co_pend" THEN "PAYMENT_PENDING" ELSE "COMPLETED"
  BY <1>1 DEF RequestsAgreeWithTables, ExitsKnowTheirSession, ExitKnowsItsSession
<1> QED
  BY <1>1, <1>2, <1>3, <1>6, <1>7 DEF Waits, Left

\* A request that ends gives its session back; nobody else loads one meanwhile.
LEMMA EndUnloads ==
  ASSUME NEW r \in Slots, Untouched(r), pc'[r] = "idle"
  PROVE  /\ \A s \in SessionIds : LoadedBy(s)' = LoadedBy(s) \ {r}
         /\ Shared' \subseteq Shared
         /\ \A s \in SessionIds : \A q \in LoadedBy(s)' :
              /\ q \in LoadedBy(s) /\ q # r
              /\ seen'[q] = seen[q] /\ want'[q] = want[q] /\ pc'[q] = pc[q]
<1>1. \A s \in SessionIds : LoadedBy(s)' = LoadedBy(s) \ {r}
  BY DEF LoadedBy, Untouched, ExitPlaces
<1> QED
  BY <1>1 DEF Shared, Untouched, LoadedBy

\* The copies that the others hold of a session stay fresh while its row stays.
LEMMA SameRowAgrees ==
  ASSUME NEW s \in SessionIds, ExitAgrees(s), NEW r \in Slots, Untouched(r), pc'[r] = "idle",
         rows'[s] = rows[s], out'[s] = out[s], paid'[s] = paid[s]
  PROVE  ExitAgrees(s)'
<1>1. s \in Inside => s \in Inside'
  BY DEF Inside, Rows
<1> QED
  BY <1>1, EndUnloads DEF ExitAgrees

\* A quiet step keeps the invariant: what a request loads is committed and open.
LEMMA QuietKeeps ==
  ASSUME ExitsAgree, Remember, NEW r \in Slots, Quiet, OnTheWayOut(r), Untouched(r)
  PROVE  ExitsAgree'
<1>1. Inside' = Inside /\ Rows' = Rows
  BY DEF Quiet, Inside, Rows
<1>2. ASSUME pc'[r] \in ExitPlaces, pc[r] \notin ExitPlaces \/ sid'[r] # sid[r]
      PROVE  sid'[r] \in Inside /\ seen'[r] = rows[sid'[r]]
  BY <1>2 DEF OnTheWayOut
<1>3. \A s \in SessionIds : \A q \in LoadedBy(s)' : q \in LoadedBy(s) \/ (q = r /\ s \in Inside)
  BY <1>2 DEF LoadedBy, Untouched
<1>4. Shared' \subseteq shared' /\ shared' \subseteq Rows'
  <2>1. ASSUME NEW s \in Shared' PROVE s \in Rows
    <3>1. PICK p, q \in LoadedBy(s)' : p # q
      BY <2>1 DEF Shared
    <3>2. s \in Inside \/ s \in Shared
      BY <1>3, <2>1, <3>1 DEF Shared
    <3> QED
      BY <3>2 DEF ExitsAgree, Inside
  <2> QED
    BY <1>1, <2>1 DEF ExitsAgree, Remember
<1>5. ASSUME NEW q \in Slots, pc'[q] \in ExitPlaces PROVE seen'[q].status \in Active
  <2>1. CASE q # r
    BY <1>5, <2>1 DEF ExitsAgree, Untouched
  <2>2. CASE q = r
    BY <1>5, <2>2 DEF ExitsAgree, OnTheWayOut, Inside
  <2> QED
    BY <2>1, <2>2
<1>6. ASSUME NEW s \in SessionIds \ shared' PROVE ExitAgrees(s)'
  <2>1. ExitAgrees(s)
    BY <1>6 DEF ExitsAgree, Remember
  <2>2. ASSUME NEW q \in LoadedBy(s)'
        PROVE  /\ s \in Inside /\ seen'[q] = rows[s]
               /\ pc'[q] \in {"em_count", "em_flush"} => want'[q].fee = 0
    <3>1. CASE q # r
      BY <2>1, <2>2, <3>1 DEF ExitAgrees, LoadedBy, Untouched
    <3>2. CASE q = r
      BY <2>1, <2>2, <3>2 DEF ExitAgrees, LoadedBy, OnTheWayOut
    <3> QED
      BY <3>1, <3>2
  <2> QED
    BY <1>1, <2>1, <2>2 DEF ExitAgrees, Quiet
<1> QED
  BY <1>4, <1>5, <1>6 DEF ExitsAgree

\* A request that ends keeps the invariant if it keeps it for the session it wrote.
LEMMA EndKeeps ==
  ASSUME ExitsAgree, Remember, NEW r \in Slots, Untouched(r), pc'[r] = "idle",
         NEW t \in SessionIds,
         \A s \in SessionIds \ {t} :
           rows'[s] = rows[s] /\ out'[s] = out[s] /\ paid'[s] = paid[s],
         rows'[t].status # "NONE",
         t \notin shared => ExitAgrees(t)'
  PROVE  ExitsAgree'
<1>1. shared' = shared
  BY EndUnloads DEF ExitsAgree, Remember
<1>2. Rows \subseteq Rows'
  BY DEF Rows
<1>3. \A q \in Slots : pc'[q] \in ExitPlaces => seen'[q].status \in Active
  BY DEF ExitsAgree, Untouched, ExitPlaces
<1>4. ASSUME NEW s \in SessionIds \ shared PROVE ExitAgrees(s)'
  BY <1>4, SameRowAgrees DEF ExitsAgree
<1>5. Shared' \subseteq shared' /\ shared' \subseteq Rows'
  BY <1>1, <1>2, EndUnloads DEF ExitsAgree
<1> QED
  BY <1>1, <1>3, <1>4, <1>5 DEF ExitsAgree

\* An entry keeps the invariant: the new session has no exit yet.
LEMMA EnteredKeeps ==
  ASSUME RequestsAgreeWithTables, ExitsAgree, Remember, NEW r \in Slots,
         Untouched(r), Entered(r)
  PROVE  ExitsAgree'
<1>1. /\ sid[r] \in SessionIds /\ rows[sid[r]].status = "NONE"
      /\ rows'[sid[r]].status = "PARKED" /\ pc'[r] = "idle"
      /\ \A s \in SessionIds \ {sid[r]} : rows'[s] = rows[s]
      /\ out' = out /\ paid' = paid
  BY EnteredRow DEF Entered
<1>2. sid[r] \notin shared /\ LoadedBy(sid[r]) = {}
  BY <1>1 DEF ExitsAgree, Rows, LoadedBy, RequestsAgreeWithTables, ExitsKnowTheirSession,
              ExitKnowsItsSession
<1>3. out[sid[r]] = 0
  BY <1>1, <1>2 DEF ExitsAgree, ExitAgrees
<1>4. PICK t \in SessionIds : t = sid[r]
  BY <1>1
<1>5. LoadedBy(t)' = {}
  BY <1>1, <1>2, <1>4, EndUnloads
<1>6. ExitAgrees(t)'
  BY <1>1, <1>3, <1>4, <1>5 DEF ExitAgrees
<1> QED
  BY <1>1, <1>4, <1>6, EndKeeps

\* A session that is not shared and waits for its payment has no exit yet.
LEMMA WaitsKeeps ==
  ASSUME RequestsAgreeWithTables, ExitsAgree, Remember, NEW r \in Slots,
         Untouched(r), Waits(r)
  PROVE  ExitsAgree'
<1>1. /\ sid[r] \in SessionIds /\ rows[sid[r]].status # "NONE" /\ pc'[r] = "idle"
      /\ rows'[sid[r]].status \in {rows[sid[r]].status, "PAYMENT_PENDING"}
      /\ \A s \in SessionIds \ {sid[r]} : rows'[s] = rows[s]
      /\ out' = out /\ paid' = paid /\ ~Left(r)
  BY LeftRow DEF Waits, Left, Rows
<1>2. PICK t \in SessionIds : t = sid[r]
  BY <1>1
<1>3. ASSUME t \notin shared PROVE ExitAgrees(t)'
  <2>1. /\ sid[r] \in Inside /\ ExitAgrees(sid[r])
        /\ LoadedBy(sid[r]) = {r}
        /\ rows'[sid[r]].status = "PAYMENT_PENDING"
    BY <1>1, <1>2, <1>3, FreshRow
  <2>2. LoadedBy(t)' = {} /\ out[t] = 0
    BY <1>1, <1>2, <2>1, EndUnloads DEF ExitAgrees, Inside, Active
  <2> QED
    BY <1>1, <1>2, <2>1, <2>2 DEF ExitAgrees
<1> QED
  BY <1>1, <1>2, <1>3, EndKeeps

\* An exit of a session that is not shared is its first, and pays the fee it writes.
LEMMA LeftKeeps ==
  ASSUME RequestsAgreeWithTables, ExitsAgree, Remember, NEW r \in Slots,
         Untouched(r), Left(r)
  PROVE  ExitsAgree'
<1>1. /\ sid[r] \in SessionIds /\ pc'[r] = "idle"
      /\ rows'[sid[r]].status = "COMPLETED"
      /\ \A s \in SessionIds \ {sid[r]} : rows'[s] = rows[s]
  BY LeftRow
<1>2. paid \in [SessionIds -> Nat] /\ out \in [SessionIds -> Nat] /\ PaymentEvents(r) \in Nat
  BY DEF RequestsAgreeWithTables, TypeOK, PaymentEvents
<1>3. /\ out'[sid[r]] = out[sid[r]] + 1
      /\ \A s \in SessionIds \ {sid[r]} : out'[s] = out[s] /\ paid'[s] = paid[s]
  BY <1>1, <1>2 DEF Left
<1>4. PICK t \in SessionIds : t = sid[r]
  BY <1>1
<1>5. ASSUME t \notin shared PROVE ExitAgrees(t)'
  <2>1. /\ sid[r] \in Inside /\ ExitAgrees(sid[r])
        /\ LoadedBy(sid[r]) = {r}
        /\ rows'[sid[r]].fee = want[r].fee
    BY <1>4, <1>5, FreshRow
  <2>2. LoadedBy(t)' = {} /\ out[t] = 0
    BY <1>1, <1>4, <2>1, EndUnloads DEF ExitAgrees, Inside, Active
  <2>3. want[r].fee > 0 => paid'[sid[r]] > 0
    <3>1. CASE pc[r] = "em_flush"
      BY <2>1, <3>1 DEF ExitAgrees
    <3>2. CASE pc[r] = "ex_count"
      <4>1. paid'[sid[r]] = paid[sid[r]] + PaymentEvents(r)
        BY <1>1, <1>2, <3>2 DEF Left
      <4>2. want[r].fee > 0 => PaymentEvents(r) = 1
        BY DEF PaymentEvents
      <4> QED
        BY <1>1, <1>2, <4>1, <4>2
    <3> QED
      BY <3>1, <3>2 DEF Left
  <2> QED
    BY <1>1, <1>3, <1>4, <2>1, <2>2, <2>3 DEF ExitAgrees
<1> QED
  BY <1>1, <1>3, <1>4, <1>5, EndKeeps

\* Every step keeps the invariant.
LEMMA ExitsAgreeKeeps ==
  ASSUME RequestsAgreeWithTables, ExitsAgree, [HistoryNext]_allVars
  PROVE  ExitsAgree'
<1>1. CASE UNCHANGED allVars
  BY <1>1 DEF allVars, vars, table, local, history, ExitsAgree, ExitAgrees, Shared, LoadedBy,
              Inside, Rows
<1>2. CASE HistoryNext
  <2>1. Remember /\ [Next]_vars
    BY <1>2 DEF HistoryNext
  <2>2. CASE Quiet /\ UNCHANGED <<pc, local>>
    BY <2>1, <2>2 DEF Remember, Quiet, local, ExitsAgree, ExitAgrees, Shared, LoadedBy,
                      Inside, Rows
  <2> QED
    BY <2>1, <2>2, NextKind, QuietKeeps, EnteredKeeps, WaitsKeeps, LeftKeeps
<1> QED
  BY <1>1, <1>2

\* The history only looks on.
LEMMA HistoryLooksOn == HistorySpec => Spec
<1>1. HistoryInit => Init
  BY DEF HistoryInit
<1>2. [HistoryNext]_allVars => [Next]_vars
  BY DEF HistoryNext, allVars
<1> QED
  BY <1>1, <1>2, PTL DEF HistorySpec, Spec

\* Unless two requests let it out at the same time, a session is closed once, paid if
\* it owed a fee, by a request that worked on what is committed, however many workers
\* serve entries, exits and adjustments meanwhile.
THEOREM ExitsAlwaysAgree == HistorySpec => []ExitsAgree
<1>1. HistoryInit => ExitsAgree
  BY DEF HistoryInit, Init, ExitsAgree, ExitAgrees, Shared, LoadedBy, NoRow, ExitPlaces
<1>2. RequestsAgreeWithTables /\ ExitsAgree /\ [HistoryNext]_allVars => ExitsAgree'
  BY ExitsAgreeKeeps
<1> QED
  BY <1>1, <1>2, HistoryLooksOn, AlwaysAgrees, PTL DEF HistorySpec

\* A session is closed a second time only if two requests have had it loaded at the
\* same time: no retry, lost connection or repeated key does it otherwise.  The run
\* checkout_retry shows that two such requests do.
THEOREM OneExitUnlessShared ==
  HistorySpec => [](\A s \in SessionIds : out[s] > 1 => s \in shared)
<1>1. ExitsAgree => \A s \in SessionIds : out[s] > 1 => s \in shared
  BY DEF ExitsAgree, ExitAgrees
<1> QED
  BY <1>1, ExitsAlwaysAgree, PTL
-----------------------------------------------------------------------------
(* The promise.                                                            *)

\* The state of ParkingPromise that ExitHistory maps to.
insideOf == [s \in SessionIds |-> IF s \in Inside THEN rows[s].req.veh ELSE NoRequest]

owingOf == {s \in Rows : rows[s].status = "COMPLETED" /\ rows[s].fee > 0 /\ paid[s] = 0}

\* The vehicle of a session is a vehicle, not the absence of one.
LEMMA VehicleOfSession ==
  ASSUME RequestsAgreeWithTables, NEW s \in Rows
  PROVE  s \in SessionIds /\ rows[s].req.veh \in Vehicles /\ rows[s].req.veh # NoRequest
BY ConstantsAssumption DEF RequestsAgreeWithTables, SessionsHaveTheirKey, Rows, Request

\* Nobody has left a session owing that is not shared.
LEMMA NobodyOwes ==
  ASSUME ExitsAgree, NEW s \in SessionIds \ shared
  PROVE  s \notin owingOf
BY DEF ExitsAgree, ExitAgrees, owingOf

\* What one session owes concerns no other session.
LEMMA OthersOweTheSame ==
  ASSUME NEW t \in SessionIds,
         \A s \in SessionIds \ {t} : rows'[s] = rows[s] /\ paid'[s] = paid[s]
  PROVE  owingOf' \in {owingOf \cup {t}, owingOf \ {t}}
<1>1. \A s \in SessionIds \ {t} : s \in owingOf' <=> s \in owingOf
  BY DEF owingOf, Rows
<1>2. owingOf \subseteq SessionIds /\ owingOf' \subseteq SessionIds
  BY DEF owingOf, Rows
<1>3. CASE t \in owingOf'
  <2>1. owingOf' = owingOf \cup {t}
    BY <1>1, <1>2, <1>3
  <2> QED
    BY <2>1
<1>4. CASE t \notin owingOf'
  <2>1. owingOf' = owingOf \ {t}
    BY <1>1, <1>2, <1>4
  <2> QED
    BY <2>1
<1> QED
  BY <1>3, <1>4

\* A committed entry is an entry of the promise: into a free session, of a
\* vehicle that is not inside.
LEMMA EntryRefines ==
  ASSUME RequestsAgreeWithTables, ExitsAgree, NEW r \in Slots, Entered(r), shared' = shared
  PROVE  \E s \in SessionIds, v \in Vehicles : Promise!Enter(s, v)
<1>1. /\ sid[r] \in SessionIds /\ rows[sid[r]].status = "NONE"
      /\ req[r] \in Request /\ ActiveOf(req[r].veh) = {}
      /\ rows'[sid[r]].status = "PARKED" /\ rows'[sid[r]].req = req[r]
      /\ \A s \in SessionIds \ {sid[r]} : rows'[s] = rows[s]
      /\ sid[r] \notin Inside /\ Inside' = Inside \cup {sid[r]}
  BY EnteredRow
<1>2. req[r].veh \in Vehicles /\ req[r].veh # NoRequest
  BY <1>1, ConstantsAssumption DEF Request
<1>3. insideOf[sid[r]] = NoRequest /\ out[sid[r]] = 0
  BY <1>1 DEF insideOf, ExitsAgree, ExitAgrees, Rows
<1>4. \A t \in SessionIds : insideOf[t] # req[r].veh
  BY <1>1, <1>2 DEF insideOf, ActiveOf, Inside
<1>5. insideOf' = [insideOf EXCEPT ![sid[r]] = req[r].veh]
  BY <1>1 DEF insideOf
<1>6. owingOf' = owingOf /\ out' = out
  BY <1>1 DEF owingOf, Rows, Entered
<1>7. PICK s \in SessionIds, v \in Vehicles : s = sid[r] /\ v = req[r].veh
  BY <1>1, <1>2
<1>8. Promise!Enter(s, v)
  BY <1>3, <1>4, <1>5, <1>6, <1>7 DEF Promise!Enter, Promise!Outside, insideOf, owingOf
<1> QED
  BY <1>8

\* A committed exit is an exit of the promise: the open session's only one, or one of
\* several of a shared session.
LEMMA ExitRefines ==
  ASSUME RequestsAgreeWithTables, ExitsAgree, ExitsAgree', shared' = shared,
         NEW r \in Slots, Left(r)
  PROVE  \E s \in SessionIds : Promise!Leave(s) \/ Promise!LeaveShared(s)
<1>1. /\ sid[r] \in SessionIds /\ sid[r] \in Rows
      /\ rows'[sid[r]].status = "COMPLETED"
      /\ \A s \in SessionIds \ {sid[r]} : rows'[s] = rows[s]
      /\ Inside' = Inside \ {sid[r]}
  BY LeftRow
<1>2. PICK t \in SessionIds : t = sid[r]
  BY <1>1
<1>3. insideOf' = [insideOf EXCEPT ![t] = NoRequest]
  BY <1>1, <1>2 DEF insideOf
<1>4. out' = [out EXCEPT ![t] = @ + 1]
  BY <1>2 DEF Left
<1>5. \A s \in SessionIds \ {t} : paid'[s] = paid[s]
  BY <1>2 DEF Left, RequestsAgreeWithTables, TypeOK
<1>6. owingOf' \in {owingOf \cup {t}, owingOf \ {t}}
  BY <1>1, <1>2, <1>5, OthersOweTheSame
<1>7. CASE t \in shared
  <2>1. Promise!LeaveShared(t)
    BY <1>3, <1>4, <1>6, <1>7 DEF Promise!LeaveShared, insideOf, owingOf
  <2> QED
    BY <2>1
<1>8. CASE t \notin shared
  <2>1. t \in Inside
    BY <1>2, <1>8, FreshRow
  <2>2. insideOf[t] # NoRequest
    BY <1>1, <1>2, <2>1, VehicleOfSession DEF insideOf
  <2>3. t \notin owingOf /\ (t \notin owingOf)'
    BY <1>8, NobodyOwes DEF owingOf, ExitsAgree, ExitAgrees
  <2>4. owingOf' = owingOf
    BY <1>6, <2>3
  <2>5. Promise!Leave(t)
    BY <1>3, <1>4, <2>2, <2>4 DEF Promise!Leave, insideOf, owingOf
  <2> QED
    BY <2>5
<1> QED
  BY <1>7, <1>8

\* A session that starts to wait for its payment stays inside; if it is shared, it may
\* be one that was closed, of a vehicle that has not entered again.
LEMMA WaitRefines ==
  ASSUME RequestsAgreeWithTables, RequestsAgreeWithTables', ExitsAgree, ExitsAgree',
         shared' = shared, NEW r \in Slots, Waits(r)
  PROVE  \/ \E s \in SessionIds : Promise!WriteLate(s)
         \/ UNCHANGED <<insideOf, out, owingOf, shared>>
<1>1. /\ sid[r] \in SessionIds /\ sid[r] \in Rows
      /\ rows'[sid[r]].req = rows[sid[r]].req
      /\ \A s \in SessionIds \ {sid[r]} : rows'[s] = rows[s]
      /\ Inside' = Inside \/ Inside' = Inside \cup {sid[r]}
  BY LeftRow
<1>2. PICK t \in SessionIds : t = sid[r]
  BY <1>1
<1>3. UNCHANGED <<out, paid>>
  BY DEF Waits
<1>4. owingOf' \in {owingOf \cup {t}, owingOf \ {t}}
  BY <1>1, <1>2, <1>3, OthersOweTheSame
<1>5. \A s \in SessionIds : rows'[s].req = rows[s].req
  BY <1>1
<1>6. Inside' = Inside => insideOf' = insideOf
  BY <1>5 DEF insideOf
<1>7. CASE t \in shared
  <2>1. CASE Inside' = Inside
    <3>1. Promise!WriteLate(t)
      BY <1>3, <1>4, <1>6, <1>7, <2>1 DEF Promise!WriteLate, insideOf, owingOf
    <3> QED
      BY <3>1
  <2>2. CASE t \notin Inside /\ Inside' = Inside \cup {t}
    <3>1. PICK v \in Vehicles : v = rows[t].req.veh /\ v # NoRequest
      BY <1>1, <1>2, VehicleOfSession
    <3>2. insideOf' = [insideOf EXCEPT ![t] = v] /\ insideOf[t] = NoRequest
      BY <1>5, <2>2, <3>1 DEF insideOf
    <3>3. \A s \in Inside' : rows'[s].req.veh = rows'[t].req.veh => s = t
      BY <2>2 DEF RequestsAgreeWithTables, OneOpenSessionPerVehicle
    <3>4. \A s \in SessionIds : s \in Inside => rows[s].req.veh # v
      BY <1>5, <2>2, <3>1, <3>3
    <3>5. \A s \in SessionIds : insideOf[s] # v
      BY <3>1, <3>4 DEF insideOf
    <3>6. Promise!WriteLate(t)
      BY <1>3, <1>4, <1>7, <3>2, <3>5
         DEF Promise!WriteLate, Promise!Outside, insideOf, owingOf
    <3> QED
      BY <3>6
  <2> QED
    BY <1>1, <1>2, <2>1, <2>2
<1>8. CASE t \notin shared
  <2>1. t \in Inside
    BY <1>2, <1>8, FreshRow
  <2>2. Inside' = Inside
    BY <1>1, <1>2, <2>1
  <2>3. t \notin owingOf /\ (t \notin owingOf)'
    BY <1>8, NobodyOwes DEF owingOf, ExitsAgree, ExitAgrees
  <2>4. owingOf' = owingOf
    BY <1>4, <2>3
  <2> QED
    BY <1>3, <1>6, <2>2, <2>4
<1> QED
  BY <1>7, <1>8

\* A request can begin to let out a session at a time, which is open.
LEMMA ShareRefines ==
  ASSUME ExitsAgree, RequestsAgreeWithTables, Remember, NEW r \in Slots,
         Quiet, OnTheWayOut(r), Untouched(r)
  PROVE  \/ \E s \in SessionIds : Promise!Share(s)
         \/ UNCHANGED <<insideOf, out, owingOf, shared>>
<1>1. UNCHANGED <<insideOf, out, owingOf>>
  BY DEF Quiet, insideOf, owingOf, Inside, Rows
<1>2. \A s \in SessionIds : \A q \in LoadedBy(s)' :
        q \in LoadedBy(s) \/ (q = r /\ s = sid'[r] /\ s \in Inside)
  BY DEF LoadedBy, Untouched, OnTheWayOut
<1>3. \A s \in Shared' : s \in Shared \/ (s = sid'[r] /\ s \in Inside)
  BY <1>2 DEF Shared
<1>4. CASE shared' = shared
  BY <1>1, <1>4
<1>5. CASE shared' # shared
  <2>1. PICK t \in SessionIds : t \in Shared' /\ t \notin shared
    BY <1>5 DEF Remember, Shared
  <2>2. t = sid'[r] /\ t \in Inside
    BY <1>3, <2>1 DEF ExitsAgree
  <2>3. shared' = shared \cup {t}
    BY <1>3, <2>1, <2>2 DEF Remember, ExitsAgree
  <2>4. insideOf[t] # NoRequest
    BY <2>2, VehicleOfSession DEF insideOf, Inside
  <2>5. Promise!Share(t)
    BY <1>1, <2>3, <2>4 DEF Promise!Share, insideOf, owingOf
  <2> QED
    BY <2>5
<1> QED
  BY <1>4, <1>5

\* A request that ends shares no session.
LEMMA EndSharesNothing ==
  ASSUME ExitsAgree, Remember, NEW r \in Slots, Untouched(r), pc'[r] = "idle"
  PROVE  shared' = shared
BY EndUnloads DEF ExitsAgree, Remember

\* Every step is a step of the promise or leaves it as it is.
LEMMA StepRefines ==
  ASSUME RequestsAgreeWithTables, RequestsAgreeWithTables', ExitsAgree, ExitsAgree',
         [HistoryNext]_allVars
  PROVE  Promise!Next \/ UNCHANGED <<insideOf, out, owingOf, shared>>
<1>1. CASE UNCHANGED allVars
  BY <1>1 DEF allVars, vars, table, history, insideOf, owingOf, Inside, Rows
<1>2. CASE HistoryNext
  <2>1. Remember /\ [Next]_vars
    BY <1>2 DEF HistoryNext
  <2>2. CASE Quiet /\ UNCHANGED <<pc, local>>
    BY <2>1, <2>2 DEF Quiet, local, Remember, Shared, LoadedBy, ExitsAgree, insideOf, owingOf,
                      Inside, Rows
  <2>3. ASSUME NEW r \in Slots, Quiet, OnTheWayOut(r), Untouched(r)
        PROVE  Promise!Next \/ UNCHANGED <<insideOf, out, owingOf, shared>>
    BY <2>1, <2>3, ShareRefines DEF Promise!Next
  <2>4. ASSUME NEW r \in Slots, Untouched(r), Entered(r) PROVE Promise!Next
    BY <2>1, <2>4, EnteredRow, EndSharesNothing, EntryRefines DEF Promise!Next
  <2>5. ASSUME NEW r \in Slots, Untouched(r), Left(r) PROVE Promise!Next
    BY <2>1, <2>5, LeftRow, EndSharesNothing, ExitRefines DEF Promise!Next
  <2>6. ASSUME NEW r \in Slots, Untouched(r), Waits(r)
        PROVE  Promise!Next \/ UNCHANGED <<insideOf, out, owingOf, shared>>
    BY <2>1, <2>6, LeftRow, EndSharesNothing, WaitRefines DEF Promise!Next
  <2> QED
    BY <2>1, <2>2, <2>3, <2>4, <2>5, <2>6, NextKind
<1> QED
  BY <1>1, <1>2

\* However requests overlap, and also when the counter is adjusted and connections are
\* lost, the system implements the promise: a vehicle is inside at most once, and a
\* session that no two requests let out at the same time ends once, for good and paid.
THEOREM SessionsKeepPromise == HistorySpec => ParkingPromise
<1>1. HistoryInit => Promise!Init
  <2>1. HistoryInit => Inside = {} /\ Rows = {} /\ out = [s \in SessionIds |-> 0]
                       /\ shared = {}
    BY DEF HistoryInit, Init, Inside, Rows, NoRow
  <2> QED
    BY <2>1 DEF Promise!Init
<1>2. RequestsAgreeWithTables /\ RequestsAgreeWithTables' /\ ExitsAgree /\ ExitsAgree'
        /\ [HistoryNext]_allVars => [Promise!Next]_(Promise!promiseVars)
  <2>1. (UNCHANGED <<insideOf, out, owingOf, shared>>) <=> UNCHANGED Promise!promiseVars
    BY DEF Promise!promiseVars, insideOf, owingOf
  <2> QED
    BY <2>1, StepRefines
<1> QED
  BY <1>1, <1>2, HistoryLooksOn, AlwaysAgrees, ExitsAlwaysAgree, PTL
     DEF HistorySpec, ParkingPromise, Promise!Spec
-----------------------------------------------------------------------------
(* The counter and the capacity.                                           *)

\* The open sessions are finitely many.
LEMMA InsideIsFinite == IsFiniteSet(Inside) /\ Cardinality(Inside) \in Nat
<1>1. Inside \subseteq SessionIds
  BY DEF Inside, Rows
<1> QED
  BY <1>1, FS_Subset, FS_CardinalityType, ConstantsAssumption

\* What a step does to the counter and its history: an entry adds two, an exit takes
\* off at most two, a wait nothing, all else is an adjustment.
LEMMA CounterKind ==
  ASSUME RequestsAgreeWithTables, adjusted \in Int, [HistoryNext]_allVars
  PROVE  /\ occupied \in Nat /\ occupied' \in Nat
         /\ \/ Quiet /\ adjusted' = adjusted + (occupied' - occupied)
            \/ \E r \in Slots :
                 /\ Untouched(r) /\ adjusted' = adjusted
                 /\ \/ Entered(r) /\ occupied' = occupied + 2
                    \/ Waits(r) /\ occupied' = occupied
                    \/ Left(r) /\ out'[sid[r]] # out[sid[r]] /\ occupied' >= occupied - 2
<1>1. occupied \in Nat /\ [Next]_vars
  BY DEF RequestsAgreeWithTables, TypeOK, HistoryNext, allVars
<1>2. occupied' \in Nat
  BY <1>1, NextKeeps DEF RequestsAgreeWithTables, TypeOK
<1>3. CASE UNCHANGED allVars
  BY <1>1, <1>3 DEF allVars, vars, table, history, Quiet
<1>4. CASE HistoryNext /\ Quiet
  BY <1>1, <1>2, <1>4 DEF HistoryNext, Remember, Quiet
<1>5. ASSUME HistoryNext, NEW r \in Slots, Untouched(r), Entered(r)
      PROVE  adjusted' = adjusted /\ occupied' = occupied + 2
  <2>1. rows' # rows
    BY <1>5, EnteredRow
  <2> QED
    BY <1>5, <2>1 DEF HistoryNext, Remember, Entered, Incremented
<1>6. ASSUME HistoryNext, NEW r \in Slots, Untouched(r), Waits(r)
      PROVE  adjusted' = adjusted /\ occupied' = occupied
  BY <1>1, <1>6 DEF HistoryNext, Remember, Waits
<1>7. ASSUME HistoryNext, NEW r \in Slots, Untouched(r), Left(r)
      PROVE  adjusted' = adjusted /\ out'[sid[r]] # out[sid[r]] /\ occupied' >= occupied - 2
  <2>1. sid[r] \in SessionIds
    BY <1>7, WriteBackRow DEF Left, ExitPlaces
  <2>2. out'[sid[r]] # out[sid[r]]
    BY <1>7, <2>1 DEF Left, RequestsAgreeWithTables, TypeOK
  <2>3. adjusted' = adjusted
    BY <1>7, <2>2 DEF HistoryNext, Remember
  <2>4. occupied' >= occupied - 2
    BY <1>1, <1>7 DEF Left, Decremented
  <2> QED
    BY <2>2, <2>3, <2>4
<1> QED
  BY <1>1, <1>2, <1>3, <1>4, <1>5, <1>6, <1>7, NextKind DEF Quiet

\* The history counts whole exits and adjustments.
HistoryTypes == doubled \in Nat /\ adjusted \in Int

LEMMA HistoryTypesKeep ==
  ASSUME RequestsAgreeWithTables, HistoryTypes, [HistoryNext]_allVars
  PROVE  HistoryTypes'
<1>1. adjusted' \in Int
  BY CounterKind DEF HistoryTypes
<1>2. doubled' \in Nat
  BY DEF HistoryTypes, HistoryNext, Remember, allVars, history
<1> QED
  BY <1>1, <1>2 DEF HistoryTypes

\* The counter goes up by two with a session that opens, down by two with one that
\* closes; an exit that closes nothing and a session that opens again are remembered.
LEMMA CounterCovers ==
  ASSUME RequestsAgreeWithTables, ExitsAgree, HistoryTypes, CounterCoversInside,
         [HistoryNext]_allVars
  PROVE  CounterCoversInside'
<1> DEFINE n == Cardinality(Inside)
<1>1. /\ n \in Nat /\ IsFiniteSet(Inside) /\ doubled \in Nat /\ adjusted \in Int
      /\ occupied \in Nat /\ occupied' \in Nat
      /\ doubled' \in {doubled, doubled + 1}
      /\ ~UNCHANGED allVars /\ Doubles => doubled' = doubled + 1
      /\ occupied + 2 * doubled >= 2 * n + adjusted
  BY InsideIsFinite, CounterKind
     DEF HistoryTypes, HistoryNext, Remember, allVars, history, CounterCoversInside
<1> SUFFICES ASSUME NEW m \in Nat, m = Cardinality(Inside')
             PROVE  occupied' + 2 * doubled' >= 2 * m + adjusted'
  <2>1. Inside' \subseteq SessionIds
    BY DEF Inside, Rows
  <2>2. Cardinality(Inside') \in Nat
    BY <2>1, FS_Subset, FS_CardinalityType, ConstantsAssumption
  <2> QED
    BY <2>2 DEF CounterCoversInside
<1>2. CASE Quiet /\ adjusted' = adjusted + (occupied' - occupied)
  <2>1. m = n
    BY <1>2 DEF Quiet, Inside, Rows
  <2> QED
    BY <1>1, <1>2, <2>1
<1>3. ASSUME NEW r \in Slots, Entered(r), occupied' = occupied + 2, adjusted' = adjusted
      PROVE  occupied' + 2 * doubled' >= 2 * m + adjusted'
  <2>1. m = n + 1
    BY <1>1, <1>3, EnteredRow, FS_AddElement
  <2> QED
    BY <1>1, <1>3, <2>1
<1>4. ASSUME NEW r \in Slots, Waits(r), occupied' = occupied, adjusted' = adjusted
      PROVE  occupied' + 2 * doubled' >= 2 * m + adjusted'
  <2>1. CASE Inside' = Inside
    BY <1>1, <1>4, <2>1
  <2>2. CASE sid[r] \notin Inside /\ Inside' = Inside \cup {sid[r]}
    <3>1. m = n + 1
      BY <1>1, <2>2, FS_AddElement
    <3>2. rows[sid[r]].status = "COMPLETED" /\ sid[r] \in SessionIds
      BY <1>4, <2>2, LeftRow DEF Inside, Rows, Active, RequestsAgreeWithTables, TypeOK, Row, Status
    <3>3. ~UNCHANGED allVars /\ Doubles
      BY <2>2, <3>2 DEF Doubles, allVars, vars, table, Inside, Rows
    <3> QED
      BY <1>1, <1>4, <3>1, <3>3
  <2> QED
    BY <1>4, <2>1, <2>2, LeftRow
<1>5. ASSUME NEW r \in Slots, Left(r), out'[sid[r]] # out[sid[r]], occupied' >= occupied - 2,
             adjusted' = adjusted
      PROVE  occupied' + 2 * doubled' >= 2 * m + adjusted'
  <2>1. CASE sid[r] \in Inside
    <3>1. m = n - 1
      BY <1>1, <1>5, <2>1, LeftRow, FS_RemoveElement
    <3> QED
      BY <1>1, <1>5, <3>1
  <2>2. CASE sid[r] \notin Inside
    <3>1. m = n
      <4>1. Inside' = Inside
        BY <1>5, <2>2, LeftRow
      <4> QED
        BY <4>1
    <3>2. ~UNCHANGED allVars /\ Doubles
      BY <1>5, <2>2, LeftRow DEF Doubles, allVars, vars, table
    <3> QED
      BY <1>1, <1>5, <3>1, <3>2
  <2> QED
    BY <2>1, <2>2
<1> HIDE DEF n
<1> QED
  BY <1>2, <1>3, <1>4, <1>5, CounterKind DEF HistoryTypes

\* The counter never lacks more of the vehicles inside than overlapping exits of a
\* session and adjustments have taken off, whatever else happens.
THEOREM CounterLacksOnlyShared == HistorySpec => []CounterCoversInside
<1>1. HistoryInit => HistoryTypes /\ CounterCoversInside
  <2>1. HistoryInit => Inside = {} /\ occupied = 0 /\ doubled = 0 /\ adjusted = 0
    BY DEF HistoryInit, Init, Inside, Rows, NoRow
  <2> QED
    BY <2>1, FS_EmptySet DEF CounterCoversInside, HistoryTypes
<1>2. RequestsAgreeWithTables /\ HistoryTypes /\ [HistoryNext]_allVars => HistoryTypes'
  BY HistoryTypesKeep
<1>3. RequestsAgreeWithTables /\ ExitsAgree /\ HistoryTypes /\ CounterCoversInside
        /\ [HistoryNext]_allVars => CounterCoversInside'
  BY CounterCovers
<1> QED
  BY <1>1, <1>2, <1>3, HistoryLooksOn, AlwaysAgrees, ExitsAlwaysAgree, PTL DEF HistorySpec

\* The exits that closed nothing and the sessions opened again are those of sessions
\* that two requests have had loaded at the same time.
THEOREM OnlySharedExitsDouble == HistorySpec => [](doubled > 0 => shared # {})
<1>1. HistoryInit => HistoryTypes /\ (doubled > 0 => shared # {})
  BY DEF HistoryInit, HistoryTypes
<1>2. RequestsAgreeWithTables /\ HistoryTypes /\ [HistoryNext]_allVars => HistoryTypes'
  BY HistoryTypesKeep
<1>3. RequestsAgreeWithTables /\ ExitsAgree /\ HistoryTypes /\ (doubled > 0 => shared # {})
        /\ [HistoryNext]_allVars => (doubled > 0 => shared # {})'
  <2> SUFFICES ASSUME RequestsAgreeWithTables, ExitsAgree, HistoryNext, shared = {}, Doubles
               PROVE  FALSE
    BY DEF HistoryNext, Remember, allVars, history
  <2>1. PICK s \in SessionIds : \/ out'[s] # out[s] /\ s \notin Inside
                                \/ rows[s].status = "COMPLETED" /\ s \in Inside'
    BY DEF Doubles
  <2>2. CASE Quiet
    BY <2>1, <2>2 DEF Quiet, Inside, Rows, Active
  <2>3. ASSUME NEW r \in Slots, Entered(r) PROVE FALSE
    BY <2>1, <2>3, EnteredRow DEF Entered, Inside, Rows, Active
  <2>4. ASSUME NEW r \in Slots, Waits(r) \/ Left(r) PROVE FALSE
    <3>1. sid[r] \in Inside /\ sid[r] \in SessionIds
      BY <2>4, FreshRow, LeftRow
    <3>2. s = sid[r]
      BY <2>1, <2>4, <3>1, LeftRow DEF Waits, Left, RequestsAgreeWithTables, TypeOK, Inside,
                                       Rows, Active
    <3> QED
      BY <2>1, <3>1, <3>2 DEF Inside, Active
  <2> QED
    BY <2>2, <2>3, <2>4, NextKind DEF HistoryNext
<1> QED
  BY <1>1, <1>2, <1>3, HistoryLooksOn, AlwaysAgrees, ExitsAlwaysAgree, PTL DEF HistorySpec

\* A vehicle enters only while the vehicles really inside, unpaid ones included, stay
\* below the limit of its class, but for those that exits counted for closed sessions
\* and adjustments have taken off the counter.
THEOREM EntriesStayWithinCapacity == HistorySpec => EntryWithinCapacity
<1> DEFINE Within == \A s \in SessionIds :
             rows[s].status = "NONE" /\ rows'[s].status # "NONE"
               => 2 * Cardinality(Inside) + adjusted < Limit(rows'[s].req.cls) + 2 * doubled
<1>1. RequestsAgreeWithTables /\ HistoryTypes /\ CounterCoversInside /\ [HistoryNext]_allVars
        => [Within]_allVars
  <2> SUFFICES ASSUME RequestsAgreeWithTables, HistoryTypes, CounterCoversInside, [Next]_vars,
                      NEW s \in SessionIds, rows[s].status = "NONE", rows'[s].status # "NONE"
               PROVE  2 * Cardinality(Inside) + adjusted < Limit(rows'[s].req.cls) + 2 * doubled
    BY DEF HistoryNext, allVars
  <2>1. occupied < Limit(rows'[s].req.cls)
    BY OnlyEntriesCreate
  <2>2. Limit(rows'[s].req.cls) \in Nat /\ occupied \in Nat
    BY LimitType DEF RequestsAgreeWithTables, TypeOK
  <2> QED
    BY <2>1, <2>2, InsideIsFinite DEF CounterCoversInside, HistoryTypes
<1>2. HistoryInit => HistoryTypes
  BY DEF HistoryInit, HistoryTypes
<1>3. RequestsAgreeWithTables /\ HistoryTypes /\ [HistoryNext]_allVars => HistoryTypes'
  BY HistoryTypesKeep
<1> QED
  BY <1>1, <1>2, <1>3, HistoryLooksOn, AlwaysAgrees, CounterLacksOnlyShared, PTL
     DEF HistorySpec, EntryWithinCapacity
-----------------------------------------------------------------------------
(* What the counter never does.                                            *)

\* Nobody adjusts the counter or reconciles it with the PARKED sessions.
NoAdjustments == Operations \cap {"adjust", "reconcile"} = {}

NoReconciliation == \A r \in Slots : pc[r] # "rc_lock"

\* Only a reconciliation comes to the place where it moves the counter.
LEMMA NoneReconciles ==
  ASSUME NoAdjustments, TypeOK, NoReconciliation, [Next]_vars
  PROVE  NoReconciliation'
<1>1. ASSUME NEW r \in Slots, NEW place, Goto(r, place), place # "rc_lock"
      PROVE  NoReconciliation'
  BY <1>1 DEF NoReconciliation, Goto, TypeOK
<1>2. ASSUME NEW r \in Slots, NEW code, Finish(r, code) PROVE NoReconciliation'
  BY <1>2 DEF NoReconciliation, Finish, TypeOK
<1>3. ASSUME NEW r \in Slots, Arrive(r) PROVE NoReconciliation'
  BY <1>1, <1>2, <1>3 DEF Arrive, CheckIn, Replay, CheckOut, RecordPayment, EmergencyExit,
                          Reconcile, NoAdjustments, Load, Fail
<1>4. ASSUME NEW r \in Slots, Step(r) PROVE NoReconciliation'
  <2>1. CASE AccessControl(r) \/ DuplicateCheck(r) \/ RequireReady(r) \/ InsertSession(r)
             \/ ExplainConflict(r)
    BY <1>1, <1>2, <2>1 DEF AccessControl, DuplicateCheck, RequireReady, InsertSession,
                            ExplainConflict, Replay, Fail
  <2>2. CASE LockCounterForEntry(r) \/ CommitEntry(r) \/ FindSession(r) \/ AwaitPayment(r)
             \/ FlushExit(r)
    BY <1>1, <1>2, <2>2 DEF LockCounterForEntry, CommitEntry, FindSession, Load,
                            AwaitPayment, FlushExit, ReopeningRefused, Fail
  <2>3. CASE CommitExit(r) \/ LockCounterForEmergency(r) \/ CommitEmergency(r)
             \/ CommitReconcile(r)
    BY <1>1, <1>2, <2>3 DEF CommitExit, LockCounterForEmergency, CommitEmergency,
                            CommitReconcile
  <2> QED
    BY <1>4, <2>1, <2>2, <2>3 DEF Step
<1>5. ASSUME NEW r \in Slots, Refuse(r) \/ ConnectionLost(r) \/ DeadlockVictim(r)
      PROVE  NoReconciliation'
  BY <1>2, <1>5 DEF Refuse, ConnectionLost, DeadlockVictim, Fail
<1>6. ASSUME pc' = pc PROVE NoReconciliation'
  BY <1>6 DEF NoReconciliation
<1> QED
  BY <1>3, <1>4, <1>5, <1>6 DEF Next, AdjustCounter, WriteSettings, vars

\* What a leaving request writes is COMPLETED, or PAYMENT_PENDING over whatever the
\* session has become: a write for payment closes no session.
LEMMA WriteLeavesOthersInside ==
  ASSUME RequestsAgreeWithTables, NEW r \in Slots, pc[r] \in ExitPlaces, rows' = WriteBack(r)
  PROVE  /\ sid[r] \in SessionIds
         /\ Inside \ {sid[r]} \subseteq Inside'
         /\ pc[r] = "co_pend" => Inside \subseteq Inside'
<1>1. /\ sid[r] \in SessionIds
      /\ WriteBack(r)[sid[r]].status \in {rows[sid[r]].status, want[r].status}
      /\ \A s \in SessionIds \ {sid[r]} : WriteBack(r)[s] = rows[s]
  BY WriteBackRow
<1>2. pc[r] = "co_pend" => want[r].status = "PAYMENT_PENDING"
  BY DEF RequestsAgreeWithTables, ExitsKnowTheirSession, ExitKnowsItsSession
<1>3. \A s \in SessionIds \ {sid[r]} : rows'[s] = rows[s]
  BY <1>1
<1>4. \A s \in Inside \ {sid[r]} : s \in Inside'
  BY <1>3 DEF Inside, Rows
<1>5. ASSUME pc[r] = "co_pend", sid[r] \in Inside PROVE sid[r] \in Inside'
  BY <1>1, <1>2, <1>5 DEF Inside, Rows, Active
<1> QED
  BY <1>1, <1>4, <1>5

\* The counter goes up with a session that opens, and down with each that closes.
LEMMA OvercountsNever ==
  ASSUME NoAdjustments, NoReconciliation, RequestsAgreeWithTables,
         CounterNeverOvercounts, [Next]_vars
  PROVE  CounterNeverOvercounts'
<1>1. IsFiniteSet(Inside) /\ Cardinality(Inside) \in Nat /\ occupied \in Nat
  BY InsideIsFinite DEF RequestsAgreeWithTables, TypeOK
<1>2. IsFiniteSet(Inside') /\ Cardinality(Inside') \in Nat
  <2>1. Inside' \subseteq SessionIds
    BY DEF Inside, Rows
  <2> QED
    BY <2>1, FS_Subset, FS_CardinalityType, ConstantsAssumption
<1>3. ASSUME UNCHANGED <<rows, occupied>> PROVE CounterNeverOvercounts'
  BY <1>3 DEF CounterNeverOvercounts, Inside, Rows
<1>4. ASSUME NEW r \in Slots, Entered(r) PROVE CounterNeverOvercounts'
  <2>1. sid[r] \in SessionIds /\ rows[sid[r]].status = "NONE"
    BY <1>4 DEF Entered, RequestsAgreeWithTables, InsertsAreSerialized, InsertIsSerialized
  <2>2. /\ rows'[sid[r]].status = "PARKED"
        /\ \A s \in SessionIds \ {sid[r]} : rows'[s] = rows[s]
    BY <1>4, <2>1 DEF Entered, RequestsAgreeWithTables, TypeOK, NewSession
  <2>3. sid[r] \notin Inside /\ Inside' = Inside \cup {sid[r]}
    BY <2>1, <2>2 DEF Inside, Rows, Active
  <2>4. Cardinality(Inside') = Cardinality(Inside) + 1
    BY <1>1, <2>3, FS_AddElement
  <2> QED
    BY <1>1, <1>4, <2>4 DEF CounterNeverOvercounts, Entered, Incremented
<1>5. ASSUME NEW r \in Slots, Waits(r) PROVE CounterNeverOvercounts'
  <2>1. pc[r] = "co_pend" /\ pc[r] \in ExitPlaces /\ rows' = WriteBack(r)
    BY <1>5 DEF Waits, ExitPlaces
  <2>2. Cardinality(Inside) <= Cardinality(Inside')
    BY <1>2, <2>1, WriteLeavesOthersInside, FS_Subset
  <2> QED
    BY <1>1, <1>2, <1>5, <2>2 DEF CounterNeverOvercounts, Waits
<1>6. ASSUME NEW r \in Slots, Left(r) PROVE CounterNeverOvercounts'
  <2>1. pc[r] \in ExitPlaces /\ rows' = WriteBack(r)
    BY <1>6 DEF Left, ExitPlaces
  <2>2. Inside \ {sid[r]} \subseteq Inside'
    BY <2>1, WriteLeavesOthersInside
  <2>3. Cardinality(Inside \ {sid[r]}) <= Cardinality(Inside')
    BY <1>2, <2>2, FS_Subset
  <2>4. /\ Cardinality(Inside \ {sid[r]})
             = IF sid[r] \in Inside THEN Cardinality(Inside) - 1 ELSE Cardinality(Inside)
        /\ Cardinality(Inside \ {sid[r]}) \in Nat
    BY <1>1, FS_RemoveElement, FS_CardinalityType
  <2>5. 2 * Cardinality(Inside') >= 2 * Cardinality(Inside) - 2
    BY <1>1, <1>2, <2>3, <2>4
  <2> QED
    BY <1>1, <1>2, <1>6, <2>5 DEF CounterNeverOvercounts, Left, Decremented
<1>7. ASSUME NEW r \in Slots, Arrive(r) PROVE CounterNeverOvercounts'
  BY <1>3, <1>7, ArrivalKind DEF Quiet, RequestsAgreeWithTables
<1>8. ASSUME NEW r \in Slots, Step(r) PROVE CounterNeverOvercounts'
  BY <1>3, <1>4, <1>5, <1>6, <1>8, StepKind DEF Quiet, NoReconciliation
<1>9. ASSUME NEW r \in Slots, Refuse(r) \/ ConnectionLost(r) \/ DeadlockVictim(r)
      PROVE  CounterNeverOvercounts'
  BY <1>3, <1>9 DEF Refuse, ConnectionLost, DeadlockVictim, Fail, table
<1>10. ASSUME NEW d \in AdjustDeltas, AdjustCounter(d) PROVE CounterNeverOvercounts'
  BY <1>10 DEF AdjustCounter, NoAdjustments
<1>11. ASSUME (\E c \in SettingsChoices : WriteSettings(c)) \/ UNCHANGED vars
       PROVE  CounterNeverOvercounts'
  BY <1>3, <1>11 DEF WriteSettings, vars, table
<1> QED
  BY <1>7, <1>8, <1>9, <1>10, <1>11 DEF Next

\* Without adjustments the counter never exceeds twice the vehicles inside, for
\* every interleaving of entries and exits, exits of one vehicle included.
THEOREM CounterErrsDownwards ==
  ASSUME NoAdjustments PROVE Spec => []CounterNeverOvercounts
<1>1. Init => NoReconciliation
  BY DEF Init, NoReconciliation
<1>2. Init => CounterNeverOvercounts
  <2>1. Init => Inside = {} /\ occupied = 0
    BY DEF Init, Inside, Rows, NoRow
  <2> QED
    BY <2>1, FS_EmptySet DEF CounterNeverOvercounts
<1>3. RequestsAgreeWithTables /\ NoReconciliation /\ [Next]_vars => NoReconciliation'
  BY NoneReconciles DEF RequestsAgreeWithTables
<1>4. RequestsAgreeWithTables /\ NoReconciliation /\ CounterNeverOvercounts /\ [Next]_vars
        => CounterNeverOvercounts'
  BY OvercountsNever
<1> QED
  BY <1>1, <1>2, <1>3, <1>4, AlwaysAgrees, PTL DEF Spec

\* A served request is answered CAPACITY_FULL only with the counter at its limit:
\* the one it reads, or the one it has read and that the lot's lock has kept.
LEMMA FullMeansLimit ==
  ASSUME RequestsAgreeWithTables, [Next]_vars, NEW r \in Slots, pc[r] # "idle",
         pc'[r] = "idle", answer'[r] = "CAPACITY_FULL"
  PROVE  occupied >= Limit(req[r].cls)
<1> USE DEF RequestsAgreeWithTables
<1>1. ASSUME NEW q \in Slots, NEW code, Finish(q, code)
      PROVE  q = r /\ code = "CAPACITY_FULL"
  BY <1>1 DEF Finish, TypeOK
<1>2. ASSUME NEW q \in Slots, NEW place, Goto(q, place), place # "idle" PROVE FALSE
  BY <1>2 DEF Goto, TypeOK
<1>3. ASSUME pc' = pc PROVE FALSE
  BY <1>3
<1>4. ASSUME NEW q \in Slots, Arrive(q) PROVE FALSE
  BY <1>1, <1>2, <1>4 DEF Arrive, CheckIn, Replay, CheckOut, RecordPayment, EmergencyExit,
                          Reconcile, Load, Fail
<1>5. ASSUME NEW q \in Slots, Step(q) PROVE occupied >= Limit(req[r].cls)
  <2>1. CASE AccessControl(q)
    BY <1>1, <1>2, <2>1 DEF AccessControl, Fail
  <2>2. CASE CommitEntry(q)
    <3>1. q = r /\ occupied >= num[q]
      BY <1>1, <2>2 DEF CommitEntry, Fail
    <3>2. num[q] = Limit(req[q].cls)
      BY <2>2 DEF CommitEntry, InsertsAreSerialized, InsertIsSerialized
    <3> QED
      BY <3>1, <3>2
  <2>3. CASE DuplicateCheck(q) \/ RequireReady(q) \/ InsertSession(q) \/ ExplainConflict(q)
             \/ LockCounterForEntry(q)
    BY <1>1, <1>2, <2>3 DEF DuplicateCheck, DuplicateCode, RequireReady, InsertSession,
                            ExplainConflict, Replay, LockCounterForEntry, Fail
  <2>4. CASE FindSession(q)
    <3>1. CASE Fail(q, "SESSION_NOT_FOUND")
      BY <1>1, <3>1 DEF Fail
    <3>2. CASE \E s, new, place : Load(q, s, new, place) /\ place \in {"ex_flush", "co_pend"}
      BY <1>2, <3>2 DEF Load
    <3> QED
      BY <2>4, <3>1, <3>2 DEF FindSession
  <2>5. CASE AwaitPayment(q) \/ FlushExit(q) \/ CommitExit(q)
    BY <1>1, <1>2, <2>5 DEF AwaitPayment, FlushExit, ReopeningRefused, CommitExit, Fail
  <2>6. CASE LockCounterForEmergency(q) \/ CommitEmergency(q) \/ CommitReconcile(q)
    BY <1>1, <1>2, <2>6 DEF LockCounterForEmergency, CommitEmergency, CommitReconcile
  <2> QED
    BY <1>5, <2>1, <2>2, <2>3, <2>4, <2>5, <2>6 DEF Step
<1>6. ASSUME NEW q \in Slots, Refuse(q) \/ ConnectionLost(q) \/ DeadlockVictim(q)
      PROVE  FALSE
  BY <1>1, <1>6 DEF Refuse, ConnectionLost, DeadlockVictim, Fail
<1> QED
  BY <1>3, <1>4, <1>5, <1>6 DEF Next, AdjustCounter, WriteSettings, vars

\* Without adjustments nobody is turned away for capacity while the vehicles inside
\* are fewer than half of the limit of the class.
THEOREM NobodyTurnedAwayEarly ==
  ASSUME NoAdjustments PROVE Spec => FullOnlyFromHalf
<1> DEFINE Deserved ==
      \A r \in Slots : pc[r] # "idle" /\ pc'[r] = "idle" /\ answer'[r] = "CAPACITY_FULL"
        => 2 * Cardinality(Inside) >= Limit(req[r].cls)
<1>1. RequestsAgreeWithTables /\ CounterNeverOvercounts /\ [Next]_vars => [Deserved]_vars
  <2> SUFFICES ASSUME RequestsAgreeWithTables, CounterNeverOvercounts, [Next]_vars,
                      NEW r \in Slots, pc[r] # "idle", pc'[r] = "idle",
                      answer'[r] = "CAPACITY_FULL"
               PROVE  2 * Cardinality(Inside) >= Limit(req[r].cls)
    OBVIOUS
  <2>1. occupied >= Limit(req[r].cls)
    BY FullMeansLimit
  <2>2. Limit(req[r].cls) \in Nat /\ occupied \in Nat
    BY LimitType DEF RequestsAgreeWithTables, TypeOK
  <2> QED
    BY <2>1, <2>2, InsideIsFinite DEF CounterNeverOvercounts
<1> QED
  BY <1>1, AlwaysAgrees, CounterErrsDownwards, PTL DEF Spec, FullOnlyFromHalf
=============================================================================
