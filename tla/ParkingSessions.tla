-------------------------- MODULE ParkingSessions --------------------------
(***************************************************************************)
(* The parking sessions of one building and one vehicle type, and the      *)
(* database transactions that change them: check-in, check-out, payment,   *)
(* emergency exit, counter adjustment, counter reconciliation and the      *)
(* capacity part of the lot settings.                                      *)
(*                                                                         *)
(* A request is served by a worker (a slot) with one database session.     *)
(* PostgreSQL runs it at READ COMMITTED: every statement reads what is     *)
(* committed, row locks and unique-index waits last until commit or        *)
(* rollback.  A step of a slot is what happens between two points where    *)
(* another transaction can be observed or waited for.                      *)
(***************************************************************************)
EXTENDS Integers, FiniteSets

CONSTANTS
  Slots,             \* workers that serve requests concurrently
  SessionIds,        \* ids of the parking_transactions rows (bounds the entries)
  Vehicles,          \* normalized plates and ticket codes
  Bicycles,          \* the vehicles identified by a ticket code, not by a plate
  Keys,              \* Idempotency-Key header values
  Fees,              \* what calculate_parking_fee may return
  CheckInRequests,   \* check-in payloads clients send
  CheckOutRequests,  \* check-out payloads clients send
  SettingsChoices,   \* capacity settings an administrator may save
  AdjustDeltas,      \* deltas of POST /counters/adjust and /counters/compensate
  MaxOccupied,       \* bound: adjustments stop above this counter value
  MaxExits,          \* bound: exits recorded for one session
  Operations,        \* what happens besides check-in and check-out
  NoSlot, NoSession, NoRequest

Classes == {"VISITOR", "RESIDENT"}

(* A request: `review` says that the ticket check answers REVIEW and the   *)
(* operator gives an override reason, `pay` that a payment method is given.*)
Request == [key : Keys, veh : Vehicles, cls : Classes,
            review : BOOLEAN, pay : BOOLEAN]

Status == {"NONE", "PARKED", "PAYMENT_PENDING", "COMPLETED"}
Active == {"PARKED", "PAYMENT_PENDING"}

Evacuation == "EMERGENCY_EVACUATION"

NoFee == -1    \* the fee column is NULL

Row == [status : Status, req : Request \cup {NoRequest}, fee : Fees \cup {NoFee},
        lane : BOOLEAN, notes : SUBSET (Keys \cup {Evacuation})]

Settings == [safe : Nat, physical : Nat, reserved : Nat]

ASSUME ConstantsAssumption ==
  /\ IsFiniteSet(Slots) /\ IsFiniteSet(SessionIds)
  /\ Fees \subseteq Nat /\ 0 \in Fees
  /\ Bicycles \subseteq Vehicles
  /\ CheckInRequests \subseteq Request
  /\ CheckOutRequests \subseteq Request
  /\ SettingsChoices \subseteq Settings /\ SettingsChoices # {}
  /\ AdjustDeltas \subseteq Int \ {0}
  /\ MaxOccupied \in Nat /\ MaxExits \in Nat
  /\ Operations \subseteq {"payment", "emergency", "adjust", "reconcile"}
  /\ NoSlot \notin Slots /\ NoSession \notin SessionIds
  /\ NoRequest \notin Request \cup Vehicles

VARIABLES
  rows,      \* committed parking_transactions
  occupied,  \* committed parking_counters.occupied
  ledger,    \* sum of counter_events.delta
  paid,      \* PAYMENT_RECEIVED lifecycle events of each session
  out,       \* COMPLETED and BARRIER_OPENED_OUT events, CHECK_OUT counter events
  settings,  \* committed capacities and quotas of the lot
  ctrLock,   \* holder of the lock on the parking_counters row
  lotLock,   \* holder of the lock on the parking_lots row
  pc,        \* where each slot is
  req,       \* the request a slot serves
  sid,       \* the session a slot works on
  seen,      \* that session's row as the slot's ORM session loaded it
  want,      \* the row as the slot's in-memory object has it
  num,       \* a number the slot read: a capacity limit or a count of sessions
  answer,    \* the last response of each slot
  answered   \* sessions returned to the check-ins that carried each key

table == <<rows, occupied, ledger, paid, out>>
local == <<req, sid, seen, want, num>>
locks == <<ctrLock, lotLock>>
vars  == <<table, settings, locks, pc, local, answer, answered>>

NoRow == [status |-> "NONE", req |-> NoRequest, fee |-> NoFee,
          lane |-> FALSE, notes |-> {}]

Places == {"idle", "ci_access", "ci_dup", "ci_ready", "ci_insert", "ci_count",
           "ci_commit", "ci_conflict", "co_find", "co_pend", "ex_flush",
           "ex_count", "em_count", "em_flush", "rc_lock"}

EntryPlaces == {"ci_access", "ci_dup", "ci_ready", "ci_insert", "ci_count", "ci_commit"}

\* Places of a request that has loaded the session it ends.
ExitPlaces == {"co_pend", "ex_flush", "ex_count", "em_count", "em_flush"}

Codes == {"NONE", "NO_ANSWER", "CREATED", "REPLAYED", "CLOSED", "PENDING", "CLOSED_BEFORE",
          "ADJUSTED", "REFUSED", "IDEMPOTENCY_KEY_REUSED", "CAPACITY_FULL",
          "PLATE_ALREADY_PARKED", "TICKET_ALREADY_ACTIVE", "SESSION_NOT_FOUND",
          "DATABASE_UNAVAILABLE"}
-----------------------------------------------------------------------------
(* Reading the tables.                                                     *)

Rows == {s \in SessionIds : rows[s].status # "NONE"}

ActiveOf(v) == {s \in Rows : rows[s].status \in Active /\ rows[s].req.veh = v}

ParkedOf(v) == {s \in ActiveOf(v) : rows[s].status = "PARKED"}

Parked == {s \in Rows : rows[s].status = "PARKED"}

Inside == {s \in Rows : rows[s].status \in Active}

ByKey(k) == {s \in Rows : rows[s].req.key = k}

\* A check-out key also matches the key the session was checked in with.
ByCheckOutKey(k) ==
  {s \in Rows : rows[s].status = "COMPLETED" /\ (k \in rows[s].notes \/ rows[s].req.key = k)}

\* Plates are looked up among PARKED sessions only, ticket codes among all open ones.
Duplicate(v) == IF v \in Bicycles THEN ActiveOf(v) ELSE ParkedOf(v)

DuplicateCode(v) == IF v \in Bicycles THEN "TICKET_ALREADY_ACTIVE"
                                      ELSE "PLATE_ALREADY_PARKED"

\* The number of vehicles up to which a customer class may still enter.
Limit(cls) ==
  LET free == settings.safe - settings.reserved
  IN IF cls = "RESIDENT" THEN settings.physical
     ELSE IF free > 0 THEN free ELSE 0
-----------------------------------------------------------------------------
(* Locks and waits of the database.                                        *)

\* The slot whose uncommitted UPDATE holds the lock on row s.
RowHeldBy(s, q) == pc[q] = "ex_count" /\ sid[q] = s

RowFree(s) == \A q \in Slots : ~RowHeldBy(s, q)

\* Slots with an uncommitted new session.
Inserting == {q \in Slots : pc[q] \in {"ci_count", "ci_commit"}}

\* Slots whose uncommitted rows the unique index on open sessions of vehicle v
\* waits for: new sessions, sessions written as PAID, open ones being closed.
IndexWaits(v) ==
  {q \in Inserting : req[q].veh = v}
    \cup {q \in Slots : pc[q] = "ex_count" /\ req[q] = NoRequest /\ seen[q].req.veh = v}
    \cup {q \in Slots : \E s \in ActiveOf(v) : RowHeldBy(s, q)}

InsertWaits(e) == IndexWaits(e.veh) \cup {q \in Inserting : req[q].key = e.key}

\* The write would make a closed session open again: PAYMENT_PENDING, or the PAID
\* that record_payment writes before it completes the session.
Reopens(r) ==
  /\ rows[sid[r]].status \notin Active
  /\ IF pc[r] = "co_pend" THEN want[r].status # seen[r].status ELSE req[r] = NoRequest

\* Mutant: the plate index covers PARKED sessions only.
InsertConflictParkedOnly(e) == ParkedOf(e.veh) # {} \/ ByKey(e.key) # {}

\* Mutant: no unique constraint on the key.
InsertConflictNoKey(e) == ActiveOf(e.veh) # {}

\* The unique indexes refuse the row: open session of the vehicle, or known key.
InsertConflict(e) == ActiveOf(e.veh) # {} \/ ByKey(e.key) # {}

CounterFree(r) == ctrLock \in {NoSlot, r}

WaitsFor(r) ==
  CASE pc[r] \in {"ci_access", "ci_count", "ex_count", "em_count", "rc_lock"} ->
         IF pc[r] = "ci_access" /\ req[r].review THEN {} ELSE {ctrLock} \ {NoSlot, r}
    [] pc[r] = "ci_ready"  -> {lotLock} \ {NoSlot}
    [] pc[r] = "ci_insert" -> InsertWaits(req[r])
    [] pc[r] = "em_flush"  -> {q \in Slots : RowHeldBy(sid[r], q)}
    [] pc[r] \in {"co_pend", "ex_flush"} ->
         IF RowFree(sid[r])
         THEN IF Reopens(r) THEN IndexWaits(seen[r].req.veh) ELSE {}
         ELSE {q \in Slots : RowHeldBy(sid[r], q)}
    [] OTHER -> {}

\* A set of slots each of which waits for another one of the set.
Deadlocked(D) ==
  /\ D # {}
  /\ \A q \in D : WaitsFor(q) \cap D # {} /\ \E p \in D : q \in WaitsFor(p)

\* Mutant: the lot stays locked.
ReleaseCounterOnly(r) ==
  /\ ctrLock' = IF ctrLock = r THEN NoSlot ELSE ctrLock
  /\ UNCHANGED lotLock

\* Commit or rollback: the slot's locks are released, its session is closed.
Release(r) ==
  /\ ctrLock' = IF ctrLock = r THEN NoSlot ELSE ctrLock
  /\ lotLock' = IF lotLock = r THEN NoSlot ELSE lotLock

Forget(r) ==
  /\ req'  = [req  EXCEPT ![r] = NoRequest]
  /\ sid'  = [sid  EXCEPT ![r] = NoSession]
  /\ seen' = [seen EXCEPT ![r] = NoRow]
  /\ want' = [want EXCEPT ![r] = NoRow]
  /\ num'  = [num  EXCEPT ![r] = 0]

Finish(r, code) ==
  /\ Release(r)
  /\ Forget(r)
  /\ pc' = [pc EXCEPT ![r] = "idle"]
  /\ answer' = [answer EXCEPT ![r] = code]

\* An error response: get_db rolls the transaction back.
Fail(r, code) ==
  /\ Finish(r, code)
  /\ UNCHANGED <<table, settings, answered>>

Goto(r, place) == pc' = [pc EXCEPT ![r] = place]

\* The request is refused by a check on data outside this model.
Refuse(r) ==
  /\ pc[r] \in {"ci_access", "ci_insert", "co_find"}
  /\ Fail(r, "REFUSED")

\* The worker or its connection dies; PostgreSQL rolls back what was not committed.
ConnectionLost(r) ==
  /\ pc[r] # "idle"
  /\ Fail(r, "NO_ANSWER")

\* PostgreSQL's deadlock detector cancels a transaction of a waiting cycle.
DeadlockVictim(r) ==
  /\ \E D \in SUBSET Slots : r \in D /\ Deadlocked(D)
  /\ Fail(r, "DATABASE_UNAVAILABLE")
-----------------------------------------------------------------------------
(* Check-in: CheckInService.process_check_in.                              *)

\* The fingerprint covers plate or ticket code and override reason, not the class.
SameFingerprint(a, b) == a.veh = b.veh /\ a.review = b.review

\* The stored session of a known key is returned if the fingerprint matches.
Replay(r, e, s) ==
  /\ Finish(r, IF SameFingerprint(rows[s].req, e)
               THEN "REPLAYED" ELSE "IDEMPOTENCY_KEY_REUSED")
  /\ answered' = IF SameFingerprint(rows[s].req, e)
                 THEN [answered EXCEPT ![e.key] = @ \cup {s}] ELSE answered
  /\ UNCHANGED <<table, settings>>

\* Bound: every check-in under way finds an unused session id.
RoomForEntry ==
  Cardinality(Rows) + Cardinality({q \in Slots : pc[q] \in EntryPlaces})
    < Cardinality(SessionIds)

\* The request arrives; its key is looked up.
CheckIn(r, e) ==
  /\ pc[r] = "idle"
  /\ \/ \E s \in ByKey(e.key) : Replay(r, e, s)
     \/ /\ ByKey(e.key) = {}
        /\ RoomForEntry
        /\ Goto(r, "ci_access")
        /\ req' = [req EXCEPT ![r] = e]
        /\ UNCHANGED <<table, settings, locks, sid, seen, want, num, answer, answered>>

\* Mutant: residents skip the capacity pre-check too.
PreChecksVisitors(e) == ~e.review /\ e.cls = "VISITOR"

\* An overridden REVIEW is answered before the counter is read and locked.
PreChecksCapacity(e) == ~e.review

\* evaluate_access_control: reads the counter FOR UPDATE and checks the capacity.
AccessControl(r) ==
  /\ pc[r] = "ci_access"
  /\ \/ /\ ~PreChecksCapacity(req[r])
        /\ Goto(r, "ci_dup")
        /\ UNCHANGED <<table, settings, locks, local, answer, answered>>
     \/ /\ PreChecksCapacity(req[r])
        /\ CounterFree(r)
        /\ occupied < Limit(req[r].cls)
        /\ ctrLock' = r
        /\ Goto(r, "ci_dup")
        /\ UNCHANGED <<table, settings, lotLock, local, answer, answered>>
     \/ /\ PreChecksCapacity(req[r])
        /\ CounterFree(r)
        /\ occupied >= Limit(req[r].cls)
        /\ Fail(r, "CAPACITY_FULL")

\* The vehicle must have no open session that the lookup sees.
DuplicateCheck(r) ==
  /\ pc[r] = "ci_dup"
  /\ \/ /\ Duplicate(req[r].veh) # {}
        /\ Fail(r, DuplicateCode(req[r].veh))
     \/ /\ Duplicate(req[r].veh) = {}
        /\ Goto(r, "ci_ready")
        /\ UNCHANGED <<table, settings, locks, local, answer, answered>>

\* Mutant: the lot is read without FOR UPDATE.
RequireReadyUnlocked(r) ==
  /\ pc[r] = "ci_ready"
  /\ Goto(r, "ci_insert")
  /\ UNCHANGED <<table, settings, locks, local, answer, answered>>

\* require_ready_for_entry: SELECT parking_lots FOR UPDATE.
RequireReady(r) ==
  /\ pc[r] = "ci_ready"
  /\ lotLock = NoSlot
  /\ lotLock' = r
  /\ Goto(r, "ci_insert")
  /\ UNCHANGED <<table, settings, ctrLock, local, answer, answered>>

\* save_transaction: the INSERT is flushed, or refused by a unique index.
InsertSession(r) ==
  /\ pc[r] = "ci_insert"
  /\ InsertWaits(req[r]) = {}
  /\ \/ /\ ~InsertConflict(req[r])
        /\ \E s \in SessionIds \ Rows :
             /\ \A q \in Inserting : sid[q] # s
             /\ sid' = [sid EXCEPT ![r] = s]
        /\ Goto(r, "ci_count")
        /\ UNCHANGED <<table, settings, locks, req, seen, want, num, answer, answered>>
     \/ /\ InsertConflict(req[r])
        /\ Release(r)
        /\ Goto(r, "ci_conflict")
        /\ UNCHANGED <<table, settings, local, answer, answered>>

\* After IntegrityError and rollback: replay, explain, or re-raise.
ExplainConflict(r) ==
  /\ pc[r] = "ci_conflict"
  /\ \/ \E s \in ByKey(req[r].key) : Replay(r, req[r], s)
     \/ /\ ByKey(req[r].key) = {}
        /\ Fail(r, IF Duplicate(req[r].veh) # {} THEN DuplicateCode(req[r].veh)
                                                 ELSE "DATABASE_UNAVAILABLE")

\* increment_atomic: lock the counter row and read the limit.
LockCounterForEntry(r) ==
  /\ pc[r] = "ci_count"
  /\ CounterFree(r)
  /\ ctrLock' = r
  /\ num' = [num EXCEPT ![r] = Limit(req[r].cls)]
  /\ Goto(r, "ci_commit")
  /\ UNCHANGED <<table, settings, lotLock, req, sid, seen, want, answer, answered>>

\* Mutant: on entry the ORM object does not follow the UPDATE, on exit it does.
IncrementedByOne(n) == n + 1

\* The UPDATE adds one and so does the synchronized ORM object; the flush writes it.
Incremented(n) == n + 2

\* The row that a check-in inserts.
NewSession(e) == [status |-> "PARKED", req |-> e, fee |-> NoFee,
                  lane |-> FALSE, notes |-> {}]

\* Mutant: an UPDATE without its condition.
CommitEntryUnconditional(r) ==
  /\ pc[r] = "ci_commit"
  /\ rows' = [rows EXCEPT ![sid[r]] = NewSession(req[r])]
  /\ occupied' = Incremented(occupied)
  /\ ledger' = ledger + 1
  /\ answered' = [answered EXCEPT ![req[r].key] = @ \cup {sid[r]}]
  /\ Finish(r, "CREATED")
  /\ UNCHANGED <<paid, out, settings>>

\* increment_atomic's conditional UPDATE, the barrier event and the commit.
CommitEntry(r) ==
  /\ pc[r] = "ci_commit"
  /\ \/ /\ occupied < num[r]
        /\ rows' = [rows EXCEPT ![sid[r]] = NewSession(req[r])]
        /\ occupied' = Incremented(occupied)
        /\ ledger' = ledger + 1
        /\ answered' = [answered EXCEPT ![req[r].key] = @ \cup {sid[r]}]
        /\ Finish(r, "CREATED")
        /\ UNCHANGED <<paid, out, settings>>
     \/ /\ occupied >= num[r]
        /\ Fail(r, "CAPACITY_FULL")
-----------------------------------------------------------------------------
(* Check-out and payment: CheckOutService.                                 *)

\* Mutant: no floor at 0.
DecrementedBelowZero(n) == n - 2

\* decrement_atomic: the UPDATE and then the ORM object take one off, never below 0.
Decremented(n) == IF n >= 2 THEN n - 2 ELSE 0

\* An ORM flush writes the columns that differ from their loaded values.
Written(loaded, new, committed) == IF new = loaded THEN committed ELSE new

WriteBack(r) ==
  LET s == sid[r]
      cur == rows[s]
  IN [rows EXCEPT ![s] =
       [status |-> Written(seen[r].status, want[r].status, cur.status),
        req    |-> cur.req,
        fee    |-> Written(seen[r].fee, want[r].fee, cur.fee),
        lane   |-> Written(seen[r].lane, want[r].lane, cur.lane),
        notes  |-> Written(seen[r].notes, want[r].notes, cur.notes)]]

Load(r, s, new, place) ==
  /\ sid'  = [sid EXCEPT ![r] = s]
  /\ seen' = [seen EXCEPT ![r] = rows[s]]
  /\ want' = [want EXCEPT ![r] = new]
  /\ Goto(r, place)

Completed(row, fee, notes) ==
  [row EXCEPT !.status = "COMPLETED", !.fee = fee, !.lane = TRUE, !.notes = notes]

Pending(row, fee, notes) ==
  [row EXCEPT !.status = "PAYMENT_PENDING", !.fee = fee, !.lane = TRUE, !.notes = notes]

\* Bound on the exits that begin.
ExitsLeft(v) == \A s \in ActiveOf(v) : out[s] < MaxExits

\* process_checkout: a session closed before under this key is returned.
CheckOut(r, e) ==
  /\ pc[r] = "idle"
  /\ \/ /\ ByCheckOutKey(e.key) # {}
        /\ Fail(r, "CLOSED_BEFORE")
     \/ /\ ByCheckOutKey(e.key) = {}
        /\ ExitsLeft(e.veh)
        /\ Goto(r, "co_find")
        /\ req' = [req EXCEPT ![r] = e]
        /\ UNCHANGED <<table, settings, locks, sid, seen, want, num, answer, answered>>

\* _find_single_session, the lane and vehicle checks, and the fee.
FindSession(r) ==
  /\ pc[r] = "co_find"
  /\ \/ /\ ActiveOf(req[r].veh) = {}
        /\ Fail(r, "SESSION_NOT_FOUND")
     \/ \E s \in ActiveOf(req[r].veh), fee \in Fees :
          LET notes == rows[s].notes \cup {req[r].key}
          IN /\ IF fee = 0 \/ req[r].pay
                THEN Load(r, s, Completed(rows[s], fee, notes), "ex_flush")
                ELSE Load(r, s, Pending(rows[s], fee, notes), "co_pend")
             /\ UNCHANGED <<table, settings, locks, req, num, answer, answered>>

\* The write gets past the unique index, is refused by it, or still waits.
Reopenable(r) ==
  Reopens(r) => IndexWaits(seen[r].req.veh) = {} /\ ActiveOf(seen[r].req.veh) = {}

ReopeningRefused(r) ==
  /\ Reopens(r)
  /\ IndexWaits(seen[r].req.veh) = {} /\ ActiveOf(seen[r].req.veh) # {}
  /\ Fail(r, "DATABASE_UNAVAILABLE")

\* Fee due and no payment method: the session waits for its payment.
AwaitPayment(r) ==
  /\ pc[r] = "co_pend"
  /\ RowFree(sid[r])
  /\ \/ ReopeningRefused(r)
     \/ /\ Reopenable(r)
        /\ rows' = WriteBack(r)
        /\ Finish(r, "PENDING")
        /\ UNCHANGED <<occupied, ledger, paid, out, settings, answered>>

\* Mutant: the session's status is not checked.
RecordPaymentAnyStatus(r) ==
  /\ "payment" \in Operations
  /\ pc[r] = "idle"
  /\ \E s \in Rows :
       /\ rows[s].lane /\ out[s] <= MaxExits
       /\ Load(r, s, Completed(rows[s], rows[s].fee, rows[s].notes), "ex_flush")
  /\ UNCHANGED <<table, settings, locks, req, num, answer, answered>>

\* record_payment on a PAYMENT_PENDING session.
RecordPayment(r) ==
  /\ "payment" \in Operations
  /\ pc[r] = "idle"
  /\ \E s \in Inside :
       /\ rows[s].status = "PAYMENT_PENDING" /\ rows[s].lane
       /\ out[s] < MaxExits
       /\ Load(r, s, Completed(rows[s], rows[s].fee, rows[s].notes), "ex_flush")
  /\ UNCHANGED <<table, settings, locks, req, num, answer, answered>>

\* The row is flushed, PAID by record_payment, EXITED by _complete_session.
FlushExit(r) ==
  /\ pc[r] = "ex_flush"
  /\ RowFree(sid[r])
  /\ \/ ReopeningRefused(r)
     \/ /\ Reopenable(r)
        /\ Goto(r, "ex_count")
        /\ UNCHANGED <<table, settings, locks, local, answer, answered>>

\* A payment event goes with every exit through payment or with a fee.
PaymentEvents(r) == IF want[r].fee > 0 \/ req[r] = NoRequest THEN 1 ELSE 0

\* _complete_session: decrement_atomic and commit.
CommitExit(r) ==
  /\ pc[r] = "ex_count"
  /\ CounterFree(r)
  /\ rows' = WriteBack(r)
  /\ occupied' = Decremented(occupied)
  /\ ledger' = ledger - 1
  /\ paid' = [paid EXCEPT ![sid[r]] = @ + PaymentEvents(r)]
  /\ out' = [out EXCEPT ![sid[r]] = @ + 1]
  /\ Finish(r, "CLOSED")
  /\ UNCHANGED <<settings, answered>>
-----------------------------------------------------------------------------
(* Emergency exit: EmergencyService.open_emergency_exit.                   *)

EmergencyExit(r) ==
  /\ "emergency" \in Operations
  /\ pc[r] = "idle"
  /\ \E s \in Inside :
       /\ out[s] < MaxExits
       /\ Load(r, s, Completed(rows[s], 0, rows[s].notes \cup {Evacuation}), "em_count")
  /\ UNCHANGED <<table, settings, locks, req, num, answer, answered>>

\* decrement_atomic locks the counter before the session row is flushed.
LockCounterForEmergency(r) ==
  /\ pc[r] = "em_count"
  /\ CounterFree(r)
  /\ ctrLock' = r
  /\ Goto(r, "em_flush")
  /\ UNCHANGED <<table, settings, lotLock, local, answer, answered>>

CommitEmergency(r) ==
  /\ pc[r] = "em_flush"
  /\ RowFree(sid[r])
  /\ rows' = WriteBack(r)
  /\ occupied' = Decremented(occupied)
  /\ ledger' = ledger - 1
  /\ out' = [out EXCEPT ![sid[r]] = @ + 1]
  /\ Finish(r, "CLOSED")
  /\ UNCHANGED <<paid, settings, answered>>
-----------------------------------------------------------------------------
(* The counter's administration and the lot settings.                      *)

\* Mutant: the counter is read and written without the lock on its row.
AdjustCounterUnlocked(d) ==
  /\ "adjust" \in Operations
  /\ occupied + d \in 0 .. MaxOccupied
  /\ occupied' = occupied + d
  /\ ledger' = ledger + d
  /\ UNCHANGED <<rows, paid, out, settings, locks, pc, local, answer, answered>>

\* adjust_counter with the counter row locked, and commit.
AdjustCounter(d) ==
  /\ "adjust" \in Operations
  /\ ctrLock = NoSlot
  /\ occupied + d \in 0 .. MaxOccupied
  /\ occupied' = occupied + d
  /\ ledger' = ledger + d
  /\ UNCHANGED <<rows, paid, out, settings, locks, pc, local, answer, answered>>

\* reconcile_and_adjust counts the PARKED sessions before it locks the counter.
Reconcile(r) ==
  /\ "reconcile" \in Operations
  /\ pc[r] = "idle"
  /\ num' = [num EXCEPT ![r] = Cardinality(Parked)]
  /\ Goto(r, "rc_lock")
  /\ UNCHANGED <<table, settings, locks, req, sid, seen, want, answer, answered>>

\* The counter is moved to the count by an adjustment, if they differ.
CommitReconcile(r) ==
  /\ pc[r] = "rc_lock"
  /\ CounterFree(r)
  /\ occupied' = num[r]
  /\ ledger' = ledger + (num[r] - occupied)
  /\ Finish(r, "ADJUSTED")
  /\ UNCHANGED <<rows, paid, out, settings, answered>>

\* Mutant: settings are saved without locking the lot.
WriteSettingsUnlocked(c) ==
  /\ c.safe >= Cardinality(Parked)
  /\ settings' = c
  /\ UNCHANGED <<table, locks, pc, local, answer, answered>>

\* write_settings with the lot locked: not below the PARKED sessions.
WriteSettings(c) ==
  /\ lotLock = NoSlot
  /\ c.safe >= Cardinality(Parked)
  /\ settings' = c
  /\ UNCHANGED <<table, locks, pc, local, answer, answered>>
-----------------------------------------------------------------------------
Init ==
  /\ rows = [s \in SessionIds |-> NoRow]
  /\ occupied = 0 /\ ledger = 0
  /\ paid = [s \in SessionIds |-> 0] /\ out = [s \in SessionIds |-> 0]
  /\ settings \in SettingsChoices
  /\ ctrLock = NoSlot /\ lotLock = NoSlot
  /\ pc = [r \in Slots |-> "idle"]
  /\ req = [r \in Slots |-> NoRequest]
  /\ sid = [r \in Slots |-> NoSession]
  /\ seen = [r \in Slots |-> NoRow] /\ want = [r \in Slots |-> NoRow]
  /\ num = [r \in Slots |-> 0]
  /\ answer = [r \in Slots |-> "NONE"]
  /\ answered = [k \in Keys |-> {}]

\* What a served request does on its own once it has arrived.
Step(r) ==
  \/ AccessControl(r) \/ DuplicateCheck(r) \/ RequireReady(r) \/ InsertSession(r)
  \/ ExplainConflict(r) \/ LockCounterForEntry(r) \/ CommitEntry(r)
  \/ FindSession(r) \/ AwaitPayment(r) \/ FlushExit(r) \/ CommitExit(r)
  \/ LockCounterForEmergency(r) \/ CommitEmergency(r) \/ CommitReconcile(r)

Arrive(r) ==
  \/ \E e \in CheckInRequests : CheckIn(r, e)
  \/ \E e \in CheckOutRequests : CheckOut(r, e)
  \/ RecordPayment(r) \/ EmergencyExit(r) \/ Reconcile(r)

Next ==
  \/ \E r \in Slots : Arrive(r) \/ Step(r) \/ Refuse(r) \/ ConnectionLost(r)
                      \/ DeadlockVictim(r)
  \/ \E d \in AdjustDeltas : AdjustCounter(d)
  \/ \E c \in SettingsChoices : WriteSettings(c)

Spec == Init /\ [][Next]_vars

\* Requests run to their end; row locks are granted in the order of the waiters,
\* so no waiter is overtaken for ever; the deadlock detector always comes.
Fairness ==
  \A r \in Slots : SF_vars(Step(r)) /\ WF_vars(DeadlockVictim(r))

FairSpec == Spec /\ Fairness
-----------------------------------------------------------------------------
(* Properties.                                                             *)

\* The type invariant: the counter is a number that never falls below 0 however
\* check-outs, emergency exits and adjustments mix, and every column, lock and
\* in-memory object holds a value of its type.
TypeOK ==
  /\ rows \in [SessionIds -> Row]
  /\ occupied \in Nat /\ ledger \in Int
  /\ paid \in [SessionIds -> Nat] /\ out \in [SessionIds -> Nat]
  /\ settings \in Settings
  /\ ctrLock \in Slots \cup {NoSlot} /\ lotLock \in Slots \cup {NoSlot}
  /\ pc \in [Slots -> Places]
  /\ req \in [Slots -> Request \cup {NoRequest}]
  /\ sid \in [Slots -> SessionIds \cup {NoSession}]
  /\ seen \in [Slots -> Row] /\ want \in [Slots -> Row]
  /\ num \in [Slots -> Nat]
  /\ answer \in [Slots -> Codes]
  /\ answered \in [Keys -> SUBSET SessionIds]

\* A vehicle never has two open sessions: neither two racing check-ins nor a
\* late check-out that writes PAYMENT_PENDING over a closed session while the
\* vehicle has entered again get past the partial unique index.
OneOpenSessionPerVehicle ==
  \A s, t \in Inside : rows[s].req.veh = rows[t].req.veh => s = t

\* All successful check-ins that carried one Idempotency-Key, retries and
\* concurrent duplicates included, were given the same session, which was
\* created by that key.
KeyAnswersOneSession ==
  \A k \in Keys : \A s, t \in answered[k] :
    s = t /\ rows[s].status # "NONE" /\ rows[s].req.key = k

\* Every lock belongs to a request that is still going to commit or roll back:
\* none of the early returns and error answers leaves the counter or the lot
\* locked behind.
LocksBelongToRequests ==
  /\ ctrLock # NoSlot => pc[ctrLock] \in {"ci_dup", "ci_ready", "ci_insert", "ci_count",
                                          "ci_commit", "em_flush"}
  /\ lotLock # NoSlot => pc[lotLock] \in {"ci_insert", "ci_count", "ci_commit"}

\* What keeps concurrent requests apart.  A check-in between the lock on the lot
\* and its commit is the only one there; its uncommitted session clashes with no
\* committed one and its limit is still the settings' limit; a request that
\* leaves works on a session that exists and that nobody has renamed.
InsertIsSerialized(r) ==
  /\ pc[r] \in {"ci_insert", "ci_count", "ci_commit"} => lotLock = r
  /\ pc[r] \in {"ci_count", "ci_commit"} =>
       /\ sid[r] \in SessionIds /\ rows[sid[r]].status = "NONE"
       /\ ActiveOf(req[r].veh) = {} /\ ByKey(req[r].key) = {}
  /\ pc[r] = "ci_commit" => num[r] = Limit(req[r].cls)

InsertsAreSerialized == \A r \in Slots : InsertIsSerialized(r)

ExitKnowsItsSession(r) ==
  /\ pc[r] \in EntryPlaces \cup {"ci_conflict", "co_find"} => req[r] \in Request
  /\ pc[r] \in ExitPlaces =>
       /\ sid[r] \in Rows /\ seen[r].req = rows[sid[r]].req
       /\ want[r].status = IF pc[r] = "co_pend" THEN "PAYMENT_PENDING" ELSE "COMPLETED"

ExitsKnowTheirSession == \A r \in Slots : ExitKnowsItsSession(r)

\* Every session has a request of its own, and only sessions of a key are
\* returned for it.
SessionsHaveTheirKey ==
  /\ \A s \in Rows : rows[s].req \in Request
  /\ \A s, t \in Rows : rows[s].req.key = rows[t].req.key => s = t
  /\ \A k \in Keys : answered[k] \subseteq ByKey(k)

\* The inductive invariant behind the theorems: the locks, the uncommitted
\* inserts and the loaded sessions of all requests agree with the tables.
RequestsAgreeWithTables ==
  /\ TypeOK
  /\ LocksBelongToRequests
  /\ InsertsAreSerialized
  /\ ExitsKnowTheirSession
  /\ SessionsHaveTheirKey
  /\ OneOpenSessionPerVehicle

\* A session is created only while the counter is below the limit that the
\* committed settings give the customer's class at that moment: a capacity
\* reduction cannot slip in between the limit an entry read and its commit.
EntryWithinLimit ==
  [][\A s \in SessionIds :
       rows[s].status = "NONE" /\ rows'[s].status # "NONE"
         => occupied < Limit(rows'[s].req.cls)]_vars

\* The lock order is inverted only by an overridden check-in (lot before
\* counter), an emergency exit (counter before session row) or the re-entry of
\* a vehicle whose exit is under way; requests of other kinds never deadlock.
DeadlockNeedsInversion ==
  \A D \in SUBSET Slots : Deadlocked(D) =>
    \E r \in D :
      \/ pc[r] \in EntryPlaces /\ req[r].review
      \/ pc[r] = "em_flush"
      \/ /\ pc[r] = "ci_insert"
         /\ \E q \in D : pc[q] = "ex_count" /\ seen[q].req.veh = req[r].veh

\* Every request is answered: waiting for locks, conflicts and deadlocks all
\* end in a commit or a rollback.
RequestAnswered == \A r \in Slots : pc[r] # "idle" ~> pc[r] = "idle"

\* A session is closed at most once: one barrier opening, one COMPLETED event
\* and one CHECK_OUT counter event, also when the check-out is sent again.
CheckOutOnce == \A s \in SessionIds : out[s] <= 1

\* Without adjustments the counter never exceeds twice the vehicles inside, however
\* exits overlap: what it gets wrong (an exit counted twice, a take-off at the floor of 0)
\* makes it too low, never too high.
CounterNeverOvercounts == occupied <= 2 * Cardinality(Inside)

\* Without adjustments a check-in is refused for capacity only when the vehicles
\* really inside, which the counter counts twice, take up half of the limit of its class
\* that is in force at that moment, even if the limit was read some steps before.
FullOnlyFromHalf ==
  [][\A r \in Slots :
       pc[r] # "idle" /\ pc'[r] = "idle" /\ answer'[r] = "CAPACITY_FULL"
         => 2 * Cardinality(Inside) >= Limit(req[r].cls)]_vars

\* A check-in that has found the counter below the limit in access control (and was
\* not waved through by an override) finds it unchanged when it commits: no exit,
\* emergency exit, adjustment, reconciliation or other entry gets in between.
CounterFoundStands ==
  [][\A r \in Slots :
       pc[r] \in EntryPlaces \ {"ci_access"} /\ PreChecksCapacity(req[r]) /\ occupied' # occupied
         => pc[r] = "ci_commit" /\ pc'[r] = "idle"]_vars

\* The counter is the sum of the counter events: one up per check-in, one down
\* per check-out.
CounterMatchesLedger == occupied = ledger
=============================================================================
