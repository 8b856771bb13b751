# VisionPark-AI: verification project

TLA+ modules, TLC configurations and TLAPS proofs for the backend of VisionPark-AI
(`src/backend/app`), a FastAPI service over PostgreSQL that runs an apartment building's
car park: vehicles are recognised at a lane, checked in, billed, checked out, and the
barrier is opened.

Paths below are relative to `src/backend/app/modules` unless they start with `src/`.

## 1. The system

All durable state is in PostgreSQL. A request is a handler with one SQLAlchemy session
(`database/session.py`, autoflush off, READ COMMITTED); concurrency exists between
requests, and what coordinates them is row locks (`SELECT ... FOR UPDATE`), conditional
`UPDATE`s and unique indexes. Synchronous handlers run on a thread pool, `async` handlers on
the event loop. Nothing else is shared, there are no background jobs in the backend.

| Component | State | Operations | What is hard |
|---|---|---|---|
| Check-in (`checkin/service.py`, `access_control.py`, `repository.py`) | `parking_transactions` | `process_check_in`, replay by Idempotency-Key, review override | lookup before insert, two unique indexes, three locks in two orders, rollback and second lookup after `IntegrityError` |
| Occupancy counter (`checkin/counter_service.py`, `capacity_quota_stub.py`) | `parking_counters`, `counter_events` | `increment_atomic`, `decrement_atomic`, `adjust_counter`, limits per customer class | limit read before the conditional update; `UPDATE` next to an ORM object; creation of the row |
| Reconciliation (`checkin/counter_reconciliation.py`, `src/backend/app/api/v1/endpoints/parking.py`) | the same | `reconcile_and_adjust`, offline compensation | counts before it locks |
| Check-out and session payment (`checkout/service.py`) | sessions, lifecycle and barrier events | `process_checkout`, `record_payment`, preview | session loaded without a lock, written by the flush later; retry under the same key |
| Emergency exit (`operations/emergency_service.py`) | sessions, counter | `open_emergency_exit` | lock order counter before session |
| Lot settings (`lot_settings/service.py`, `router.py`) | `parking_lots`, revisions | read, save, copy, readiness | capacity lowered during an entry; optimistic revision; lock order when copying |
| Invoices and payments (`pricing/billing.py`, `billing_router.py`) | `invoices`, `payments`, `guest_invites` | `create_invoice`, `create_payment`, `apply_callback`, reconcile report | late, repeated, reordered provider callbacks; a lock kept until the session is closed; the event loop |
| Pricing rules (`pricing/domain.py`, `service.py`, `router.py`) | price versions, the snapshot in a session | publish, `calculate_fee`, `validate_ticket`, fee of a check-out | block and day boundaries, a pass that ends during the stay, what changes under a parked vehicle |
| Tickets, passes, quotas (`pricing/tickets_router.py`) | classes, products, vehicles, subscriptions, quotas, invites | create, import, sell, set quota | sale limit and quota against concurrent sales |
| Barriers (`barriers/service.py`) | gate log | open, emergency open, close, timeout | which session an opening belongs to; late closings |
| Session history (`checkin/lifecycle_service.py`, `lifecycle/service.py`) | lifecycle events | timeline, paged list | four writers; pages that move while they are read |
| Accounts and tokens (`users`, `auth`, `operations`, `src/backend/app/core/security.py`) | users, `token_version` | login, update, logout, forced logout, change of password | unlocked read-increment-write of `token_version` |
| Tenancy (`src/backend/app/database/tenant.py`) | building scope of a session | query filters, check of every flush | ids from clients, sessions without scope |
| Plate recognition (`src/backend/app/alpr`) | loaded models | load, warm up, detect, read, review policy | unlocked lazy loading; failing loads |
| Vote and fire detection (`alpr/multi_frame_voter.py`, `fire_provider.py`) | window, histories per camera | push, vote; process a frame | forgetting, ties; frames that overtake each other |
| Detections (`alpr/service.py`, `detection_recorder_impl.py`, `alpr/confirmation.py`) | detections, image files | upload, retry of a capture, confirm, history | file before row, lost acknowledgements, NULL in filters |
| M5, lanes, preferences, error reports (`m5`, `lanes`, `operations`) | one row per device, day, lane name, user | heartbeat, rebuild, create, rename, report | look up, then insert, without a lock |
| Buildings, audit log | rows | create, switch off | none of their own |
| Web client (`src/frontend`) | browser state | station flow | out of scope |

How they interact: check-in calls the access control, which reads the counter and the lot;
locks the lot, inserts the session, increments the counter and writes a barrier event, all
in one transaction. Check-out loads the session, charges the fee, flushes it, decrements the
counter, and opens the barrier. Billing reads the session (locked while an invoice is made)
but does not complete it. Lot settings are read by every entry under the lock of the lot.
A price version and the pass of a vehicle are copied into the session at check-in; the
check-out asks the pass again. A detection is uploaded before the check-in that names it, and
may be confirmed together with it or on its own. Every request passes the token check
(Accounts) and gets a session that is scoped to one building (Tenancy).

What makes each part correct:

- *Check-in and out*: one open session per vehicle; one session per key; closed once; paid
  before it is closed; entries within the limit in force; no lock left behind.
- *Counter*: equal to the sum of its events, never negative, moved only with an event.
- *Billing*: a PAID invoice is backed by money; one outstanding QR code; an invite is used
  once; a settled payment stays settled; every callback is answered.
- *Lot settings*: a save replaces what its author saw; capacity covers what is parked;
  copies never deadlock. *Pricing*: the fee is that of the minutes begun and never falls.
  *Tickets*: sales within limit and quota, no overlapping packages.
- *Accounts*: a revoked token never works again; *tenancy*: no row of another building is
  changed or referred to; *registry*: one row per key.
- *Recognition*: an unreviewed plate was read, surely enough, in the clearest box; *vote* and
  *fire*: what is reported agrees with the frames shown; *detections*: every row has its image,
  a capture has one answer; *barriers*: the timeline tells what the gate log knows.

PROJECT.json lists the hazards at their lines.

## 2. Modules

| Module | What it is |
|---|---|
| `ParkingSessions` | the core: check-in, check-out, payment, emergency exit, counter adjustment, reconciliation, capacity settings, as concurrent database transactions |
| `ParkingPromise` | abstract specification: a vehicle enters, leaves once and for good, owes nothing, unless two requests let it out at the same time |
| `ExitHistory` | `ParkingSessions` with history variables of the exits that overlapped and of the adjustments |
| `Billing` | invoices, payments, provider callbacks, with row locks and the event loop |
| `LotSettings` | settings of the lots, copies, the entries that depend on them, the counter row |
| `Accounts` | accounts and access tokens |
| `Registry` | lanes, devices, daily statistics, preferences, error reports |
| `Tenancy` | which rows of which building a request reads and writes |
| `Tickets` | catalogue, sales, quotas of one building |
| `Pricing` | price versions, passes, fee of one vehicle |
| `FrameFilters` | plate vote and fire filter over sequences of frames |
| `Recognition` | one frame through detector, OCR and review policy, with model loading |
| `Detections` | stored detections with image files, capture retries, confirmation, status filters |
| `Barriers` | gate log, timeline, paged session list |
| `Workers` | what the modules of the administration and the gates share: slots, buildings, dirty columns |
| `MCParkingSessions`, `MCExitHistory`, `MCBilling`, `MCAccounts`, `MCPricing`, `MCDetections` | request sets, capacities, tariffs, symmetry for TLC |
| `MCAdministration`, `MCGates` | one instance each for `LotSettings`, `Accounts`, `Registry`, `Tenancy`, `Tickets`, and for `Pricing`, `FrameFilters`, `Recognition`, `Barriers` |
| `ParkingSessions_proofs`, `ExitHistory_proofs` | theorems about `ParkingSessions` and, for exits and the counter, about `ExitHistory`; any number of workers |
| `Billing_proofs`, `LotSettings_proofs`, `Pricing_proofs` | theorems about one module each |
| `Administration_proofs` | theorems about `Accounts`, `Tenancy`, `Registry` and `Tickets` |
| `Barriers_proofs` | theorems about `Barriers` |
| `Gates_proofs` | theorems about `Detections`, `Recognition` and `FrameFilters` |

### ParkingSessions

A *slot* is a worker that serves one request: `pc`, `req`, `sid` (its session), `seen` (the
row as its ORM session loaded it), `want` (the object in memory), `num`. Tables: `rows`,
`occupied`, `ledger` (the sum of `counter_events.delta`), `paid`, `out`, `settings`. Locks:
`ctrLock`, `lotLock`; the lock on a session row and the wait of a unique index follow from
where the slots are (`RowHeldBy`, `IndexWaits`).

A step reaches from one point where another transaction can be read or waited for to the
next; what is written becomes visible with the commit, which is the last step.

| Request | Steps |
|---|---|
| check-in | `CheckIn` (key lookup, replay) → `AccessControl` (counter FOR UPDATE) → `DuplicateCheck` → `RequireReady` (lot FOR UPDATE) → `InsertSession` (flush) → `LockCounterForEntry` → `CommitEntry`; after an index conflict `ExplainConflict` |
| check-out | `CheckOut` → `FindSession` → `AwaitPayment`, or `FlushExit` → `CommitExit` |
| payment | `RecordPayment` → `FlushExit` → `CommitExit` |
| emergency exit | `EmergencyExit` → `LockCounterForEmergency` → `CommitEmergency` |
| reconciliation | `Reconcile` (count) → `CommitReconcile` |
| one statement under one lock | `AdjustCounter`, `WriteSettings` |
| any request | `Refuse`, `ConnectionLost`, `DeadlockVictim` |

Details taken from the code that matter:

- A flush writes only the columns of an object that differ from what was loaded
  (`Written`, `WriteBack`), so a late exit overwrites a status but keeps other columns.
- `increment_atomic` and `decrement_atomic` change the counter twice (`Incremented`,
  `Decremented`): the `UPDATE` is also applied to the loaded object, which is then changed once
  more and flushed.
- The duplicate lookup of a plate sees PARKED sessions, that of a ticket code all open ones;
  the partial unique index covers all open ones.
- An overridden REVIEW returns from the access control before the counter is locked, so such a
  check-in locks lot before counter; all others lock counter before lot. An emergency exit
  locks the counter before its session row, a check-out the row before the counter.
- A status that makes a closed session open again, PAYMENT_PENDING or the PAID that
  `record_payment` flushes first, goes through the unique index (`Reopens`).
- The fingerprint of a check-in covers vehicle and override reason, not the class that the
  access control finds out (`SameFingerprint`).

Abstractions: one building and one vehicle type (counters and lots of others are other
rows); a fee is any member of `Fees`; data checks on lane, detection, ticket, price and
vehicle are one refusal (`Refuse`); a row lock and the wait of an index by one flush are one
step; an error releases the locks at once (Billing models the delay until `get_db` closes the
session); the counter's row exists; MANAGER permissions are taken as given. "Mutant" operators
in the modules state a plausible mistake in the definition that follows; no specification
uses them.

### Billing

The invoice of a session is identified by the session (`invoices.session_id` is unique); a
payment is committed by `WritePayment`. `held` gives each slot's locked rows. A handler that
commits releases them (`End`), one that answers or raises without a commit goes to
`closing` (`LeaveLocked`) and releases them when the event loop starts `get_db`'s exit
(`Close`). The callback is an `async` handler: from `ProviderCallback` until it ends it occupies
`loop`, and nothing else is dispatched or closed. Abstracted: fee and total are any member of
`Amounts`; "returns the existing invoice" and "refuses because the terms differ" both leave the
row locked and write nothing; the replayed payment and the conflict of its key likewise; the
answers of callbacks; the `IntegrityError` branch of `create_payment`, which the invoice's lock
makes unreachable. `SessionLeaves` stands for a check-out that commits.

### Modules of the administration

In all of them a slot is a request, `...Pc` the point it has reached, `...Req` what it serves and
has read. A place is a point where another transaction may come in between.

*LotSettings.* `OpenForm` and `OpenCopy` are what an editor sees (`form`), some time before the
`PUT`. A save goes `LockFirstLot` → `ValidateSettings` (parked vehicles and staff are read) →
`SaveSettings`; a copy locks a second lot, in the order of the ids (`FirstLot`). An entry
goes `FindCounter` (→ `InsertCounter`, whose unique index is `CounterConflict`) →
`RequireReadyForEntry` (lot FOR UPDATE) → `CommitLotEntry`. `ChangeServing` switches what else
readiness depends on. `open`, `safe`, `alert` stand for the parts of the settings that are
validated differently.

*Accounts.* `revoke` raises `token_version` in SQL, `update` in Python from the loaded row
(`RaisedVersion`, `Column`); a token is `Accepted` while versions agree. `undone`, a history variable that no step
reads, holds the accounts of which an update has overwritten a version it had not loaded.

*Registry.* Five tables of one shape: look up, insert when nothing is found, the unique index
(`NameConflict`, `DeviceConflict`, ...) decides. Error reports lock their user first (`LockUser`).

*Tenancy.* `scope` is the building a session was resolved to; `EnforcedWrite` is the flush hook
(`enforce_building_writes`); rows have an owner and one reference.

*Tickets.* Sales and quotas lock the building (`LockBuilding`), read product and vehicle, then
count and insert; products and classes are changed without that lock.

### Modules of the gates

*Pricing.* `now` counts ticks. `CalculateFee` is the code's formula (blocks, daily cap, days,
overage of a pass, nights, lost ticket); `InvoiceFee` uses the snapshot alone, `CheckOutFee` also
the pass as it is at the exit (`AtExit`). The reference (`FeeOfDays`, `Charged`) reads the price list
minute by minute.

*FrameFilters.* `Push`, `Vote`, `IsStable` over a window; `Frame` stamps, `Infer` is under the lock,
`Filter` appends to the history of camera and type, prunes and may raise an alarm. `pushed`,
`matched` are logs for the properties.

*Recognition.* `EnsureLoaded` … `LoadFailed` are the unlocked lazy load, `Detect` and `ReadPlate` one
frame under the inference lock, `Reviewed` the lot's policy; what networks find is chosen freely.

*Detections.* `BeginDetection` → `SaveImage` → `InsertDetection` → `CommitDetection`, after a failure
`DeleteImage`; `ReplayCapture` answers a retry; `unheard`, a history variable, holds the ids whose COMMIT was done
but not acknowledged; `ConfirmDetection` → `LookUpEntry` →
`StoreConfirmation`; `ServerDies` ends all requests between two steps. `HasStatus` is the WHERE clause of
the history with its three-valued logic (`SqlTrue`, `SqlFalse`).

*Barriers.* `Call` … `RecordBarrierEvent` are the handlers of `BarrierService`, `EnterGate`,
`RecordExit`, `LeaveGate` what check-in, check-out and emergency exits write; events bear the time
their transaction began. `StartWalk`, `ListSessions`, `EndWalk` page through the list.

Left out of these modules: requests that are refused at once and change nothing, fields that no
decision reads, and the audit rows written along.

## 3. Runs

| Run | Question | Result |
|---|---|---|
| `entries_and_exits` | do keys, open sessions, locks and limits hold with two workers, deadlocks, lost connections, capacity changes, and is nobody refused before half of the limit | holds |
| `shared_exits` | do two workers implement `ParkingPromise`, when exits of a vehicle overlap too, and do only exits counted twice and adjustments take vehicles off the counter and let more in than the limit | holds |
| `requests_end` | does every request end, also next to adjustments and reconciliations, and does a check-in commit on the counter it was admitted on | holds under fairness |
| `invoices_and_payments` | are invoices, payments and invites consistent under every order of callbacks | holds |
| `administration` | under concurrent requests, are settings, accounts, rows, tenants and sales kept apart, and limits observed | holds |
| `gates` | are fees, votes, alarms, recognitions and timelines what they should be, whatever changes or fails meanwhile | holds |
| `detections` | do image files, rows and answers agree under retries, failures, lost acknowledgements and crashes | holds |
| `counter_ledger` | is the counter the sum of its events | violated: one check-in moves it by 2 |
| `checkout_retry` | does a repeated check-out close the session once | violated when the two overlap |
| `callback_loop` | does a callback give the event loop back | violated: it may wait for a lock that only the loop can release |
| `revoked_tokens` | does a revoked token stay revoked when updates of the account overlap | violated: two updates write one version |
| `pass_overage` | does a session with a pass pay for its overage only | violated: after the grace time the check-out charges the whole stay |

`administration` checks five modules side by side and `gates` four: the parts share no variable, so a
behaviour picks one `part` and leaves the others in their initial states; each part is
explored completely, in one run instead of one for each.

**Bounds.** Two workers: every conflict in the code is between two transactions (one lock,
one index entry, one row), and each inversion of the lock order needs two. Two sessions let a
vehicle enter again while its first exit is still under way; in `shared_exits` one
lets an entry follow a doubled exit, at the limit 1 with a counter that counts double and that adjustments and
reconciliations lower to its floor (without either correction TLC violates `CounterCoversInside` and
`EntryWithinCapacity` there). The request sets contain a repeated key
with the same and with another payload, both customer classes, an override, a paid and an unpaid
exit, a car and a bicycle. `RoomForEntry` stops entries when the ids are used up, `MaxExits` the
exits that begin on a session that has already left (racing ones still finish), `MaxOccupied` the
adjustments. In billing: two sessions, one invite, two payments, every callback of two
amounts in any order and number. `Operations` selects what a run offers besides entries and exits.
In `administration`: two requests, two buildings (reciprocal copies), forms with three
settings and two revisions; two passwords and two tokens that two logins issue; two lanes with two
names (a rename onto a taken name), one device, one user with a rate of 2 reports a minute
instead of 10; rows of two buildings that refer to each other, staff and a system
administrator; two vehicles, overlapping and adjoining offers, limits 1 and 2. In `gates`: days of
3 minutes and minutes of 2 ticks let 15 ticks contain two midnights, the daily cap, free
minutes, blocks of 1 and 2 and the end and grace of a pass; windows of 3 frames with 5 pushes forget
twice; 4 fire frames on 3 ticks overtake each other, in a history of 3 all of which an alarm needs, so that one
late frame is enough to crowd one out and the run contains alarms that are missed; box and reading lists contain each case
of the code (no plate, plate outside the image, blurred crop, two plates, one and two lines); one
capture, two images, two keys, so that a retry, another image under the same capture, a lost acknowledgement and a
crash meet; two sessions, two gates, three log entries, pages of one. `Simultaneous` is
FALSE: with TRUE `PagesMissNone` is violated (see 5).
The proofs are for all values of the constants, except where an assumption is named.

**View and symmetry.** `answer` steers nothing and is left out of the fingerprint
(`WithoutAnswers`) where no property reads it. Symmetry permutes workers and session ids (payments
in billing, requests and file names in the gates), none of which is singled out by a definition or a property; it is not used with
liveness. Deadlock checking is on in every run: idle workers can always be
offered a request or a change of settings, so the system never stops; in `administration`, `gates`
and `detections` every part keeps an operation that is always possible.

**Fairness.** `RequestAnswered` assumes strong fairness of each worker's steps: threads run on, and
PostgreSQL queues the waiters of a row lock, so none is passed over for ever; and weak fairness of
`DeadlockVictim`: PostgreSQL runs its deadlock detector for every wait (`deadlock_timeout`).
Arrivals and lost connections are not fair. `LoopComesFree` is refuted under the same fairness of the
steps; no deadlock detector is assumed, because the cycle goes through the event loop
and PostgreSQL does not see it.

**Deadlocks** are real in this code: `DeadlockNeedsInversion` says which requests one needs
(`CheckInKeepsCounter`, an invariant proved in `ParkingSessions_proofs`, why: a check-in that passed the
capacity pre-check holds the counter until it ends), and `RequestAnswered` that the detector ends them.

## 4. Proofs

Each proof module assumes the named ASSUMEs of the modules it is about, and `WorkersAssumption`.
What else is assumed is a hypothesis of the theorem, named below.

*Parking sessions.* The safety properties are not inductive: that a new session clashes with
no open one follows from what the inserting request found when it got past the index, and
that nobody has inserted another one since from the lot's lock. `RequestsAgreeWithTables` says
so: a check-in from `ci_insert` to its commit holds the lot (`InsertsAreSerialized`), its
uncommitted row clashes with no committed one, and its limit is the settings' one; a request
that leaves knows an existing session of the same vehicle (`ExitsKnowTheirSession`), so that a
late write cannot reopen a session that the index would refuse; every session has its own key
(`SessionsHaveTheirKey`). Each action preserves it (one lemma per action), and from it follow
`NoSecondOpenSession`, `CheckInIsIdempotent`, `NoLockIsLeftBehind`, `TypeCorrect`, and the action
properties `EntriesStayWithinLimit` and `CounterStaysAsFound`: whoever changes the counter holds its row, and a check-in
that found room holds it from its pre-check on, so an adjustment or an exit that would move the number waits.

*Deadlocks.* `CounterStaysWithCheckIn` and `OnlyInversionsDeadlock`, for any number of workers,
where the run has two. Of all places only five are both waiting and waited for (`DeadlockPlaces`), and
who waits at its insert waits for an exit of the same vehicle, because the lot admits one insert at a
time. In a set of requests that wait for each other without an overridden check-in, an emergency exit or such a
re-entry, a check-in at the counter would hold the counter already, so there is none; the holder of the lot would be
one of these, so nobody waits for the lot; and exits, which wait for the counter, do not hold it.

*Exits.* Nothing in the code keeps two requests from letting the same session out, and when they overlap, the
session is completed twice (`checkout_retry`). `ExitHistory` does not assume that away. It remembers the sessions for which it
happened (`shared`), the exits that were counted for a closed session (`doubled`) and what adjustments did to the
counter (`adjusted`); no step reads them. `ExitsAgree`, the invariant of `ExitsAlwaysAgree`: a session that was never
shared has been left once exactly if it is completed, is paid if it owed something, and the one request that lets
it out works on the row as it is committed. Of a shared session less is known, but late writes to it touch no other row,
and the unique index stops one that would open it again while the vehicle is inside with another. Together with
`RequestsAgreeWithTables` that gives the refinement `SessionsKeepPromise`, without any assumption: committed
entries and exits map to those of `ParkingPromise`, a late write of a shared session to `WriteLate` or `LeaveShared`, a second
request that loads a session to `Share`, and every other step, also adjustments, reconciliations and lost
connections, to a stutter. `OneExitUnlessShared` says the same of the barrier alone.

*The counter.* `CounterLacksOnlyShared`: twice the vehicles inside is at most the counter, plus two for each doubled exit,
less what was adjusted; the floor of 0 only helps. `OnlySharedExitsDouble`: without a shared session nothing is
doubled. From it `EntriesStayWithinCapacity`: where a check-in finds room, the vehicles really inside are below the limit
but for the same two corrections. In the run adjustments and doubled exits bring the counter to its floor.

*The counter's other side.* Without adjustments (`NoAdjustments`; they set the counter to what they like)
`CounterErrsDownwards` holds: the counter never exceeds twice the vehicles inside. A late write for payment closes no session
(`WriteLeavesOthersInside`), an exit closes at most one and takes two off or meets the floor. So an exit counted twice
lets too many vehicles in, but never turns one away: `NobodyTurnedAwayEarly`, a check-in is answered CAPACITY_FULL only
when the vehicles inside take up half of the limit, the one it has read, which the lot's lock keeps in force.

*Billing.* `BillingAgrees`: locks exclude each other, a request between check and write holds
the rows it checked, so what it checked still holds (`ChecksHold`); payments refer to
invoices, a PAID payment was received in full. From it `PaidMeansReceived`,
`OneQrCodeAtATime`, `InvitesServeOnce`, and as action properties `SettledIsFinal` and
`NoInvoiceAfterLeaving`.

*Lot settings.* `LotsAlwaysAgree`: row locks belong to requests at the places that need them, so
what a request has read under a lock (a form's revision, the parked vehicles, readiness) is
still true when it commits; what is parked is covered by capacity. From it
`SavesReplaceWhatWasSeen`, `SavesCoverParked`, `EntriesFindOpenLots` and `CounterRowsAreUnique`.
`LotLocksAreOrdered`: who waits for its second lot waits for a slot with a greater first
lot, who waits for a counter row or a first lot for a slot that is further on; of a set of slots that
wait for second lots one holds the greatest first lot (well-founded induction). It holds for
any number of requests, not only the two of the run.

*Administration.* `TenancyAlwaysAgrees`: a row never changes its building, so what a staged write has
read of its row and of the row it refers to still holds when it is flushed.
`RevokedTokensStayBehind`, whatever overlaps: while no update of an account has overwritten a version it had not
loaded (`undone`), a token's version never exceeds its account's and is smaller once revoked. `revoked_tokens` shows
the one way that is left. `RegistryAgrees`: a report that has been admitted has its user's row
locked, and until it commits the user's frontend reports only age (`RoomStays`), so that it still fits
in; from it `ReportsStayLimited`, for any rate. `RowsAreUnique` rests on the unique indexes alone.

*Tickets* (in `Administration_proofs`). `TicketsAlwaysAgree`: whoever counts, inserts or sets a quota holds the building, so
that what a sale has found still holds when it inserts; from it `PackagesNeverOverlap` and
`SalesStayWithinLimits`, with the cardinality facts of the library. A sale is judged by the quota in force and by the
sale limit it has read: `UpdateProduct` takes no lock and may change the limit before the sale commits.

*Barriers.* The gate log and the timelines are two sequences, and `GateLogInTimeline` counts in both.
The proof splits each count over a concatenation (`Openings` at the places of the old sequence and at those
of the new part), so that a step that appends to both changes both counts by the same number;
it remains to see, per step, that the types told match the status logged. `WalksMissNone` assumes
`~Simultaneous`: a session is on the page given by the number of sessions listed before it; a session
that enters is newer and moves the others down, never up, so what a walk has not shown yet lies on a page
it has still to ask for (`WalkAgrees`).

*Detections.* `RequestsAlwaysAgree` says what each request between file and row holds: its file has
its image and no other row or request uses its key. `CapturesAnswerOnce` and
`StatusesShareDetections` need no more. `ImagesStay`: the handler that deletes an image has inserted no row, or has
committed it and not heard of it; then the id is in `unheard`. Lost acknowledgements are possible at every commit, so a
row loses its image by that of its own commit and by nothing else.

*Recognition.* `UnreviewedPlatesAreRead`: an answer is made from the frame its own request has put in,
whatever else loads, fails or is warmed up; the box is the first of the surest ones (`TopIsThere`), the characters
and the confidence are those of one line, of two joined, or of all texts joined with their
mean (`RecognizedIsRead`); the review policy only ever adds a review. Sums are a recursive function over a
prefix, of which only that they are natural numbers is needed (`TotalNat`).

*Vote.* `StableVotesStand`, for any window and number of frames: the window is the last frames since the
reset; of the plates read most often the winner exists and is chosen (`WinnerLeads`), and if some plate reaches
half of the window, the winner does.

*Alarms.* What a history keeps of the frames that matched is their last ones in order of arrival (`Kept`); what it
has dropped was out of the window of a frame that had arrived, or MaxHistory frames ago; and no frame is more than `Late`
older than one that arrived before it. From it `AlarmsNeverOvercount`, whatever overtakes. `FireIsNeverMissed`, for
any size of the history: of the frames in the window one is dropped only if MaxHistory others came after it; if
fewer than MinFrames of those are in the window, more than MaxHistory - MinFrames came late (`Crowded`), otherwise the
alarm is raised. `FewFramesOvertake` bounds how many can: a frame is overtaken only by frames that were worked on at the
same time, one per slot. With the code's history of 30 and its default of 5 frames it takes 26 frames at a
time to miss an alarm; the default thread pool has 40 threads, so the code does not exclude it.

*Fees.* `InvoicesNeverFall`: the formula is monotone in the time of the exit, for all tariffs. Products and
integer division are abstracted by their monotonicity (`ProductMonotone`, `DivMonotone`,
`CeilDivMonotone`, from `DivMod`); days are then quotient and rest, and a full day never costs less
than a part of one. The snapshot of a parked vehicle does not change (`CarAgrees`).

`HeldPassesPayOverage` delimits what `pass_overage` refutes: as long as the vehicle's latest package still admits it
at the exit, valid or in its grace time, the barrier never asks for more than the invoice. The end of a stay's pass is
that of a package sold (`PassesAgree`), the latest package ends no earlier (`LatestIsLast`, which needs a bound on the ends,
kept by every sale), and a later end leaves fewer minutes and nights behind it (`LongerPassIsCheaper`).

`FeesAreByTheMinute`: the formula charges, for every stay, tariff, cap, day length and package, what the price list
read minute by minute says. The reference sums a price over the charged minutes of a day and a fee over the days of a
stay, the formula multiplies and divides; three steps connect them. (1) The fold that sums over a set is defined by
a recursive function whose existence must be shown first: if it existed for no size of set, there would be a least
size without one (`LeastNat`), which the next smaller one extends (`SumsExist`); that its result does not depend on the
order in which elements are picked follows because a sum taken in order can leave out any number
(`OneLess`, `OrderedPicks`, `SumsAre`). (2) The charged minutes are those a block begins with; up to minute m there are
the rounded-up quotient of m by the block (`CeilStep`, `ChargedAreBillable`), so a day is the billable blocks times the
price, and at most the cap (`DayByTheMinute`). (3) All days but the last are full and cost the same
(`FullDay`, `DaysByTheMinute`), and free minutes, nights, lost tickets and the end of a pass move only where
the stay begins (`EligibleByTheMinute`, `ClockAgrees`).

Only model-checked: liveness (`RequestAnswered`, `LoopComesFree`; fairness and ENABLED are outside the
prover's reach). Every invariant and every action property that a passing run checks is stated by a theorem; the
properties of the runs that expect a violation are false.

## 5. What the checks showed

1. The counter moves by 2 per entry and per exit (`counter_service.py:95`, `:142`). The limit is
   reached at half the vehicles, and 0 while vehicles are still inside once adjustments mix in.
2. Overlapping check-outs of a session both complete it (`checkout/service.py:316`).
3. Reconciliation sets the counter to the PARKED sessions (`counter_reconciliation.py:32`), while
   its docstring speaks of open ones. `CommitReconcile` models what the code does; no run asks
   for it, because one step shows it.
4. A callback can block the process (`billing_router.py:105`).
5. Two overlapping updates of an account leave a revoked token valid (`users/service.py:137`).
6. A pass that has expired is charged as if there had been none (`checkout/service.py:166`), while
   invoice and `src/frontend/docs/ARCHITECTURE.md:14` charge the overage. The repository does not speak with one voice here:
   `src/backend/tests/integration/test_checkout_m4_pricing.py:181-184` wants a pass that is beyond its grace treated as a visit
   (it had expired before the vehicle came), and question OQ-03 in `src/docs/Document.md:615`, what to do
   with a monthly pass that expires while the vehicle is inside, is listed as open. Until its package has expired, no vehicle is charged
   more than its invoice (`HeldPassesPayOverage`).

Behaviours found on the way about which no document says anything, so that no property judges
them: a FAILED payment is not final, so that a late PAID callback can pay an invoice that
another payment has paid already, and an invoice can have two active payments; the refund of one of two
payments marks the invoice REFUNDED; a REFUNDED callback before the PAID one is final. With
two workers a check-out loaded before a payment can write PAYMENT_PENDING over a
completed session when the vehicle has not come back. A check-in of a plate that is
PAYMENT_PENDING is refused by the index and answered as a database failure (503).

In the gates: if the database commits a detection and the acknowledgement is lost, the handler deletes
the image of a stored row (`unheard`). A fire alarm is missed when enough late frames crowd the history (`Crowded`). The paged list is ordered by check-in time alone, so that
equal times can hide a session between two pages (`Simultaneous`). A confirmation looks for a
check-in of its detection before it writes, without a lock, so that both can commit with
different plates. The price windows of a rule are stored and used by no fee. The debounce cache of
the recognition lives in an object made per request and never answers.

## 6. Not modelled

- Queries that only read (dashboards, lists, exports) except where a property is about them,
  the audit log, hard samples, profile fields and notifications.
- What networks compute: detections and readings are chosen from sets.
- Lots with several vehicle types: `EntryLimit` stands for the type's limit and for the readiness of the lot, which asks for
  a safe capacity of any type. The default limits that apply at a physical capacity of 0 and the places reserved
  for residents and staff only make the limit another number.
- Two frames of one camera inside `process_frame`'s loop at once (`fire_provider.py:303`, outside the lock): append, prune and
  count of a frame are one step (`Filter`); frames arrive in any order.
- Sessions that began while no price list was in force: the code builds a fallback snapshot at the exit, in `Pricing` a
  vehicle enters only under a price list.
- Bulk statements, which do not pass the flush hook of the tenancy (the `UPDATE`s of the counter and of `token_version`): the
  actions of `Tenancy` write through objects.
- The compensation of an offline session beyond its counter step; the availability display.
- The web client: it talks to the modelled requests with keys of its own, and keeps nothing that the
  server depends on.

## 7. Plan

Done: the core (`ParkingSessions`, `ParkingPromise`, `Billing`), the administration (`LotSettings`,
`Accounts`, `Registry`, `Tenancy`, `Tickets`), the gates (`Pricing`, `FrameFilters`, `Recognition`,
`Detections`, `Barriers`), and the proofs listed in 4.

Left, in this order: the invoices of `Billing` composed with the exits of `ParkingSessions`; two frames of one camera
inside one call of the fire filter; a model of the station client that repeats a lost answer under its key
`station-<detection>`.
