---------------------------- MODULE LotSettings ----------------------------
(***************************************************************************)
(* The settings of parking lots and the entries that depend on them:       *)
(* PUT /settings/lot, POST /buildings/{id}/copy-settings, and the part of  *)
(* a check-in from the counter row of its vehicle type to the commit.      *)
(*                                                                         *)
(* A form is filled in from what GET /settings/lot returned, whatever      *)
(* happens between the two requests; the revision it carries tells whether *)
(* it still applies.  PostgreSQL reads what is committed; a lock lasts     *)
(* until the transaction commits or is rolled back.                        *)
(***************************************************************************)
EXTENDS Workers

CONSTANTS
  Staff,        \* user ids that a form may name as alert recipients
  Assigned,     \* the staff assigned to each building (user_buildings)
  Capacities,   \* safe capacities a form may hold
  Physical,     \* physical capacity of every lot
  MaxRevision,  \* bound: forms are opened while the revision is below it
  Forms,        \* what editors put into a form
  Copies,       \* the pairs <<source, target>> that administrators copy
  Busy          \* buildings that have entries and whose readiness changes

(* `open` stands for the lot's information (name, status OPEN, opening     *)
(* hours), `safe` for capacities and quotas, `alert` for the fire settings.*)
Setting == [open : BOOLEAN, safe : Nat, alert : SUBSET Staff]

NoSetting == [open |-> FALSE, safe |-> 0, alert |-> {}]

Lot == [rev : Nat, open : BOOLEAN, safe : Nat, alert : SUBSET Staff]

ASSUME LotAssumption ==
  /\ Assigned \in [Buildings -> SUBSET Staff]
  /\ Physical \in Nat /\ Capacities \subseteq 0 .. Physical
  /\ MaxRevision \in Nat
  /\ Forms \subseteq {s \in Setting : s.safe \in Capacities}
  /\ Copies \subseteq Buildings \X Buildings /\ Busy \subseteq Buildings

VARIABLES
  lots,        \* committed parking_lots
  parked,      \* PARKED sessions of each building
  counterRows, \* committed parking_counters rows of each building's vehicle type
  serving,     \* building active, lanes of both directions active, pricing effective
  lotHolder,   \* the transaction that has locked each lot
  ctrHolder,   \* the transaction that has locked or inserted each counter row
  inserted,    \* slots whose transaction has inserted a counter row
  lotPc,       \* where each slot is
  lotReq,      \* the form or the entry it serves
  form         \* the source and the target as the client read them before it sent the form

lotTables == <<lots, parked, counterRows, serving>>
lotHolders == <<lotHolder, ctrHolder, inserted>>
lotVars == <<lotTables, lotHolders, lotPc, lotReq, form>>

Put(b, s) == [op |-> "put", from |-> b, to |-> b, set |-> s]
Copy(b, c) == [op |-> "copy", from |-> b, to |-> c, set |-> NoSetting]
Entry(b, class) == [op |-> class, from |-> b, to |-> b, set |-> NoSetting]

LotRequest == [op : {"put", "copy", "VISITOR", "RESIDENT"}, from : Buildings, to : Buildings,
               set : Setting]

\* create_building stores the default settings with revision 0.
NewLot == [rev |-> 0, open |-> TRUE, safe |-> 0, alert |-> {}]

NoLotRequest == [op |-> "none", from |-> 0, to |-> 0, set |-> NoSetting]
NoForm == [from |-> NewLot, to |-> NewLot]

LotPlaces == {"idle", "form", "second", "validate", "save",
              "counter", "missing", "ready", "enter"}

SettingOf(lot) == [open |-> lot.open, safe |-> lot.safe, alert |-> lot.alert]
-----------------------------------------------------------------------------
(* Locks.                                                                  *)

\* Copies lock their two lots in the order of the ids.
Smaller(b, c) == IF b < c THEN b ELSE c
Greater(b, c) == IF b < c THEN c ELSE b

\* Mutant: source first, then target.
SourceFirst(q) == q.from
FirstLot(q) == Smaller(q.from, q.to)

SecondLot(q) == Greater(q.from, q.to)

\* Commit or rollback: every lock of the transaction is free again.
GiveBack(r) ==
  /\ lotHolder' = [b \in Buildings |-> IF lotHolder[b] = r THEN NoSlot ELSE lotHolder[b]]
  /\ ctrHolder' = [b \in Buildings |-> IF ctrHolder[b] = r THEN NoSlot ELSE ctrHolder[b]]
  /\ inserted' = inserted \ {r}
  /\ lotPc' = [lotPc EXCEPT ![r] = "idle"]
  /\ lotReq' = [lotReq EXCEPT ![r] = NoLotRequest]
  /\ form' = [form EXCEPT ![r] = NoForm]

\* The request is refused, or its connection dies: the transaction is rolled back.
RefuseLot(r) == GiveBack(r) /\ UNCHANGED lotTables

GoTo(r, place) ==
  /\ lotPc' = [lotPc EXCEPT ![r] = place]
  /\ UNCHANGED <<lotTables, lotReq, form>>

LoadLot(r, b) ==
  /\ lotHolder[b] = NoSlot
  /\ lotHolder' = [lotHolder EXCEPT ![b] = r]
  /\ UNCHANGED <<ctrHolder, inserted>>
-----------------------------------------------------------------------------
(* PUT /settings/lot and POST /buildings/{id}/copy-settings.               *)

Begin(r, place, q) ==
  /\ lotPc[r] = "idle"
  /\ lotPc' = [lotPc EXCEPT ![r] = place]
  /\ lotReq' = [lotReq EXCEPT ![r] = q]
  /\ form' = [form EXCEPT ![r] = [from |-> lots[q.from], to |-> lots[q.to]]]
  /\ UNCHANGED <<lotTables, lotHolders>>

OpenForm(r) ==
  /\ \E b \in Buildings, s \in Forms : lots[b].rev < MaxRevision /\ Begin(r, "form", Put(b, s))

OpenCopy(r) ==
  \E p \in Copies :
    /\ p[1] # p[2] /\ lots[p[2]].rev < MaxRevision
    /\ Begin(r, "form", Copy(p[1], p[2]))

LockFirstLot(r) ==
  /\ lotPc[r] = "form"
  /\ LoadLot(r, FirstLot(lotReq[r]))
  /\ GoTo(r, IF lotReq[r].op = "copy" THEN "second" ELSE "validate")

LockSecondLot(r) ==
  /\ lotPc[r] = "second"
  /\ LoadLot(r, SecondLot(lotReq[r]))
  /\ GoTo(r, "validate")

\* Mutant: the revision of the target alone is compared.
CurrentTargetOnly(r) == form[r].to.rev = lots[lotReq[r].to].rev

Current(r) ==
  LET q == lotReq[r]
  IN form[r].from.rev = lots[q.from].rev /\ form[r].to.rev = lots[q.to].rev

\* A copy keeps the target's own information and fire settings.
Copied(q) == [SettingOf(lots[q.to]) EXCEPT !.safe = lots[q.from].safe]

NewSetting(q) == IF q.op = "copy" THEN Copied(q) ELSE q.set

ValidLive(b, s) == s.safe >= parked[b] /\ s.alert \subseteq Assigned[b]

ValidateSettings(r) ==
  /\ lotPc[r] = "validate"
  /\ IF Current(r) /\ ValidLive(lotReq[r].to, NewSetting(lotReq[r]))
     THEN GoTo(r, "save") /\ UNCHANGED lotHolders
     ELSE RefuseLot(r)

Saved(lot, s) == [rev |-> lot.rev + 1, open |-> s.open, safe |-> s.safe, alert |-> s.alert]

SaveSettings(r) ==
  LET q == lotReq[r]
  IN /\ lotPc[r] = "save"
     /\ lots' = [lots EXCEPT ![q.to] = Saved(lots[q.to], NewSetting(q))]
     /\ GiveBack(r)
     /\ UNCHANGED <<parked, counterRows, serving>>
-----------------------------------------------------------------------------
(* Entries and exits of one vehicle type.                                  *)

Arrive(r) ==
  \E b \in Busy, class \in {"VISITOR", "RESIDENT"} : Begin(r, "counter", Entry(b, class))

\* SELECT ... FOR UPDATE of the counter row; of a row that is missing it locks nothing.
FindCounter(r) ==
  LET b == lotReq[r].to
  IN /\ lotPc[r] = "counter"
     /\ IF counterRows[b] > 0
        THEN /\ ctrHolder[b] = NoSlot
             /\ ctrHolder' = [ctrHolder EXCEPT ![b] = r]
             /\ GoTo(r, "ready")
        ELSE UNCHANGED ctrHolder /\ GoTo(r, "missing")
     /\ UNCHANGED <<lotHolder, inserted>>

\* Mutant: no unique constraint on building and vehicle type.
NoCounterConflict(b) == FALSE
CounterConflict(b) == counterRows[b] > 0

\* The INSERT waits for one that is not committed and fails on one that is.
InsertCounter(r) ==
  LET b == lotReq[r].to
  IN /\ lotPc[r] = "missing"
     /\ ctrHolder[b] = NoSlot
     /\ IF CounterConflict(b)
        THEN RefuseLot(r)
        ELSE /\ ctrHolder' = [ctrHolder EXCEPT ![b] = r]
             /\ inserted' = inserted \cup {r}
             /\ GoTo(r, "ready")
             /\ UNCHANGED lotHolder

Ready(b) == serving[b] /\ lots[b].open /\ lots[b].safe > 0

\* Mutant: the readiness is read without a lock.
RequireReadyUnlocked(r) ==
  LET b == lotReq[r].to
  IN /\ lotPc[r] = "ready"
     /\ IF Ready(b) THEN GoTo(r, "enter") /\ UNCHANGED lotHolders ELSE RefuseLot(r)

RequireReadyForEntry(r) ==
  LET b == lotReq[r].to
  IN /\ lotPc[r] = "ready"
     /\ lotHolder[b] = NoSlot
     /\ IF Ready(b) THEN LoadLot(r, b) /\ GoTo(r, "enter") ELSE RefuseLot(r)

\* One vehicle type, whose capacity is also the lot's; a physical capacity, and no places
\* reserved (with them or the default configuration the limit is another number).
EntryLimit(q) == IF q.op = "RESIDENT" THEN Physical ELSE lots[q.to].safe

\* The first entry commits its counter row with it.
CommitLotEntry(r) ==
  LET b == lotReq[r].to
  IN /\ lotPc[r] = "enter"
     /\ IF parked[b] < EntryLimit(lotReq[r])
        THEN /\ parked' = [parked EXCEPT ![b] = @ + 1]
             /\ counterRows' = [counterRows EXCEPT ![b] = IF r \in inserted THEN @ + 1 ELSE @]
             /\ GiveBack(r)
             /\ UNCHANGED <<lots, serving>>
        ELSE RefuseLot(r)

\* The exit of a vehicle updates the counter row and takes no lock on the lot.
Leave(b) ==
  /\ parked[b] > 0 /\ ctrHolder[b] = NoSlot
  /\ parked' = [parked EXCEPT ![b] = @ - 1]
  /\ UNCHANGED <<lots, counterRows, serving, lotHolders, lotPc, lotReq, form>>

\* Lanes, prices and the building's state change without the lock on the lot.
ChangeServing(b) ==
  /\ serving' = [serving EXCEPT ![b] = ~@]
  /\ UNCHANGED <<lots, parked, counterRows, lotHolders, lotPc, lotReq, form>>

LotRequestLost(r) == lotPc[r] # "idle" /\ RefuseLot(r)
-----------------------------------------------------------------------------
LotInit ==
  /\ lots = [b \in Buildings |-> NewLot]
  /\ parked = [b \in Buildings |-> 0]
  /\ counterRows = [b \in Buildings |-> 0]
  /\ serving = [b \in Buildings |-> TRUE]
  /\ lotHolder = [b \in Buildings |-> NoSlot]
  /\ ctrHolder = [b \in Buildings |-> NoSlot]
  /\ inserted = {}
  /\ lotPc = [r \in Slots |-> "idle"]
  /\ lotReq = [r \in Slots |-> NoLotRequest]
  /\ form = [r \in Slots |-> NoForm]

LotNext ==
  \/ \E r \in Slots :
       \/ OpenForm(r) \/ OpenCopy(r) \/ LockFirstLot(r) \/ LockSecondLot(r)
       \/ ValidateSettings(r) \/ SaveSettings(r)
       \/ Arrive(r) \/ FindCounter(r) \/ InsertCounter(r) \/ RequireReadyForEntry(r)
       \/ CommitLotEntry(r) \/ LotRequestLost(r)
  \/ \E b \in Busy : Leave(b) \/ ChangeServing(b)

LotSpec == LotInit /\ [][LotNext]_lotVars
-----------------------------------------------------------------------------
(* Properties.                                                             *)

\* Types of the variables.
LotTypeOK ==
  /\ lots \in [Buildings -> Lot]
  /\ parked \in [Buildings -> Nat] /\ counterRows \in [Buildings -> Nat]
  /\ serving \in [Buildings -> BOOLEAN]
  /\ lotHolder \in [Buildings -> Slots \cup {NoSlot}]
  /\ ctrHolder \in [Buildings -> Slots \cup {NoSlot}]
  /\ inserted \subseteq Slots
  /\ lotPc \in [Slots -> LotPlaces] /\ lotReq \in [Slots -> LotRequest \cup {NoLotRequest}]
  /\ form \in [Slots -> [from : Lot, to : Lot]]

\* A save replaces exactly the settings its author had on the screen, and a copy also
\* copies exactly the source its author saw: no committed change is lost unseen
\* (revision checks in write_settings and copy_lot_settings).
NoUnseenChange ==
  [][\A b \in Buildings : lots'[b] # lots[b] =>
       \E r \in Slots :
         /\ lotPc[r] = "save" /\ lotReq[r].to = b
         /\ form[r].to = lots[b] /\ form[r].from = lots[lotReq[r].from]]_lotVars

\* No save leaves a safe capacity below the vehicles parked at its commit, although
\* they are counted before it and entries go on (lock=True in require_ready_for_entry).
CapacityCoversParked ==
  [][\A b \in Buildings : lots'[b] # lots[b] => lots'[b].safe >= parked'[b]]_lotVars

\* No vehicle is let into a lot that a save has closed or emptied meanwhile.
EntryIntoOpenLot ==
  [][\A b \in Buildings : parked'[b] > parked[b] => lots[b].open /\ lots[b].safe > 0]_lotVars

\* A building has one counter row, also when its first two vehicles come together.
OneCounterRow == \A b \in Buildings : counterRows[b] <= 1

\* The slots for which each slot waits.
LotOwners(r) ==
  {h \in Slots : \/ lotPc[r] = "form" /\ h = lotHolder[FirstLot(lotReq[r])]
                 \/ lotPc[r] = "second" /\ h = lotHolder[SecondLot(lotReq[r])]
                 \/ lotPc[r] = "ready" /\ h = lotHolder[lotReq[r].to]
                 \/ lotPc[r] \in {"counter", "missing"} /\ h = ctrHolder[lotReq[r].to]}

\* Reciprocal copies, saves and entries never wait for each other in a circle: the
\* comment at router.py:63 promises it for the sorted lock order.
NoLockCycle ==
  \A D \in SUBSET Slots : D # {} => \E r \in D : LotOwners(r) \cap D = {}
=============================================================================
