-------------------------- MODULE LotSettings_proofs --------------------------
(***************************************************************************)
(* Proofs about LotSettings for any number of requests, buildings, staff   *)
(* and capacities.                                                         *)
(***************************************************************************)
EXTENDS LotSettings, WellFoundedInduction, TLAPS

Editing == {"form", "second", "validate", "save"}
Entering == {"counter", "missing", "ready", "enter"}

\* The lots and the counter row that a slot has locked at its place.
LocksOf(r) ==
  {b \in Buildings : \/ lotPc[r] = "second" /\ b = FirstLot(lotReq[r])
                     \/ lotPc[r] \in {"validate", "save"} /\ b \in {lotReq[r].from, lotReq[r].to}
                     \/ lotPc[r] = "enter" /\ b = lotReq[r].to}

CounterOf(r) == IF lotPc[r] \in {"ready", "enter"} THEN {lotReq[r].to} ELSE {}

\* A form is about one lot, a copy about two.
TwoLotsToCopy(q) ==
  \/ q.op = "put" /\ q.from = q.to
  \/ q.op = "copy" /\ q.from # q.to

Seen(old, lot) == old.rev <= lot.rev /\ (old.rev = lot.rev => old = lot)

\* What a slot has read or checked still holds where it relies on it.
SlotStands(r) ==
  LET q == lotReq[r]
  IN /\ lotPc[r] \in Editing =>
          /\ TwoLotsToCopy(q)
          /\ q.from \in Buildings /\ q.to \in Buildings /\ q.set \in Setting
          /\ Seen(form[r].from, lots[q.from]) /\ Seen(form[r].to, lots[q.to])
     /\ lotPc[r] = "second" => q.op = "copy"
     /\ lotPc[r] = "save" => Current(r) /\ NewSetting(q).safe >= parked[q.to]
     /\ lotPc[r] \in Entering => q.to \in Buildings
     /\ lotPc[r] = "enter" => lots[q.to].open /\ lots[q.to].safe > 0
     /\ r \in inserted => lotPc[r] \in {"ready", "enter"} /\ counterRows[q.to] = 0

LocksMatch ==
  \A r \in Slots, b \in Buildings :
    /\ lotHolder[b] = r <=> b \in LocksOf(r)
    /\ ctrHolder[b] = r <=> b \in CounterOf(r)

\* The inductive invariant.
LotAgrees ==
  LotTypeOK /\ OneCounterRow /\ LocksMatch /\ \A r \in Slots : SlotStands(r)

LEMMA SlotsAreNotNone == NoSlot \notin Slots
BY WorkersAssumption DEF WorkersAssumption

LEMMA NumberedBuildings == Buildings \subseteq Nat
BY WorkersAssumption DEF WorkersAssumption

LEMMA FirstLotAgrees == LotInit => LotAgrees
<1> SUFFICES ASSUME LotInit PROVE LotAgrees
  OBVIOUS
<1>1. LotTypeOK
  BY DEF LotInit, LotTypeOK, NewLot, Lot, NoForm, LotPlaces
<1>2. OneCounterRow
  BY DEF LotInit, OneCounterRow
<1>3. LocksMatch
  BY SlotsAreNotNone DEF LotInit, LocksMatch, LocksOf, CounterOf
<1>4. \A r \in Slots : SlotStands(r)
  BY DEF LotInit, SlotStands, Editing, Entering
<1> QED
  BY <1>1, <1>2, <1>3, <1>4 DEF LotAgrees

\* A slot's two lots, in either order, are the source and the target.
LEMMA LotsInOrder ==
  ASSUME NEW q \in LotRequest
  PROVE  /\ FirstLot(q) \in Buildings /\ SecondLot(q) \in Buildings
         /\ {FirstLot(q), SecondLot(q)} = {q.from, q.to}
         /\ q.from # q.to => FirstLot(q) < SecondLot(q)
         /\ q.from = q.to => FirstLot(q) = q.to
<1>1. q.from \in Nat /\ q.to \in Nat /\ q.from \in Buildings /\ q.to \in Buildings
  BY NumberedBuildings DEF LotRequest
<1>2. \/ q.from < q.to /\ FirstLot(q) = q.from /\ SecondLot(q) = q.to
      \/ ~(q.from < q.to) /\ FirstLot(q) = q.to /\ SecondLot(q) = q.from
  BY DEF FirstLot, SecondLot, Smaller, Greater
<1> QED
  BY <1>1, <1>2

\* What a step of one slot leaves of the others.
LotOthers(r) ==
  \A q \in Slots \ {r} :
    /\ lotPc'[q] = lotPc[q] /\ lotReq'[q] = lotReq[q] /\ form'[q] = form[q]
    /\ q \in inserted' <=> q \in inserted
    /\ \A b \in Buildings : /\ lotHolder'[b] = q <=> lotHolder[b] = q
                            /\ ctrHolder'[b] = q <=> ctrHolder[b] = q

LocksMatchOf(r) ==
  \A b \in Buildings :
    /\ lotHolder[b] = r <=> b \in LocksOf(r)
    /\ ctrHolder[b] = r <=> b \in CounterOf(r)

\* The locks of the others go on to match if a step leaves the others alone.
LEMMA OthersMatch ==
  ASSUME LotAgrees, NEW r \in Slots, LotOthers(r), LocksMatchOf(r)'
  PROVE  LocksMatch'
<1> SUFFICES ASSUME NEW q \in Slots, NEW b \in Buildings
             PROVE  /\ lotHolder'[b] = q <=> b \in LocksOf(q)'
                    /\ ctrHolder'[b] = q <=> b \in CounterOf(q)'
  BY DEF LocksMatch
<1>1. CASE q = r
  BY <1>1 DEF LocksMatchOf
<1>2. CASE q # r
  BY <1>2 DEF LotAgrees, LocksMatch, LotOthers, LocksOf, CounterOf
<1> QED
  BY <1>1, <1>2

\* A step of one slot that commits nothing.
LEMMA LotLocalStep ==
  ASSUME LotAgrees, LotTypeOK', NEW r \in Slots, UNCHANGED lotTables,
         LotOthers(r), LocksMatchOf(r)', SlotStands(r)'
  PROVE  LotAgrees'
<1>1. \A q \in Slots : SlotStands(q)'
  BY DEF LotAgrees, SlotStands, LotOthers, lotTables, Current, NewSetting, Copied, SettingOf
<1>2. OneCounterRow'
  BY DEF LotAgrees, OneCounterRow, lotTables
<1> QED
  BY <1>1, <1>2, OthersMatch DEF LotAgrees

\* The end of a transaction, committed or not.
LEMMA LocksGivenBack ==
  ASSUME LotTypeOK, NEW r \in Slots, GiveBack(r)
  PROVE  /\ lotHolder' \in [Buildings -> Slots \cup {NoSlot}]
         /\ ctrHolder' \in [Buildings -> Slots \cup {NoSlot}]
         /\ inserted' \subseteq Slots /\ r \notin inserted'
         /\ lotPc' \in [Slots -> LotPlaces] /\ lotPc'[r] = "idle"
         /\ lotReq' \in [Slots -> LotRequest \cup {NoLotRequest}]
         /\ form' \in [Slots -> [from : Lot, to : Lot]]
         /\ LotOthers(r) /\ LocksMatchOf(r)' /\ SlotStands(r)'
<1>1. NoForm \in [from : Lot, to : Lot]
  BY DEF NoForm, NewLot, Lot
<1>2. /\ lotHolder' \in [Buildings -> Slots \cup {NoSlot}]
      /\ ctrHolder' \in [Buildings -> Slots \cup {NoSlot}]
      /\ \A b \in Buildings : lotHolder'[b] # r /\ ctrHolder'[b] # r
  BY SlotsAreNotNone DEF GiveBack, LotTypeOK
<1>3. /\ inserted' \subseteq Slots /\ r \notin inserted'
      /\ lotPc' \in [Slots -> LotPlaces] /\ lotPc'[r] = "idle"
      /\ lotReq' \in [Slots -> LotRequest \cup {NoLotRequest}]
      /\ form' \in [Slots -> [from : Lot, to : Lot]]
  BY <1>1 DEF GiveBack, LotTypeOK, LotPlaces
<1>4. LotOthers(r)
  BY SlotsAreNotNone DEF GiveBack, LotTypeOK, LotOthers
<1>5. LocksMatchOf(r)' /\ SlotStands(r)'
  BY <1>2, <1>3 DEF LocksMatchOf, LocksOf, CounterOf, SlotStands, Editing, Entering
<1> QED
  BY <1>2, <1>3, <1>4, <1>5

LEMMA LotRefused ==
  ASSUME LotAgrees, NEW r \in Slots, RefuseLot(r)
  PROVE  LotAgrees'
<1>1. GiveBack(r) /\ UNCHANGED lotTables
  BY DEF RefuseLot
<1>2. LotTypeOK'
  BY <1>1, LocksGivenBack DEF LotAgrees, LotTypeOK, lotTables
<1> QED
  BY <1>1, <1>2, LocksGivenBack, LotLocalStep DEF LotAgrees

LEMMA Moved ==
  ASSUME LotTypeOK, NEW r \in Slots, NEW place \in LotPlaces, GoTo(r, place)
  PROVE  /\ lotPc' \in [Slots -> LotPlaces] /\ lotPc'[r] = place
         /\ \A q \in Slots \ {r} : lotPc'[q] = lotPc[q]
         /\ UNCHANGED <<lotTables, lotReq, form>>
BY DEF LotTypeOK, GoTo

LEMMA Begun ==
  ASSUME LotAgrees, NEW r \in Slots, NEW place \in {"form", "counter"}, NEW q \in LotRequest,
         Begin(r, place, q),
         place = "form" => TwoLotsToCopy(q)
  PROVE  LotAgrees'
<1> DEFINE f == [from |-> lots[q.from], to |-> lots[q.to]]
<1>1. /\ lotPc[r] = "idle" /\ UNCHANGED lotTables /\ UNCHANGED lotHolders
      /\ lotPc' = [lotPc EXCEPT ![r] = place]
      /\ lotReq' = [lotReq EXCEPT ![r] = q]
      /\ form' = [form EXCEPT ![r] = f]
  BY DEF Begin
<1>2. f \in [from : Lot, to : Lot]
  BY DEF LotAgrees, LotTypeOK, LotRequest
<1>3. /\ lotPc' \in [Slots -> LotPlaces] /\ lotPc'[r] = place
      /\ lotReq' \in [Slots -> LotRequest \cup {NoLotRequest}] /\ lotReq'[r] = q
      /\ form' \in [Slots -> [from : Lot, to : Lot]] /\ form'[r] = f
  BY <1>1, <1>2 DEF LotAgrees, LotTypeOK, LotPlaces
<1>4. LotTypeOK'
  BY <1>1, <1>3 DEF LotAgrees, LotTypeOK, lotTables, lotHolders
<1>5. LotOthers(r)
  BY <1>1 DEF LotAgrees, LotTypeOK, LotOthers, lotHolders
<1>6. LocksMatchOf(r)'
  BY <1>1, <1>3 DEF LotAgrees, LocksMatch, LocksMatchOf, LocksOf, CounterOf, lotHolders
<1>7. SlotStands(r)'
  <2>1. Seen(f.from, lots'[q.from]) /\ Seen(f.to, lots'[q.to])
    BY <1>1 DEF Seen, lotTables, LotAgrees, LotTypeOK, LotRequest, Lot
  <2>2. r \notin inserted'
    BY <1>1 DEF LotAgrees, SlotStands, lotHolders
  <2>3. q.from \in Buildings /\ q.to \in Buildings /\ q.set \in Setting
    BY DEF LotRequest
  <2> QED
    BY <1>3, <2>1, <2>2, <2>3 DEF SlotStands, Editing, Entering
<1> QED
  BY <1>1, <1>4, <1>5, <1>6, <1>7, LotLocalStep

LEMMA Opened ==
  ASSUME LotAgrees, NEW r \in Slots, OpenForm(r) \/ OpenCopy(r) \/ Arrive(r)
  PROVE  LotAgrees'
<1>1. ASSUME OpenForm(r) PROVE LotAgrees'
  <2>1. PICK b \in Buildings, s \in Forms : Begin(r, "form", Put(b, s))
    BY <1>1 DEF OpenForm
  <2>2. Put(b, s) \in LotRequest /\ TwoLotsToCopy(Put(b, s))
    BY LotAssumption DEF LotAssumption, Put, LotRequest, TwoLotsToCopy
  <2> QED
    BY <2>1, <2>2, Begun
<1>2. ASSUME OpenCopy(r) PROVE LotAgrees'
  <2>1. PICK p \in Copies : p[1] # p[2] /\ Begin(r, "form", Copy(p[1], p[2]))
    BY <1>2 DEF OpenCopy
  <2>2. p[1] \in Buildings /\ p[2] \in Buildings
    BY LotAssumption DEF LotAssumption
  <2>3. NoSetting \in Setting
    BY DEF NoSetting, Setting
  <2>4. Copy(p[1], p[2]) \in LotRequest /\ TwoLotsToCopy(Copy(p[1], p[2]))
    BY <2>1, <2>2, <2>3 DEF Copy, LotRequest, TwoLotsToCopy
  <2> QED
    BY <2>1, <2>4, Begun
<1>3. ASSUME Arrive(r) PROVE LotAgrees'
  <2>1. PICK b \in Busy, class \in {"VISITOR", "RESIDENT"} : Begin(r, "counter", Entry(b, class))
    BY <1>3 DEF Arrive
  <2>2. b \in Buildings /\ NoSetting \in Setting
    BY LotAssumption DEF LotAssumption, NoSetting, Setting
  <2>3. Entry(b, class) \in LotRequest
    BY <2>2 DEF Entry, LotRequest
  <2> QED
    BY <2>1, <2>3, Begun
<1> QED
  BY <1>1, <1>2, <1>3

\* Taking the lock of a lot that is free.
LEMMA LotLocked ==
  ASSUME LotTypeOK, NEW r \in Slots, NEW b \in Buildings, LoadLot(r, b)
  PROVE  /\ lotHolder' \in [Buildings -> Slots \cup {NoSlot}]
         /\ lotHolder[b] = NoSlot /\ lotHolder'[b] = r
         /\ \A c \in Buildings \ {b} : lotHolder'[c] = lotHolder[c]
         /\ UNCHANGED <<ctrHolder, inserted>>
BY DEF LoadLot, LotTypeOK

LEMMA LotTaken ==
  ASSUME LotAgrees, NEW r \in Slots, NEW b \in Buildings, NEW place \in LotPlaces,
         LoadLot(r, b), GoTo(r, place), SlotStands(r)',
         LocksOf(r)' = LocksOf(r) \cup {b}, CounterOf(r)' = CounterOf(r)
  PROVE  LotAgrees'
<1>1. LotTypeOK'
  BY LotLocked, Moved DEF LotAgrees, LotTypeOK, lotTables
<1>2. LotOthers(r)
  BY LotLocked, Moved, SlotsAreNotNone DEF LotAgrees, LotOthers
<1>3. LocksMatchOf(r)'
  BY LotLocked DEF LotAgrees, LocksMatch, LocksMatchOf
<1>4. UNCHANGED lotTables
  BY DEF GoTo
<1> QED
  BY <1>1, <1>2, <1>3, <1>4, LotLocalStep

\* What a form or a copy relies on.
LEMMA EditingSlot ==
  ASSUME LotAgrees, NEW r \in Slots, lotPc[r] \in Editing
  PROVE  /\ lotReq[r] \in LotRequest /\ lotReq[r].op \in {"put", "copy"}
         /\ lotReq[r].op = "copy" <=> lotReq[r].from # lotReq[r].to
         /\ lotReq[r].from \in Buildings /\ lotReq[r].to \in Buildings
         /\ lotReq[r].set \in Setting
         /\ r \notin inserted
<1>1. lotReq[r] # NoLotRequest
  BY DEF LotAgrees, SlotStands, NoLotRequest, TwoLotsToCopy
<1> QED
  BY <1>1 DEF LotAgrees, LotTypeOK, SlotStands, Editing, TwoLotsToCopy

LEMMA LockedFirst ==
  ASSUME LotAgrees, NEW r \in Slots, LockFirstLot(r)
  PROVE  LotAgrees'
<1> DEFINE q == lotReq[r]
           place == IF q.op = "copy" THEN "second" ELSE "validate"
<1>1. lotPc[r] = "form" /\ LoadLot(r, FirstLot(q)) /\ GoTo(r, place)
  BY DEF LockFirstLot
<1>2. /\ q \in LotRequest /\ (q.op # "copy" => q.from = q.to) /\ r \notin inserted
  BY <1>1, EditingSlot DEF Editing
<1>3. /\ FirstLot(q) \in Buildings /\ (q.from = q.to => FirstLot(q) = q.to)
  BY <1>2, LotsInOrder
<1>4. /\ lotPc'[r] = place /\ UNCHANGED <<lotTables, lotReq, form, inserted>>
      /\ place \in LotPlaces /\ place \in {"second", "validate"}
      /\ place = "second" => q.op = "copy"
      /\ place = "validate" => q.from = q.to
  BY <1>1, <1>2, Moved DEF LotAgrees, LotPlaces, LoadLot
<1>5. SlotStands(r)'
  <2>1. SlotStands(r) /\ lotPc[r] \in Editing /\ lotPc'[r] \in Editing \ {"save"}
    BY <1>1, <1>4 DEF LotAgrees, Editing
  <2>2. lotPc'[r] \notin Entering
    BY <1>4 DEF Entering
  <2> QED
    BY <1>2, <1>4, <2>1, <2>2 DEF SlotStands, lotTables, Entering
<1>6. LocksOf(r)' = LocksOf(r) \cup {FirstLot(q)} /\ CounterOf(r)' = CounterOf(r)
  <2>1. LocksOf(r) = {} /\ CounterOf(r) = {} /\ CounterOf(r)' = {}
    BY <1>1, <1>4 DEF LocksOf, CounterOf
  <2>2. LocksOf(r)' = {FirstLot(q)}
    BY <1>3, <1>4 DEF LocksOf
  <2> QED
    BY <2>1, <2>2
<1> QED
  BY <1>1, <1>3, <1>4, <1>5, <1>6, LotTaken

LEMMA LockedSecond ==
  ASSUME LotAgrees, NEW r \in Slots, LockSecondLot(r)
  PROVE  LotAgrees'
<1> DEFINE q == lotReq[r]
<1>1. lotPc[r] = "second" /\ LoadLot(r, SecondLot(q)) /\ GoTo(r, "validate")
  BY DEF LockSecondLot
<1>2. q \in LotRequest /\ r \notin inserted
  BY <1>1, EditingSlot DEF Editing
<1>3. /\ FirstLot(q) \in Buildings /\ SecondLot(q) \in Buildings
      /\ {FirstLot(q), SecondLot(q)} = {q.from, q.to}
  BY <1>2, LotsInOrder
<1>4. lotPc'[r] = "validate" /\ UNCHANGED <<lotTables, lotReq, form, inserted>>
  BY <1>1, Moved DEF LotAgrees, LotPlaces, LoadLot
<1>5. SlotStands(r)'
  BY <1>1, <1>2, <1>4 DEF LotAgrees, SlotStands, lotTables, Editing, Entering
<1>6. LocksOf(r)' = LocksOf(r) \cup {SecondLot(q)} /\ CounterOf(r)' = CounterOf(r)
  <2>1. LocksOf(r) = {FirstLot(q)} /\ CounterOf(r) = {} /\ CounterOf(r)' = {}
    BY <1>1, <1>3, <1>4 DEF LocksOf, CounterOf
  <2>2. LocksOf(r)' = {FirstLot(q), SecondLot(q)}
    BY <1>3, <1>4 DEF LocksOf
  <2> QED
    BY <2>1, <2>2
<1> QED
  BY <1>1, <1>3, <1>4, <1>5, <1>6, LotTaken DEF LotPlaces

LEMMA Validated ==
  ASSUME LotAgrees, NEW r \in Slots, ValidateSettings(r)
  PROVE  LotAgrees'
<1> DEFINE q == lotReq[r]
<1>1. lotPc[r] = "validate"
  BY DEF ValidateSettings
<1>2. CASE RefuseLot(r)
  BY <1>2, LotRefused
<1>3. CASE /\ Current(r) /\ ValidLive(q.to, NewSetting(q))
           /\ GoTo(r, "save") /\ UNCHANGED lotHolders
  <2>1. /\ lotPc' \in [Slots -> LotPlaces] /\ lotPc'[r] = "save"
        /\ \A s \in Slots \ {r} : lotPc'[s] = lotPc[s]
        /\ UNCHANGED <<lotTables, lotHolders, lotReq, form>>
    BY <1>3, Moved DEF LotAgrees, LotPlaces
  <2>2. LotTypeOK' /\ LotOthers(r)
    BY <2>1 DEF LotAgrees, LotTypeOK, LotOthers, lotTables, lotHolders
  <2>3. LocksMatchOf(r)'
    BY <1>1, <2>1 DEF LotAgrees, LocksMatch, LocksMatchOf, LocksOf, CounterOf, lotHolders
  <2>4. Current(r)' /\ (NewSetting(q).safe >= parked[q.to])'
    BY <1>3, <2>1 DEF Current, ValidLive, NewSetting, Copied, SettingOf, lotTables
  <2>5. SlotStands(r)'
    BY <1>1, <2>1, <2>4 DEF LotAgrees, SlotStands, lotTables, lotHolders, Editing, Entering
  <2> QED
    BY <2>1, <2>2, <2>3, <2>5, LotLocalStep
<1> QED
  BY <1>2, <1>3 DEF ValidateSettings

\* The slot that saves a lot, and every slot that relies on that lot's row, hold its lock.
LEMMA SavedAlone ==
  ASSUME LotAgrees, NEW r \in Slots, NEW s \in Slots \ {r},
         lotPc[r] \in {"save", "enter"}, lotPc[s] \in {"save", "enter"},
         lotPc[r] = "save" => lotReq[r].to \in Buildings,
         lotPc[r] = "enter" => lotReq[r].to \in Buildings
  PROVE  /\ lotReq[s].to # lotReq[r].to
         /\ lotPc[s] = "save" => lotReq[s].from # lotReq[r].to
<1>1. lotReq[r].to \in LocksOf(r)
  BY DEF LocksOf
<1>2. lotReq[r].to \notin LocksOf(s)
  BY <1>1 DEF LotAgrees, LocksMatch
<1> QED
  BY <1>2 DEF LocksOf

\* What a validated save writes.
LEMMA SavedLot ==
  ASSUME LotAgrees, NEW r \in Slots, lotPc[r] = "save"
  PROVE  LET q == lotReq[r]  lot == Saved(lots[q.to], NewSetting(q))
         IN /\ q.to \in Buildings /\ lot \in Lot
            /\ lot.rev = lots[q.to].rev + 1 /\ lot.safe >= parked[q.to]
<1> DEFINE q == lotReq[r]
<1>1. q.to \in Buildings /\ q.from \in Buildings /\ q.set \in Setting
  BY EditingSlot DEF Editing
<1>2. lots[q.to] \in Lot /\ lots[q.from] \in Lot
  BY <1>1 DEF LotAgrees, LotTypeOK
<1>3. NewSetting(q) \in Setting
  <2>1. Copied(q) \in Setting
    BY <1>2 DEF Copied, SettingOf, Setting, Lot
  <2> QED
    BY <1>1, <2>1 DEF NewSetting
<1>4. NewSetting(q).safe >= parked[q.to]
  BY DEF LotAgrees, SlotStands
<1> HIDE DEF q
<1> QED
  BY <1>1, <1>2, <1>3, <1>4 DEF Saved, Lot, Setting, q

LEMMA SettingsSaved ==
  ASSUME LotAgrees, NEW r \in Slots, SaveSettings(r)
  PROVE  LotAgrees'
<1> DEFINE q == lotReq[r]
           lot == Saved(lots[q.to], NewSetting(q))
<1>1. /\ lotPc[r] = "save" /\ lots' = [lots EXCEPT ![q.to] = lot] /\ GiveBack(r)
      /\ UNCHANGED <<parked, counterRows, serving>>
  BY DEF SaveSettings
<1>2. q.to \in Buildings /\ lot \in Lot /\ lot.rev = lots[q.to].rev + 1
  BY <1>1, SavedLot
<1> HIDE DEF lot
<1>3. /\ lots' \in [Buildings -> Lot] /\ lots'[q.to] = lot
      /\ \A b \in Buildings \ {q.to} : lots'[b] = lots[b]
  BY <1>1, <1>2 DEF LotAgrees, LotTypeOK
<1>4. LotTypeOK' /\ LotOthers(r) /\ LocksMatchOf(r)' /\ SlotStands(r)'
  BY <1>1, <1>3, LocksGivenBack DEF LotAgrees, LotTypeOK
<1>5. \A s \in Slots : SlotStands(s)'
  <2> SUFFICES ASSUME NEW s \in Slots, s # r PROVE SlotStands(s)'
    BY <1>4
  <2>1. SlotStands(s) /\ lotPc'[s] = lotPc[s] /\ lotReq'[s] = lotReq[s] /\ form'[s] = form[s]
        /\ (s \in inserted' <=> s \in inserted)
    BY <1>4 DEF LotAgrees, LotOthers
  <2> DEFINE p == lotReq[s]
  <2>2. CASE lotPc[s] \in Editing
    <3>1. /\ p.from \in Buildings /\ p.to \in Buildings /\ s \notin inserted
      BY <2>2, EditingSlot
    <3>2. \A b \in Buildings, f \in Lot : Seen(f, lots[b]) => Seen(f, lots'[b])
      BY <1>2, <1>3 DEF LotAgrees, LotTypeOK, Lot, Seen
    <3>3. form[s].from \in Lot /\ form[s].to \in Lot
      BY DEF LotAgrees, LotTypeOK
    <3>4. lotPc[s] = "save" => lots'[p.from] = lots[p.from] /\ lots'[p.to] = lots[p.to]
      BY <1>1, <1>2, <1>3, <3>1, SavedAlone
    <3>5. lotPc[s] = "save" => Current(s)' /\ (NewSetting(p).safe >= parked[p.to])'
      BY <1>1, <2>1, <3>4 DEF SlotStands, Current, NewSetting, Copied, SettingOf
    <3> QED
      BY <2>1, <2>2, <3>1, <3>2, <3>3, <3>5 DEF SlotStands, Editing, Entering
  <2>3. CASE lotPc[s] \notin Editing
    <3>1. lotPc[s] = "enter" => p.to \in Buildings /\ lots'[p.to] = lots[p.to]
      BY <1>1, <1>2, <1>3, <2>1, SavedAlone DEF SlotStands, Entering
    <3> QED
      BY <1>1, <2>1, <2>3, <3>1 DEF SlotStands, Editing, Entering
  <2> QED
    BY <2>2, <2>3
<1>6. OneCounterRow'
  BY <1>1 DEF LotAgrees, OneCounterRow
<1> QED
  BY <1>4, <1>5, <1>6, OthersMatch DEF LotAgrees

\* Taking the lock of a counter row, found or inserted.
LEMMA CounterTaken ==
  ASSUME LotAgrees, NEW r \in Slots, lotPc[r] \in {"counter", "missing"}, GoTo(r, "ready"),
         ctrHolder[lotReq[r].to] = NoSlot,
         ctrHolder' = [ctrHolder EXCEPT ![lotReq[r].to] = r],
         inserted' \in {inserted, inserted \cup {r}}, UNCHANGED lotHolder,
         r \in inserted' => counterRows[lotReq[r].to] = 0
  PROVE  LotAgrees'
<1> DEFINE b == lotReq[r].to
<1>1. b \in Buildings /\ r \notin inserted
  BY DEF LotAgrees, SlotStands, Entering
<1>2. /\ lotPc' \in [Slots -> LotPlaces] /\ lotPc'[r] = "ready"
      /\ \A s \in Slots \ {r} : lotPc'[s] = lotPc[s]
      /\ UNCHANGED <<lotTables, lotReq, form>>
  BY Moved DEF LotAgrees, LotPlaces
<1>3. /\ ctrHolder' \in [Buildings -> Slots \cup {NoSlot}] /\ ctrHolder'[b] = r
      /\ \A c \in Buildings \ {b} : ctrHolder'[c] = ctrHolder[c]
  BY <1>1 DEF LotAgrees, LotTypeOK
<1>4. LotTypeOK'
  BY <1>2, <1>3 DEF LotAgrees, LotTypeOK, lotTables
<1>5. LotOthers(r)
  BY <1>2, <1>3, SlotsAreNotNone DEF LotOthers
<1>6. LocksMatchOf(r)'
  <2>1. CounterOf(r) = {} /\ CounterOf(r)' = {b} /\ LocksOf(r) = {} /\ LocksOf(r)' = {}
    BY <1>2 DEF CounterOf, LocksOf
  <2> QED
    BY <1>3, <2>1 DEF LotAgrees, LocksMatch, LocksMatchOf
<1>7. SlotStands(r)'
  BY <1>1, <1>2 DEF SlotStands, lotTables, Editing, Entering
<1> QED
  BY <1>2, <1>4, <1>5, <1>6, <1>7, LotLocalStep

LEMMA CounterFound ==
  ASSUME LotAgrees, NEW r \in Slots, FindCounter(r)
  PROVE  LotAgrees'
<1> DEFINE b == lotReq[r].to
<1>1. /\ lotPc[r] = "counter" /\ UNCHANGED <<lotHolder, inserted>>
      /\ b \in Buildings /\ r \notin inserted
  BY DEF FindCounter, LotAgrees, SlotStands, Entering
<1>2. CASE /\ ctrHolder[b] = NoSlot /\ ctrHolder' = [ctrHolder EXCEPT ![b] = r]
           /\ GoTo(r, "ready")
  BY <1>1, <1>2, CounterTaken
<1>3. CASE UNCHANGED ctrHolder /\ GoTo(r, "missing")
  <2>1. /\ lotPc' \in [Slots -> LotPlaces] /\ lotPc'[r] = "missing"
        /\ \A s \in Slots \ {r} : lotPc'[s] = lotPc[s]
        /\ UNCHANGED <<lotTables, lotReq, form>>
    BY <1>3, Moved DEF LotAgrees, LotPlaces
  <2>2. LotTypeOK' /\ LotOthers(r)
    BY <1>1, <1>3, <2>1 DEF LotAgrees, LotTypeOK, LotOthers, lotTables
  <2>3. LocksMatchOf(r)'
    BY <1>1, <1>3, <2>1 DEF LotAgrees, LocksMatch, LocksMatchOf, LocksOf, CounterOf
  <2>4. SlotStands(r)'
    BY <1>1, <2>1 DEF SlotStands, lotTables, Editing, Entering
  <2> QED
    BY <2>1, <2>2, <2>3, <2>4, LotLocalStep
<1> QED
  BY <1>2, <1>3 DEF FindCounter

LEMMA CounterInserted ==
  ASSUME LotAgrees, NEW r \in Slots, InsertCounter(r)
  PROVE  LotAgrees'
<1> DEFINE b == lotReq[r].to
<1>1. lotPc[r] = "missing" /\ ctrHolder[b] = NoSlot /\ b \in Buildings
  BY DEF InsertCounter, LotAgrees, SlotStands, Entering
<1>2. CASE CounterConflict(b)
  BY <1>2, LotRefused DEF InsertCounter
<1>3. CASE ~CounterConflict(b)
  <2>1. counterRows[b] = 0
    BY <1>1, <1>3 DEF CounterConflict, LotAgrees, LotTypeOK
  <2> QED
    BY <1>1, <1>3, <2>1, CounterTaken DEF InsertCounter
<1> QED
  BY <1>2, <1>3

LEMMA ReadyRequired ==
  ASSUME LotAgrees, NEW r \in Slots, RequireReadyForEntry(r)
  PROVE  LotAgrees'
<1> DEFINE b == lotReq[r].to
<1>1. lotPc[r] = "ready" /\ b \in Buildings
  BY DEF RequireReadyForEntry, LotAgrees, SlotStands, Entering
<1>2. CASE ~Ready(b)
  BY <1>2, LotRefused DEF RequireReadyForEntry
<1>3. CASE Ready(b)
  <2>1. LoadLot(r, b) /\ GoTo(r, "enter")
    BY <1>3 DEF RequireReadyForEntry
  <2>2. lotPc'[r] = "enter" /\ UNCHANGED <<lotTables, lotReq, form, inserted>>
    BY <2>1, Moved DEF LotAgrees, LotPlaces, LoadLot
  <2>3. SlotStands(r)'
    BY <1>1, <1>3, <2>2 DEF LotAgrees, SlotStands, Ready, lotTables, Editing, Entering
  <2>4. LocksOf(r)' = LocksOf(r) \cup {b} /\ CounterOf(r)' = CounterOf(r)
    BY <1>1, <2>2 DEF LocksOf, CounterOf
  <2> QED
    BY <1>1, <2>1, <2>3, <2>4, LotTaken DEF LotPlaces
<1> QED
  BY <1>2, <1>3

LEMMA EntryCommitted ==
  ASSUME LotAgrees, NEW r \in Slots, CommitLotEntry(r)
  PROVE  LotAgrees'
<1> DEFINE b == lotReq[r].to
<1>1. lotPc[r] = "enter" /\ b \in Buildings
  BY DEF CommitLotEntry, LotAgrees, SlotStands, Entering
<1>2. CASE RefuseLot(r)
  BY <1>2, LotRefused
<1>3. CASE /\ parked' = [parked EXCEPT ![b] = @ + 1]
           /\ counterRows' = [counterRows EXCEPT ![b] = IF r \in inserted THEN @ + 1 ELSE @]
           /\ GiveBack(r) /\ UNCHANGED <<lots, serving>>
  <2>1. /\ parked' \in [Buildings -> Nat] /\ counterRows' \in [Buildings -> Nat]
        /\ \A c \in Buildings \ {b} : parked'[c] = parked[c] /\ counterRows'[c] = counterRows[c]
        /\ r \in inserted => counterRows'[b] = counterRows[b] + 1
        /\ r \notin inserted => counterRows'[b] = counterRows[b]
    BY <1>1, <1>3 DEF LotAgrees, LotTypeOK
  <2>2. LotTypeOK' /\ LotOthers(r) /\ LocksMatchOf(r)' /\ SlotStands(r)'
    BY <1>3, <2>1, LocksGivenBack DEF LotAgrees, LotTypeOK
  <2>3. OneCounterRow'
    BY <1>1, <2>1 DEF LotAgrees, OneCounterRow, SlotStands
  <2>4. \A s \in Slots : SlotStands(s)'
    <3> SUFFICES ASSUME NEW s \in Slots, s # r PROVE SlotStands(s)'
      BY <2>2
    <3>1. SlotStands(s) /\ lotPc'[s] = lotPc[s] /\ lotReq'[s] = lotReq[s] /\ form'[s] = form[s]
          /\ (s \in inserted' <=> s \in inserted)
      BY <2>2 DEF LotAgrees, LotOthers
    <3> DEFINE p == lotReq[s]
    <3>2. lotPc[s] = "save" => p.to \in Buildings /\ p.to # b
      BY <1>1, <3>1, SavedAlone DEF SlotStands, Editing
    <3>3. s \in inserted => p.to \in Buildings /\ p.to # b
      <4>1. SUFFICES ASSUME s \in inserted PROVE p.to \in Buildings /\ p.to # b
        OBVIOUS
      <4>2. lotPc[s] \in {"ready", "enter"} /\ p.to \in Buildings
        BY <3>1, <4>1 DEF SlotStands, Entering
      <4>3. p.to \in CounterOf(s) /\ b \in CounterOf(r)
        BY <1>1, <4>2 DEF CounterOf
      <4> QED
        BY <1>1, <4>2, <4>3 DEF LotAgrees, LocksMatch
    <3>4. lotPc[s] = "save" => Current(s)' /\ (NewSetting(p).safe >= parked[p.to])'
      BY <1>3, <2>1, <3>1, <3>2 DEF SlotStands, Current, NewSetting, Copied, SettingOf
    <3> QED
      BY <1>3, <2>1, <3>1, <3>3, <3>4 DEF SlotStands
  <2> QED
    BY <2>2, <2>3, <2>4, OthersMatch DEF LotAgrees
<1> QED
  BY <1>2, <1>3 DEF CommitLotEntry

LEMMA LotAround ==
  ASSUME LotAgrees, NEW b \in Buildings, Leave(b) \/ ChangeServing(b)
  PROVE  LotAgrees'
<1>1. UNCHANGED <<lots, counterRows, lotHolders, lotPc, lotReq, form>>
  BY DEF Leave, ChangeServing
<1>2. parked' \in [Buildings -> Nat] /\ \A c \in Buildings : parked'[c] <= parked[c]
  BY DEF Leave, ChangeServing, LotAgrees, LotTypeOK
<1>3. serving' \in [Buildings -> BOOLEAN]
  BY DEF Leave, ChangeServing, LotAgrees, LotTypeOK
<1>4. LotTypeOK' /\ OneCounterRow' /\ LocksMatch'
  BY <1>1, <1>2, <1>3
    DEF LotAgrees, LotTypeOK, OneCounterRow, LocksMatch, LocksOf, CounterOf, lotHolders
<1>5. ASSUME NEW s \in Slots PROVE SlotStands(s)'
  <2> DEFINE p == lotReq[s]
  <2>1. SlotStands(s) /\ Current(s)' = Current(s) /\ NewSetting(p)' = NewSetting(p)
    BY <1>1 DEF LotAgrees, Current, NewSetting, Copied, SettingOf
  <2>2. lotPc[s] = "save" => NewSetting(p).safe >= parked'[p.to]
    <3>1. SUFFICES ASSUME lotPc[s] = "save" PROVE NewSetting(p).safe >= parked'[p.to]
      OBVIOUS
    <3>2. p.to \in Buildings /\ p.from \in Buildings /\ p.set \in Setting
      BY <3>1, EditingSlot DEF Editing
    <3>3. NewSetting(p).safe \in Nat
      BY <3>1, SavedLot, <3>2 DEF Saved, Lot
    <3> QED
      BY <1>2, <2>1, <3>1, <3>2, <3>3 DEF SlotStands, LotAgrees, LotTypeOK
  <2> QED
    BY <1>1, <2>1, <2>2 DEF SlotStands, lotHolders
<1> QED
  BY <1>4, <1>5 DEF LotAgrees

LEMMA NextLotAgrees == LotAgrees /\ [LotNext]_lotVars => LotAgrees'
<1> SUFFICES ASSUME LotAgrees, [LotNext]_lotVars PROVE LotAgrees'
  OBVIOUS
<1>1. Busy \subseteq Buildings
  BY LotAssumption DEF LotAssumption
<1>2. ASSUME NEW r \in Slots, LotRequestLost(r) PROVE LotAgrees'
  BY <1>2, LotRefused DEF LotRequestLost
<1>3. CASE UNCHANGED lotVars
  BY <1>3
    DEF LotAgrees, LotTypeOK, OneCounterRow, LocksMatch, LocksOf, CounterOf, SlotStands, Current,
        NewSetting, Copied, SettingOf, lotVars, lotTables, lotHolders
<1> QED
  BY <1>1, <1>2, <1>3, Opened, LockedFirst, LockedSecond, Validated, SettingsSaved, CounterFound,
     CounterInserted, ReadyRequired, EntryCommitted, LotAround
    DEF LotNext

\* Locks and what is read under them agree, whatever forms, copies and entries overlap.
THEOREM LotsAlwaysAgree == LotSpec => []LotAgrees
BY FirstLotAgrees, NextLotAgrees, PTL DEF LotSpec

\* The variables always have their types.
THEOREM LotTypes == LotSpec => []LotTypeOK
<1>1. LotAgrees => LotTypeOK
  BY DEF LotAgrees
<1> QED
  BY <1>1, LotsAlwaysAgree, PTL

\* The first vehicles of a building never leave it with two counter rows (the savepoint in
\* counter_service.py and the unique constraint on building and vehicle type).
THEOREM CounterRowsAreUnique == LotSpec => []OneCounterRow
<1>1. LotAgrees => OneCounterRow
  BY DEF LotAgrees
<1> QED
  BY <1>1, LotsAlwaysAgree, PTL

\* Who changes a lot, and what holds when it does.
LEMMA OnlySavesChangeLots ==
  ASSUME LotAgrees, [LotNext]_lotVars, NEW b \in Buildings, lots'[b] # lots[b]
  PROVE  \E r \in Slots : /\ lotPc[r] = "save" /\ lotReq[r].to = b /\ SaveSettings(r)
                          /\ lots'[b] = Saved(lots[b], NewSetting(lotReq[r]))
<1>1. PICK r \in Slots : SaveSettings(r)
  BY DEF LotNext, OpenForm, OpenCopy, Begin, LockFirstLot, LockSecondLot, ValidateSettings, GoTo,
         Arrive, FindCounter, InsertCounter, RequireReadyForEntry, CommitLotEntry,
         LotRequestLost, RefuseLot, Leave, ChangeServing, lotTables, lotVars
<1>2. /\ lotPc[r] = "save"
      /\ lots' = [lots EXCEPT ![lotReq[r].to] = Saved(lots[lotReq[r].to], NewSetting(lotReq[r]))]
  BY <1>1 DEF SaveSettings
<1>3. lotReq[r].to = b
  BY <1>2 DEF LotAgrees, LotTypeOK
<1> QED
  BY <1>1, <1>2, <1>3 DEF LotAgrees, LotTypeOK

\* A save replaces what its author had on the screen: the revision check under the locks
\* of both lots is enough (write_settings, copy_lot_settings).
THEOREM SavesReplaceWhatWasSeen == LotSpec => NoUnseenChange
<1> DEFINE Change ==
      \A b \in Buildings : lots'[b] # lots[b] =>
        \E r \in Slots :
          /\ lotPc[r] = "save" /\ lotReq[r].to = b
          /\ form[r].to = lots[b] /\ form[r].from = lots[lotReq[r].from]
<1>1. ASSUME LotAgrees, [LotNext]_lotVars PROVE [Change]_lotVars
  <2> SUFFICES ASSUME NEW b \in Buildings, lots'[b] # lots[b]
               PROVE  \E r \in Slots :
                        /\ lotPc[r] = "save" /\ lotReq[r].to = b
                        /\ form[r].to = lots[b] /\ form[r].from = lots[lotReq[r].from]
    OBVIOUS
  <2>1. PICK r \in Slots : lotPc[r] = "save" /\ lotReq[r].to = b
    BY <1>1, OnlySavesChangeLots
  <2>2. /\ Seen(form[r].from, lots[lotReq[r].from]) /\ Seen(form[r].to, lots[lotReq[r].to])
        /\ Current(r)
    BY <1>1, <2>1 DEF LotAgrees, SlotStands, Editing
  <2> QED
    BY <2>1, <2>2 DEF Seen, Current
<1> QED
  BY <1>1, LotsAlwaysAgree, PTL DEF LotSpec, NoUnseenChange

\* No save undercuts the parked vehicles, since entries into its lot wait for its lock
\* between the count and the commit (lock=True in require_ready_for_entry).
THEOREM SavesCoverParked == LotSpec => CapacityCoversParked
<1> DEFINE Change ==
      \A b \in Buildings : lots'[b] # lots[b] => lots'[b].safe >= parked'[b]
<1>1. ASSUME LotAgrees, [LotNext]_lotVars PROVE [Change]_lotVars
  <2> SUFFICES ASSUME NEW b \in Buildings, lots'[b] # lots[b]
               PROVE  lots'[b].safe >= parked'[b]
    OBVIOUS
  <2>1. PICK r \in Slots : /\ lotPc[r] = "save" /\ lotReq[r].to = b /\ SaveSettings(r)
                           /\ lots'[b] = Saved(lots[b], NewSetting(lotReq[r]))
    BY <1>1, OnlySavesChangeLots
  <2> QED
    BY <1>1, <2>1, SavedLot DEF SaveSettings
<1> QED
  BY <1>1, LotsAlwaysAgree, PTL DEF LotSpec, CapacityCoversParked

\* A vehicle enters a lot that is open and has places at the moment of the commit
\* (require_ready_for_entry).
THEOREM EntriesFindOpenLots == LotSpec => EntryIntoOpenLot
<1> DEFINE Change ==
      \A b \in Buildings : parked'[b] > parked[b] => lots[b].open /\ lots[b].safe > 0
<1>1. ASSUME LotAgrees, [LotNext]_lotVars PROVE [Change]_lotVars
  <2> SUFFICES ASSUME NEW b \in Buildings, parked'[b] > parked[b]
               PROVE  lots[b].open /\ lots[b].safe > 0
    OBVIOUS
  <2>1. parked[b] \in Nat
    BY <1>1 DEF LotAgrees, LotTypeOK
  <2>2. ASSUME NEW c \in Busy, Leave(c) PROVE FALSE
    BY <1>1, <2>1, <2>2 DEF Leave, LotAgrees, LotTypeOK
  <2>3. PICK r \in Slots : CommitLotEntry(r)
    BY <1>1, <2>1, <2>2
      DEF LotNext, OpenForm, OpenCopy, Begin, LockFirstLot, LockSecondLot, ValidateSettings, GoTo,
          SaveSettings, Arrive, FindCounter, InsertCounter, RequireReadyForEntry,
          LotRequestLost, RefuseLot, ChangeServing, lotTables, lotVars
  <2>4. parked' = [parked EXCEPT ![lotReq[r].to] = @ + 1]
    BY <2>1, <2>3 DEF CommitLotEntry, RefuseLot, lotTables
  <2>5. lotReq[r].to = b /\ lotPc[r] = "enter"
    BY <1>1, <2>1, <2>3, <2>4 DEF CommitLotEntry, LotAgrees, LotTypeOK
  <2> QED
    BY <1>1, <2>5 DEF LotAgrees, SlotStands
<1> QED
  BY <1>1, LotsAlwaysAgree, PTL DEF LotSpec, EntryIntoOpenLot

\* Of the slots that wait for their second lot, one holds the greatest first lot.
LEMMA GreatestFirstLot ==
  ASSUME NEW D, D # {}, \A r \in D : FirstLot(lotReq[r]) \in 0 .. LastBuilding
  PROVE  \E r \in D : \A h \in D : FirstLot(lotReq[h]) <= FirstLot(lotReq[r])
<1> DEFINE Below(r) == LastBuilding - FirstLot(lotReq[r])
           T == {Below(r) : r \in D}
<1>1. LastBuilding \in Nat
  BY WorkersAssumption DEF WorkersAssumption
<1>2. \A r \in D : Below(r) \in Nat
  BY <1>1
<1>3. T \subseteq Nat /\ T # {}
  BY <1>2
<1>4. PICK x \in T : \A y \in T : ~ (<<y, x>> \in OpToRel(<, Nat))
  <2> HIDE DEF T
  <2> QED
    BY <1>3, NatLessThanWellFounded, WFMin
<1>5. PICK r \in D : x = Below(r)
  OBVIOUS
<1>6. ASSUME NEW h \in D PROVE FirstLot(lotReq[h]) <= FirstLot(lotReq[r])
  <2>1. Below(h) \in T /\ Below(h) \in Nat /\ Below(r) \in Nat
    BY <1>2
  <2>2. ~ (Below(h) < Below(r))
    BY <1>4, <1>5, <2>1 DEF OpToRel
  <2> QED
    BY <1>1, <2>2
<1> QED
  BY <1>6

\* Waiting slots never close a circle: who waits for its second lot waits for a slot with a
\* greater first lot, who waits for a counter row or a first lot waits for a slot that is
\* further on (the sorted lock order of router.py:63).
THEOREM LotLocksAreOrdered == LotSpec => []NoLockCycle
<1>1. ASSUME LotAgrees PROVE NoLockCycle
  <2> SUFFICES ASSUME NEW D \in SUBSET Slots, D # {}
               PROVE  \E r \in D : LotOwners(r) \cap D = {}
    BY DEF NoLockCycle
  <2> DEFINE Seconds == {r \in D : lotPc[r] = "second"}
  <2>1. \A r \in D : lotPc[r] \in LotPlaces
    BY <1>1 DEF LotAgrees, LotTypeOK
  <2>2. ASSUME NEW r \in D, lotPc[r] \in {"idle", "validate", "save", "enter"}
        PROVE  LotOwners(r) = {}
    BY <2>2 DEF LotOwners
  <2>3. ASSUME NEW r \in D, lotPc[r] = "second"
        PROVE  /\ FirstLot(lotReq[r]) \in Buildings /\ SecondLot(lotReq[r]) \in Buildings
               /\ FirstLot(lotReq[r]) < SecondLot(lotReq[r])
               /\ \A h \in LotOwners(r) : h = lotHolder[SecondLot(lotReq[r])]
    <3> DEFINE q == lotReq[r]
    <3>1. q \in LotRequest /\ q.from # q.to
      BY <1>1, <2>3, EditingSlot DEF Editing, LotAgrees, SlotStands
    <3>2. /\ FirstLot(q) \in Buildings /\ SecondLot(q) \in Buildings
          /\ FirstLot(q) < SecondLot(q)
      BY <3>1, LotsInOrder
    <3>3. \A h \in LotOwners(r) : h = lotHolder[SecondLot(q)]
      BY <2>3 DEF LotOwners
    <3> QED
      BY <3>2, <3>3
  <2>4. CASE Seconds # {}
    <3>1. \A r \in Seconds : FirstLot(lotReq[r]) \in 0 .. LastBuilding
      BY <2>3, WorkersAssumption DEF WorkersAssumption
    <3>2. PICK r \in Seconds :
            \A h \in Seconds : FirstLot(lotReq[h]) <= FirstLot(lotReq[r])
      <4> HIDE DEF Seconds
      <4> QED
        BY <2>4, <3>1, GreatestFirstLot
    <3>3. CASE LotOwners(r) \cap D = {}
      BY <3>3
    <3>4. CASE LotOwners(r) \cap D # {}
      <4>1. PICK h \in D : lotHolder[SecondLot(lotReq[r])] = h
        BY <2>3, <3>4
      <4>2. SecondLot(lotReq[r]) \in LocksOf(h)
        BY <1>1, <2>3, <4>1 DEF LotAgrees, LocksMatch
      <4>3. CASE lotPc[h] \in {"validate", "save", "enter"}
        BY <2>2, <4>3
      <4>4. CASE lotPc[h] = "second"
        <5>1. SecondLot(lotReq[r]) = FirstLot(lotReq[h]) /\ h \in Seconds
          BY <4>2, <4>4 DEF LocksOf
        <5>2. FirstLot(lotReq[h]) <= FirstLot(lotReq[r])
          BY <3>2, <5>1
        <5>3. FirstLot(lotReq[r]) < FirstLot(lotReq[h])
          BY <2>3, <5>1
        <5>4. FirstLot(lotReq[r]) \in Nat /\ FirstLot(lotReq[h]) \in Nat
          BY <2>3, <5>1, NumberedBuildings
        <5> QED
          BY <5>2, <5>3, <5>4
      <4> QED
        BY <4>2, <4>3, <4>4 DEF LocksOf
    <3> QED
      BY <3>3, <3>4
  <2>5. CASE Seconds = {}
    <3>1. ASSUME NEW r \in D, lotPc[r] \in {"form", "ready"}
          PROVE  \E h \in D : LotOwners(h) \cap D = {}
      <4> DEFINE b == IF lotPc[r] = "form" THEN FirstLot(lotReq[r]) ELSE lotReq[r].to
      <4>1. b \in Buildings
        BY <1>1, <3>1, EditingSlot, LotsInOrder DEF Editing, Entering, LotAgrees, SlotStands
      <4>2. \A h \in LotOwners(r) : h = lotHolder[b]
        BY <3>1 DEF LotOwners
      <4>3. CASE \E h \in D : lotHolder[b] = h
        BY <1>1, <2>2, <2>5, <4>1, <4>3 DEF LotAgrees, LocksMatch, LocksOf
      <4> QED
        BY <4>2, <4>3
    <3>2. ASSUME NEW r \in D, lotPc[r] \in {"counter", "missing"}
          PROVE  \E h \in D : LotOwners(h) \cap D = {}
      <4> DEFINE b == lotReq[r].to
      <4>1. b \in Buildings
        BY <1>1, <3>2 DEF Entering, LotAgrees, SlotStands
      <4>2. \A h \in LotOwners(r) : h = ctrHolder[b]
        BY <3>2 DEF LotOwners
      <4>3. CASE \E h \in D : ctrHolder[b] = h
        BY <1>1, <2>2, <3>1, <4>1, <4>3 DEF LotAgrees, LocksMatch, CounterOf
      <4> QED
        BY <4>2, <4>3
    <3> QED
      BY <2>1, <2>2, <2>5, <3>1, <3>2 DEF LotPlaces
  <2> QED
    BY <2>4, <2>5
<1> QED
  BY <1>1, LotsAlwaysAgree, PTL
=============================================================================
