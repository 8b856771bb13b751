---------------------------- MODULE Barriers_proofs ----------------------------
(***************************************************************************)
(* Proofs about Barriers for any number of requests, sessions and gates,   *)
(* any page size and any bounds of the clock and the log.                  *)
(***************************************************************************)
EXTENDS Barriers, FiniteSetTheorems, WellFoundedInduction, TLAPS

CallKinds == {"none", "OPEN", "CLOSE", "ENTER", "LEAVE"}

CallReasons == {"none", "VEHICLE_PASSED", "TIMEOUT_AUTO_CLOSE", "MANUAL_CLOSE",
                "UNPAID", "CHECK_OUT", "EMERGENCY"}

ToldTypes == {"CHECKED_IN", "BARRIER_OPENED_IN", "BARRIER_OPENED_OUT",
              "BARRIER_TIMEOUT_CLOSED", "EXIT_CONFIRMED", "FEE_CALCULATED", "COMPLETED"}

ToldEvent == [session : Sessions \cup {NoSession}, type : ToldTypes, gate : Gates, at : Nat]

LogEntry == [gate : Gates, status : {"OPEN", "CLOSED", "CLOSED_TIMEOUT"},
             session : Sessions \cup {NoSession}]

Visit == [status : {"none", "PARKED", "PAYMENT_PENDING", "COMPLETED"}, since : Nat,
          lane : Gates \cup {NoGate}, exit : Gates \cup {NoGate}]

CallType == [kind : CallKinds, gate : Gates \cup {NoGate}, reason : CallReasons,
             session : Sessions \cup {NoSession}, at : Nat]

Walk == [page : Nat, owed : SUBSET Sessions, shown : SUBSET Sessions]

\* Every variable has its type.
GtTypeOK ==
  /\ instant \in Nat
  /\ parking \in [Sessions -> Visit]
  /\ gateLog \in Seq(LogEntry) /\ timeline \in Seq(ToldEvent)
  /\ gtPc \in [Slots -> GtPlaces]
  /\ gtReq \in [Slots -> CallType]
  /\ walks \in [Slots -> Walk]

\* A call under way concerns a gate, began in the past and, if a vehicle leaves,
\* concerns a session that exists; only finitely many exist, all since some time past.
CallAgrees(r) ==
  gtPc[r] # "idle" =>
    /\ gtReq[r].gate \in Gates /\ gtReq[r].at \in 1 .. instant
    /\ gtReq[r].kind = "LEAVE" => gtReq[r].session \in Existing
    /\ gtPc[r] = "choose" => gtReq[r].kind = "OPEN"

BarriersAgree ==
  /\ GtTypeOK
  /\ \A r \in Slots : CallAgrees(r)
  /\ IsFiniteSet(Existing)
  /\ \A s \in Existing : parking[s].since <= instant
-----------------------------------------------------------------------------
(* Numbers and sequences.                                                  *)

\* Every set of natural numbers that is not empty has a least element.
LEMMA LeastNat ==
  ASSUME NEW T \in SUBSET Nat, T # {}
  PROVE  \E x \in T : \A y \in T : x <= y
<1>1. PICK x \in T : \A y \in T : ~ (<<y, x>> \in OpToRel(<, Nat))
  BY NatLessThanWellFounded, WFMin
<1>2. ASSUME NEW y \in T PROVE x <= y
  <2>1. x \in Nat /\ y \in Nat
    OBVIOUS
  <2>2. ~ (<<y, x>> \in OpToRel(<, Nat))
    BY <1>1
  <2>3. ~ (y < x)
    BY <2>1, <2>2 DEF OpToRel
  <2> QED
    BY <2>1, <2>3
<1> QED
  BY <1>2

\* What is told of a session: one event for each type, in their order.
LEMMA ToldEvents ==
  ASSUME NEW s \in Sessions \cup {NoSession}, NEW q \in CallType, q.gate \in Gates,
         NEW types \in Seq(ToldTypes)
  PROVE  /\ Told(s, q, types) \in Seq(ToldEvent) /\ Len(Told(s, q, types)) = Len(types)
         /\ \A i \in 1 .. Len(types) :
              Told(s, q, types)[i] = [session |-> s, type |-> types[i], gate |-> q.gate, at |-> q.at]
<1> DEFINE event(i) == [session |-> s, type |-> types[i], gate |-> q.gate, at |-> q.at]
<1>1. Len(types) \in Nat /\ DOMAIN types = 1 .. Len(types)
  OBVIOUS
<1>2. q.at \in Nat
  BY DEF CallType
<1>3. \A i \in 1 .. Len(types) : event(i) \in ToldEvent
  BY <1>2 DEF ToldEvent
<1>4. Told(s, q, types) = [i \in 1 .. Len(types) |-> event(i)]
  BY <1>1 DEF Told
<1> HIDE DEF event
<1>5. [i \in 1 .. Len(types) |-> event(i)] \in [1 .. Len(types) -> ToldEvent]
  BY <1>3
<1>6. Told(s, q, types) \in Seq(ToldEvent) /\ Len(Told(s, q, types)) = Len(types)
  BY <1>1, <1>4, <1>5
<1>7. \A i \in 1 .. Len(types) : Told(s, q, types)[i] = event(i)
  BY <1>4
<1> QED
  BY <1>6, <1>7 DEF event
-----------------------------------------------------------------------------
(* The inductive invariant, one lemma per kind of step.                    *)

\* A call that begins keeps the invariant.
LEMMA CallKeeps ==
  ASSUME BarriersAgree, NEW r \in Slots, NEW kind \in CallKinds, NEW g \in Gates,
         NEW reason \in CallReasons, NEW s \in Sessions \cup {NoSession},
         Call(r, kind, g, reason, s),
         NEW place \in {"choose", "record"}, GtGo(r, place),
         kind = "LEAVE" => s \in Existing, place = "choose" => kind = "OPEN"
  PROVE  BarriersAgree'
<1> USE DEF BarriersAgree
<1> DEFINE c == [kind |-> kind, gate |-> g, reason |-> reason, session |-> s,
                 at |-> instant + 1]
<1>1. c \in CallType
  BY DEF CallType, GtTypeOK
<1>2. c.gate \in Gates /\ c.kind = kind /\ c.session = s /\ c.at = instant + 1
  OBVIOUS
<1>3. /\ gtReq' = [gtReq EXCEPT ![r] = c] /\ gtPc' = [gtPc EXCEPT ![r] = place]
      /\ instant' = instant + 1
      /\ UNCHANGED <<parking, gateLog, timeline, walks>>
  BY DEF Call, GtGo, gtTables
<1> HIDE DEF c
<1>4. GtTypeOK'
  BY <1>1, <1>3 DEF GtTypeOK, GtPlaces
<1>5. Existing' = Existing
  BY <1>3 DEF Existing
<1>6. instant \in Nat /\ instant' = instant + 1
  BY <1>3 DEF GtTypeOK
<1>7. gtReq'[r] = c
  BY <1>3 DEF GtTypeOK
<1>8. CallAgrees(r)'
  <2>1. gtPc'[r] = place
    BY <1>3 DEF GtTypeOK
  <2> QED
    BY <1>2, <1>5, <1>6, <1>7, <2>1 DEF CallAgrees
<1>9. ASSUME NEW p \in Slots \ {r} PROVE CallAgrees(p)'
  <2>1. gtPc'[p] = gtPc[p] /\ gtReq'[p] = gtReq[p] /\ CallAgrees(p)
    BY <1>3 DEF GtTypeOK
  <2> QED
    BY <2>1, <1>5, <1>6 DEF CallAgrees
<1>10. \A s1 \in Existing : parking[s1].since <= instant + 1
  BY <1>6 DEF Existing, GtTypeOK, Visit
<1>11. \A s1 \in Existing' : parking'[s1].since <= instant'
  BY <1>3, <1>5, <1>10
<1> QED
  BY <1>4, <1>5, <1>8, <1>9, <1>11

\* A call that ends with the session rows as they are, or with more of them, keeps
\* the invariant.
LEMMA DoneKeeps ==
  ASSUME BarriersAgree, GtTypeOK', NEW r \in Slots, gtPc'[r] = "idle",
         \A p \in Slots \ {r} : gtPc'[p] = gtPc[p] /\ gtReq'[p] = gtReq[p],
         instant' = instant, Existing \subseteq Existing', IsFiniteSet(Existing)',
         \A s \in Existing' : parking'[s].since <= instant'
  PROVE  BarriersAgree'
BY DEF BarriersAgree, CallAgrees

\* A call that is over leaves no trace in its slot.
LEMMA GtDoneType ==
  ASSUME GtTypeOK, NEW r \in Slots, GtDone(r)
  PROVE  /\ gtPc' \in [Slots -> GtPlaces] /\ gtReq' \in [Slots -> CallType]
         /\ gtPc'[r] = "idle"
         /\ \A p \in Slots \ {r} : gtPc'[p] = gtPc[p] /\ gtReq'[p] = gtReq[p]
<1>1. NoCall \in CallType
  BY DEF NoCall, CallType, CallKinds, CallReasons
<1> QED
  BY <1>1 DEF GtDone, GtGo, GtTypeOK, GtPlaces

\* A lost call keeps the invariant.
LEMMA CallLostKeeps ==
  ASSUME BarriersAgree, NEW r \in Slots, CallLost(r)
  PROVE  BarriersAgree'
<1>1. GtTypeOK'
  BY GtDoneType DEF CallLost, BarriersAgree, GtTypeOK, gtTables
<1>2. Existing' = Existing
  BY DEF CallLost, gtTables, Existing
<1>3. parking' = parking /\ instant' = instant
  BY DEF CallLost, gtTables
<1> QED
  BY <1>1, <1>2, <1>3, GtDoneType, DoneKeeps DEF CallLost, BarriersAgree

\* The calls that begin keep the invariant: they change nothing but the clock.
LEMMA BeginKeeps ==
  ASSUME BarriersAgree, NEW r \in Slots,
         OpenBarrier(r) \/ EmergencyOpenBarrier(r) \/ CloseBarrier(r) \/ EnterGate(r)
           \/ LeaveGate(r)
  PROVE  /\ BarriersAgree'
         /\ \E kind \in CallKinds, g \in Gates, reason \in CallReasons,
               s \in Sessions \cup {NoSession} : Call(r, kind, g, reason, s)
<1>1. Existing \subseteq Sessions /\ InsideNow \subseteq Existing
  BY DEF Existing, InsideNow, InsideStatuses
<1>2. PICK kind \in CallKinds, g \in Gates, reason \in CallReasons, s \in Sessions \cup {NoSession},
           place \in {"choose", "record"} :
        /\ Call(r, kind, g, reason, s) /\ GtGo(r, place)
        /\ kind = "LEAVE" => s \in Existing
        /\ place = "choose" => kind = "OPEN"
  BY <1>1 DEF OpenBarrier, EmergencyOpenBarrier, CloseBarrier, EnterGate, LeaveGate,
              CallKinds, CallReasons
<1> QED
  BY <1>2, CallKeeps

\* Among the sessions at a gate there is a newest one.
LEMMA NewestExists ==
  ASSUME GtTypeOK, NEW T \in SUBSET Sessions, T # {}, \A s \in T : parking[s].since <= instant
  PROVE  NewestOf(T) \in T
<1> DEFINE Age(s) == instant - parking[s].since
           ages == {Age(s) : s \in T}
<1>1. \A s \in T : parking[s].since \in Nat
  BY DEF GtTypeOK, Visit
<1>2. instant \in Nat
  BY DEF GtTypeOK
<1>3. \A s \in T : Age(s) \in Nat
  BY <1>1, <1>2
<1>4. ages \subseteq Nat /\ ages # {}
  <2> HIDE DEF Age
  <2> QED
    BY <1>3
<1>5. PICK a \in ages : \A b \in ages : a <= b
  <2> HIDE DEF ages
  <2> QED
    BY <1>4, LeastNat
<1>6. PICK s \in T : a = Age(s)
  OBVIOUS
<1>7. ASSUME NEW t \in T PROVE parking[t].since <= parking[s].since
  <2>1. Age(t) \in ages
    OBVIOUS
  <2>2. Age(s) <= Age(t)
    <3> HIDE DEF Age, ages
    <3> QED
      BY <1>5, <1>6, <2>1
  <2> QED
    BY <1>1, <1>2, <2>2
<1> QED
  BY <1>7 DEF NewestOf

\* Finding the session of an emergency keeps the invariant.
LEMMA ChooseKeeps ==
  ASSUME BarriersAgree, NEW r \in Slots, ChooseSession(r)
  PROVE  BarriersAgree'
<1> USE DEF BarriersAgree
<1> DEFINE q == gtReq[r]
           s == IF AtGate(q.gate) = {} THEN NoSession ELSE NewestOf(AtGate(q.gate))
           c == [kind |-> q.kind, gate |-> q.gate, reason |-> q.reason, session |-> s, at |-> q.at]
<1>1. AtGate(q.gate) \subseteq Existing /\ Existing \subseteq Sessions
  BY DEF AtGate, InsideNow, Existing, InsideStatuses
<1>2. s = NoSession \/ s \in Existing
  BY <1>1, NewestExists
<1>3. gtPc[r] # "idle" /\ q \in CallType
  BY DEF ChooseSession, GtTypeOK
<1>4. q.gate \in Gates /\ q.at \in 1 .. instant /\ q.kind = "OPEN"
  BY <1>3 DEF CallAgrees, ChooseSession
<1>5. /\ gtReq' = [gtReq EXCEPT ![r] = c] /\ gtPc' = [gtPc EXCEPT ![r] = "record"]
      /\ UNCHANGED <<instant, parking, gateLog, timeline, walks>>
  BY DEF ChooseSession, GtGo, gtTables
<1> HIDE DEF s
<1>6. c \in CallType
  BY <1>1, <1>2, <1>3 DEF CallType
<1>7. c.gate = q.gate /\ c.at = q.at /\ c.kind = q.kind
  OBVIOUS
<1> HIDE DEF c, q
<1>8. GtTypeOK'
  BY <1>5, <1>6 DEF GtTypeOK, GtPlaces
<1>9. Existing' = Existing
  BY <1>5 DEF Existing
<1>10. CallAgrees(r)'
  <2>1. gtReq'[r] = c
    BY <1>5 DEF GtTypeOK
  <2> QED
    BY <1>4, <1>5, <1>7, <2>1 DEF CallAgrees
<1>11. ASSUME NEW p \in Slots \ {r} PROVE CallAgrees(p)'
  <2>1. gtPc'[p] = gtPc[p] /\ gtReq'[p] = gtReq[p] /\ CallAgrees(p)
    BY <1>5 DEF GtTypeOK
  <2> QED
    BY <1>5, <1>9, <2>1 DEF CallAgrees
<1> QED
  BY <1>5, <1>8, <1>9, <1>10, <1>11

\* What the steps that record something tell of their session has the right type.
LEMMA RecordedTypes ==
  ASSUME GtTypeOK, NEW g \in Gates, NEW s \in Sessions \cup {NoSession}, NEW q \in CallType,
         q.gate = g
  PROVE  /\ TimelineTypes(q) \in Seq(ToldTypes)
         /\ Logged(g, StatusOf(q), s) \in LogEntry /\ Logged(g, "OPEN", s) \in LogEntry
         /\ <<"CHECKED_IN", "BARRIER_OPENED_IN">> \in Seq(ToldTypes)
         /\ <<"FEE_CALCULATED">> \in Seq(ToldTypes)
         /\ <<"BARRIER_OPENED_OUT", "COMPLETED">> \in Seq(ToldTypes)
         /\ <<"EXIT_CONFIRMED", "BARRIER_OPENED_OUT", "COMPLETED">> \in Seq(ToldTypes)
<1>1. TimelineTypes(q) \in Seq(ToldTypes)
  <2> DEFINE one(type) == <<type>>
  <2>1. /\ OpenedType(q.gate) \in ToldTypes
        /\ "BARRIER_TIMEOUT_CLOSED" \in ToldTypes /\ "EXIT_CONFIRMED" \in ToldTypes
    BY DEF OpenedType, ToldTypes
  <2>2. \A type \in ToldTypes : one(type) \in Seq(ToldTypes)
    OBVIOUS
  <2>3. << >> \in Seq(ToldTypes)
    OBVIOUS
  <2>4. \/ TimelineTypes(q) = << >>
        \/ \E type \in ToldTypes : TimelineTypes(q) = one(type)
    <3> DEFINE o == OpenedType(q.gate)
    <3>1. \/ TimelineTypes(q) = << >> \/ TimelineTypes(q) = one(o)
          \/ TimelineTypes(q) = one("BARRIER_TIMEOUT_CLOSED")
          \/ TimelineTypes(q) = one("EXIT_CONFIRMED")
      BY Zenon DEF TimelineTypes
    <3> HIDE DEF o, one
    <3> QED
      BY <2>1, <3>1 DEF o
  <2> HIDE DEF one
  <2> QED
    BY <2>2, <2>3, <2>4
<1>2. Logged(g, StatusOf(q), s) \in LogEntry /\ Logged(g, "OPEN", s) \in LogEntry
  BY DEF Logged, StatusOf, LogEntry
<1>3. /\ "CHECKED_IN" \in ToldTypes /\ "BARRIER_OPENED_IN" \in ToldTypes
      /\ "FEE_CALCULATED" \in ToldTypes /\ "COMPLETED" \in ToldTypes
      /\ "BARRIER_OPENED_OUT" \in ToldTypes /\ "EXIT_CONFIRMED" \in ToldTypes
  BY DEF ToldTypes
<1> QED
  BY <1>1, <1>2, <1>3

\* What a record step does: it appends to the log and the timeline and ends its call.
\* LogGrows and Tells name its two halves for the proofs.
LogGrows(g, status, s) == gateLog' = Append(gateLog, Logged(g, status, s))
Tells(s, q, types) == timeline' = timeline \o Told(s, q, types)

\* The barrier calls keep the invariant.
LEMMA BarrierEventKeeps ==
  ASSUME BarriersAgree, NEW r \in Slots, RecordBarrierEvent(r)
  PROVE  BarriersAgree'
<1> USE DEF BarriersAgree
<1> DEFINE q == gtReq[r]
<1>1. q \in CallType /\ q.gate \in Gates
  BY DEF RecordBarrierEvent, GtTypeOK, CallAgrees
<1>2. q.session \in Sessions \cup {NoSession}
  BY <1>1 DEF CallType
<1> HIDE DEF q
<1>3. LogGrows(q.gate, StatusOf(q), q.session) /\ Tells(q.session, q, TimelineTypes(q))
  BY DEF RecordBarrierEvent, LogGrows, Tells, q
<1>4. gateLog' \in Seq(LogEntry)
  BY <1>1, <1>2, <1>3, RecordedTypes DEF LogGrows, GtTypeOK
<1>5. timeline' \in Seq(ToldEvent)
  <2>1. Told(q.session, q, TimelineTypes(q)) \in Seq(ToldEvent)
    BY <1>1, <1>2, RecordedTypes, ToldEvents
  <2> QED
    BY <1>3, <2>1 DEF Tells, GtTypeOK
<1>6. GtTypeOK'
  BY <1>4, <1>5, GtDoneType DEF RecordBarrierEvent, GtTypeOK
<1>7. parking' = parking /\ instant' = instant /\ Existing' = Existing
  BY DEF RecordBarrierEvent, Existing
<1> QED
  BY <1>6, <1>7, GtDoneType, DoneKeeps DEF RecordBarrierEvent

\* A check-in keeps the invariant: one session more exists.
LEMMA EntryKeeps ==
  ASSUME BarriersAgree, NEW r \in Slots, RecordEntry(r)
  PROVE  BarriersAgree'
<1> USE DEF BarriersAgree
<1> DEFINE q == gtReq[r]
           types == <<"CHECKED_IN", "BARRIER_OPENED_IN">>
           since == IF Simultaneous THEN 0 ELSE q.at
           visit == [status |-> "PARKED", since |-> since, lane |-> q.gate, exit |-> NoGate]
<1>1. q \in CallType /\ q.gate \in Gates /\ q.at \in 1 .. instant /\ instant \in Nat
  BY DEF RecordEntry, GtTypeOK, CallAgrees
<1>2. since \in Nat /\ since <= instant
  BY <1>1
<1>3. PICK s \in Sessions \ Existing :
        /\ parking' = [parking EXCEPT ![s] = visit]
        /\ LogGrows(q.gate, "OPEN", s) /\ Tells(s, q, types)
  BY DEF RecordEntry, LogGrows, Tells
<1> HIDE DEF q, since
<1>4. visit \in Visit /\ visit.status = "PARKED" /\ visit.since = since
  BY <1>1, <1>2 DEF Visit
<1>5. gateLog' \in Seq(LogEntry)
  BY <1>1, <1>3, RecordedTypes DEF LogGrows, GtTypeOK
<1>6. timeline' \in Seq(ToldEvent)
  <2> HIDE DEF visit
  <2>1. types \in Seq(ToldTypes)
    BY <1>1, RecordedTypes
  <2>2. Told(s, q, types) \in Seq(ToldEvent)
    <3> HIDE DEF types
    <3> QED
      BY <1>1, <2>1, ToldEvents
  <2> QED
    BY <1>3, <2>2 DEF Tells, GtTypeOK
<1> HIDE DEF visit
<1>7. GtTypeOK'
  BY <1>3, <1>4, <1>5, <1>6, GtDoneType DEF RecordEntry, GtTypeOK
<1>8. Existing' = Existing \cup {s}
  BY <1>3, <1>4 DEF Existing, GtTypeOK
<1>9. IsFiniteSet(Existing)'
  BY <1>8, FS_AddElement
<1>10. instant' = instant /\ GtDone(r)
  BY DEF RecordEntry
<1>11. \A t \in Existing' : parking'[t].since <= instant'
  BY <1>2, <1>3, <1>4, <1>8, <1>10 DEF GtTypeOK, Existing
<1> QED
  BY <1>7, <1>8, <1>9, <1>10, <1>11, GtDoneType, DoneKeeps

\* A session that stands at its exit is still of its type, still exists and keeps its
\* check-in time.
LEMMA LeavingKeeps ==
  ASSUME GtTypeOK, NEW g \in Gates, NEW status \in {"PAYMENT_PENDING", "COMPLETED"},
         NEW s \in Existing, parking' = [parking EXCEPT ![s] = LeavingBy(@, status, g)]
  PROVE  /\ parking' \in [Sessions -> Visit] /\ Existing' = Existing
         /\ \A t \in Sessions : parking'[t].since = parking[t].since
<1> DEFINE visit == LeavingBy(parking[s], status, g)
<1>1. s \in Sessions /\ parking[s] \in Visit
  BY DEF Existing, GtTypeOK
<1>2. visit \in Visit /\ visit.status = status /\ visit.since = parking[s].since
  BY <1>1 DEF LeavingBy, Visit
<1>3. parking' = [parking EXCEPT ![s] = visit]
  OBVIOUS
<1> HIDE DEF visit
<1> QED
  BY <1>1, <1>2, <1>3 DEF Existing, GtTypeOK

\* A fee that becomes due keeps the invariant.
LEMMA FeeKeeps ==
  ASSUME BarriersAgree, NEW r \in Slots, RecordFee(r)
  PROVE  BarriersAgree'
<1> USE DEF BarriersAgree
<1> DEFINE q == gtReq[r]
           types == <<"FEE_CALCULATED">>
<1>1. q \in CallType /\ q.gate \in Gates /\ q.session \in Existing
  BY DEF RecordFee, GtTypeOK, CallAgrees
<1>2. q.session \in Sessions \cup {NoSession}
  BY <1>1 DEF CallType
<1>3. /\ parking' = [parking EXCEPT ![q.session] = LeavingBy(@, "PAYMENT_PENDING", q.gate)]
      /\ Tells(q.session, q, types) /\ UNCHANGED <<instant, gateLog, walks>> /\ GtDone(r)
  BY DEF RecordFee, Tells
<1> HIDE DEF q
<1>4. timeline' \in Seq(ToldEvent)
  <2>1. types \in Seq(ToldTypes)
    BY <1>1, <1>2, RecordedTypes
  <2> HIDE DEF types
  <2>2. Told(q.session, q, types) \in Seq(ToldEvent)
    BY <1>1, <1>2, <2>1, ToldEvents
  <2> QED
    BY <1>3, <2>2 DEF Tells, GtTypeOK
<1>5. /\ parking' \in [Sessions -> Visit] /\ Existing' = Existing
      /\ \A t \in Sessions : parking'[t].since = parking[t].since
  <2> DEFINE s == q.session
  <2>1. s \in Existing /\ parking' = [parking EXCEPT ![s] = LeavingBy(@, "PAYMENT_PENDING", q.gate)]
    BY <1>1, <1>3
  <2> HIDE DEF s
  <2> QED
    BY <1>1, <2>1, LeavingKeeps
<1>6. GtTypeOK'
  BY <1>3, <1>4, <1>5, GtDoneType DEF GtTypeOK
<1>7. \A s \in Existing' : parking'[s].since <= instant'
  BY <1>3, <1>5 DEF Existing
<1> QED
  BY <1>3, <1>5, <1>6, <1>7, GtDoneType, DoneKeeps

\* The types of what an exit tells.
ExitTypes(reason) ==
  IF reason = "EMERGENCY" THEN <<"BARRIER_OPENED_OUT", "COMPLETED">>
  ELSE <<"EXIT_CONFIRMED", "BARRIER_OPENED_OUT", "COMPLETED">>

\* An exit keeps the invariant.
LEMMA ExitKeeps ==
  ASSUME BarriersAgree, NEW r \in Slots, RecordExit(r)
  PROVE  BarriersAgree'
<1> USE DEF BarriersAgree
<1> DEFINE q == gtReq[r]
           types == ExitTypes(q.reason)
<1>1. q \in CallType /\ q.gate \in Gates /\ q.session \in Existing
  BY DEF RecordExit, GtTypeOK, CallAgrees
<1>2. q.session \in Sessions \cup {NoSession}
  BY <1>1 DEF CallType
<1>3. /\ parking' = [parking EXCEPT ![q.session] = LeavingBy(@, "COMPLETED", q.gate)]
      /\ LogGrows(q.gate, "OPEN", q.session) /\ Tells(q.session, q, types)
      /\ UNCHANGED <<instant, walks>> /\ GtDone(r)
  BY Zenon DEF RecordExit, Tells, LogGrows, ExitTypes
<1> HIDE DEF q
<1>4. timeline' \in Seq(ToldEvent)
  <2>1. types \in Seq(ToldTypes)
    BY <1>1, <1>2, RecordedTypes DEF ExitTypes
  <2> HIDE DEF types
  <2>2. Told(q.session, q, types) \in Seq(ToldEvent)
    BY <1>1, <1>2, <2>1, ToldEvents
  <2> QED
    BY <1>3, <2>2 DEF Tells, GtTypeOK
<1>5. gateLog' \in Seq(LogEntry)
  BY <1>1, <1>2, <1>3, RecordedTypes DEF LogGrows, GtTypeOK
<1>6. /\ parking' \in [Sessions -> Visit] /\ Existing' = Existing
      /\ \A t \in Sessions : parking'[t].since = parking[t].since
  <2> DEFINE s == q.session
  <2>1. s \in Existing /\ parking' = [parking EXCEPT ![s] = LeavingBy(@, "COMPLETED", q.gate)]
    BY <1>1, <1>3
  <2> HIDE DEF s
  <2> QED
    BY <1>1, <2>1, LeavingKeeps
<1>7. GtTypeOK'
  BY <1>3, <1>4, <1>5, <1>6, GtDoneType DEF GtTypeOK
<1>8. \A s \in Existing' : parking'[s].since <= instant'
  BY <1>3, <1>6 DEF Existing
<1> QED
  BY <1>3, <1>6, <1>7, <1>8, GtDoneType, DoneKeeps

\* The pages that are read change only the walk.
LEMMA WalkKeeps ==
  ASSUME BarriersAgree, NEW r \in Slots, StartWalk(r) \/ ListSessions(r) \/ EndWalk(r)
  PROVE  BarriersAgree'
<1> USE DEF BarriersAgree
<1>1. UNCHANGED <<instant, parking, gateLog, timeline, gtPc, gtReq>>
  BY DEF StartWalk, ListSessions, EndWalk, gtTables
<1>2. walks' \in [Slots -> Walk]
  <2>1. CASE StartWalk(r)
    BY <2>1 DEF StartWalk, GtTypeOK, Walk, Existing
  <2>2. CASE ListSessions(r)
    <3>1. PICK seq \in Orders(Existing) :
            walks' = [walks EXCEPT ![r] =
              [page |-> @.page + 1, owed |-> @.owed, shown |-> @.shown \cup Page(seq, @.page)]]
      BY <2>2 DEF ListSessions
    <3>2. \A page : Page(seq, page) \subseteq Existing
      BY DEF Orders, SetToSeqs, Page
    <3>3. Existing \subseteq Sessions /\ walks[r] \in Walk
      BY DEF Existing, GtTypeOK
    <3> DEFINE w == [page |-> walks[r].page + 1, owed |-> walks[r].owed,
                     shown |-> walks[r].shown \cup Page(seq, walks[r].page)]
    <3>4. w \in Walk
      BY <3>2, <3>3 DEF Walk
    <3>5. walks' = [walks EXCEPT ![r] = w]
      BY <3>1
    <3> HIDE DEF w
    <3> QED
      BY <3>4, <3>5 DEF GtTypeOK
  <2>3. CASE EndWalk(r)
    BY <2>3 DEF EndWalk, GtTypeOK, Walk, NoWalk
  <2> QED
    BY <2>1, <2>2, <2>3
<1>3. GtTypeOK'
  BY <1>1, <1>2 DEF GtTypeOK
<1> QED
  BY <1>1, <1>3 DEF CallAgrees, Existing

\* Every step keeps the invariant.
LEMMA BarriersKeep ==
  ASSUME BarriersAgree, [GtNext]_gtVars
  PROVE  BarriersAgree'
<1>1. CASE UNCHANGED gtVars
  BY <1>1 DEF gtVars, gtTables, BarriersAgree, GtTypeOK, CallAgrees, Existing
<1>2. ASSUME NEW r \in Slots,
             \/ OpenBarrier(r) \/ EmergencyOpenBarrier(r) \/ CloseBarrier(r) \/ EnterGate(r)
             \/ LeaveGate(r)
      PROVE  BarriersAgree'
  BY <1>2, BeginKeeps
<1>3. ASSUME NEW r \in Slots,
             \/ ChooseSession(r) \/ RecordBarrierEvent(r) \/ RecordEntry(r) \/ RecordFee(r)
             \/ RecordExit(r) \/ CallLost(r)
      PROVE  BarriersAgree'
  BY <1>3, ChooseKeeps, BarrierEventKeeps, EntryKeeps, FeeKeeps, ExitKeeps, CallLostKeeps
<1>4. ASSUME NEW r \in Slots, StartWalk(r) \/ ListSessions(r) \/ EndWalk(r)
      PROVE  BarriersAgree'
  BY <1>4, WalkKeeps
<1> QED
  BY <1>1, <1>2, <1>3, <1>4 DEF GtNext

\* At the beginning nothing exists and no call is under way.
LEMMA BarriersBegin ==
  ASSUME GtInit
  PROVE  BarriersAgree
<1>1. NoCall \in CallType /\ NoVisit \in Visit /\ NoWalk \in Walk
  BY DEF NoCall, NoVisit, NoWalk, CallType, Visit, Walk, CallKinds, CallReasons
<1>2. GtTypeOK
  BY <1>1 DEF GtInit, GtTypeOK, GtPlaces
<1>3. Existing = {}
  BY DEF GtInit, Existing, NoVisit
<1> QED
  BY <1>2, <1>3, FS_EmptySet DEF BarriersAgree, CallAgrees, GtInit

\* The barriers always agree with the sessions (every action of the module): types,
\* every leaving session exists.
THEOREM BarriersAlwaysAgree == GtSpec => []BarriersAgree
BY BarriersBegin, BarriersKeep, PTL DEF GtSpec
-----------------------------------------------------------------------------
(* The gate log and the timelines: how often what is told of a session.    *)

\* Where a sequence has its elements of a set.
Counted(seq, E) == {i \in DOMAIN seq : seq[i] \in E}

LEMMA CountedFinite ==
  ASSUME NEW S, NEW a \in Seq(S), NEW E
  PROVE  /\ IsFiniteSet(Counted(a, E)) /\ Cardinality(Counted(a, E)) \in Nat
         /\ Cardinality(Counted(a, E)) = 0 <=> Counted(a, E) = {}
<1>1. Counted(a, E) \subseteq 1 .. Len(a) /\ Len(a) \in Nat
  BY DEF Counted
<1>2. IsFiniteSet(Counted(a, E))
  <2>1. 1 \in Int /\ Len(a) \in Int
    BY <1>1
  <2>2. IsFiniteSet(1 .. Len(a))
    BY <2>1, FS_Interval
  <2> QED
    BY <1>1, <2>2, FS_Subset
<1> QED
  BY <1>2, FS_CardinalityType, FS_EmptySet

\* A concatenation has the elements of both of its parts.
LEMMA CountConcat ==
  ASSUME NEW S, NEW a \in Seq(S), NEW b \in Seq(S), NEW E
  PROVE  Cardinality(Counted(a \o b, E)) = Cardinality(Counted(a, E)) + Cardinality(Counted(b, E))
<1> DEFINE n == Len(a)
           m == Len(b)
           c == a \o b
           A == Counted(a, E)
           B == Counted(b, E)
           moved == {n + j : j \in B}
           f == [j \in B |-> n + j]
<1>1. /\ n \in Nat /\ m \in Nat
      /\ DOMAIN a = 1 .. n /\ DOMAIN b = 1 .. m /\ DOMAIN c = 1 .. n + m
      /\ \A i \in 1 .. n + m : c[i] = IF i <= n THEN a[i] ELSE b[i - n]
  OBVIOUS
<1>2. A \subseteq 1 .. n /\ B \subseteq 1 .. m
  BY <1>1 DEF Counted
<1> HIDE DEF n, m, c
<1>3. Counted(c, E) = A \cup moved
  <2>1. ASSUME NEW i \in Counted(c, E) PROVE i \in A \cup moved
    <3>1. i \in 1 .. n + m /\ c[i] \in E
      BY <1>1 DEF Counted
    <3>2. CASE i <= n
      BY <1>1, <3>1, <3>2 DEF Counted
    <3>3. CASE ~ (i <= n)
      <4>1. i - n \in 1 .. m /\ b[i - n] \in E
        BY <1>1, <3>1, <3>3
      <4>2. i - n \in B /\ i = n + (i - n)
        BY <1>1, <3>1, <4>1 DEF Counted
      <4> QED
        BY <4>2
    <3> QED
      BY <3>2, <3>3
  <2>2. ASSUME NEW i \in A PROVE i \in Counted(c, E)
    BY <1>1 DEF Counted
  <2>3. ASSUME NEW j \in B PROVE n + j \in Counted(c, E)
    <3>1. j \in 1 .. m /\ b[j] \in E
      BY <1>1 DEF Counted
    <3>2. n + j \in 1 .. n + m /\ ~ (n + j <= n) /\ (n + j) - n = j
      BY <1>1, <3>1
    <3>3. c[n + j] = b[j]
      BY <1>1, <3>2
    <3> QED
      BY <1>1, <3>1, <3>2, <3>3 DEF Counted
  <2> QED
    BY <2>1, <2>2, <2>3
<1>4. A \cap moved = {}
  BY <1>1, <1>2
<1>5. f \in Bijection(B, moved)
  <2>1. f \in [B -> moved]
    OBVIOUS
  <2>2. \A i, j \in B : f[i] = f[j] => i = j
    BY <1>1, <1>2
  <2>3. \A k \in moved : \E j \in B : f[j] = k
    OBVIOUS
  <2> HIDE DEF f, moved
  <2> QED
    BY <2>1, <2>2, <2>3 DEF Bijection, Injection, Surjection, IsInjective
<1> HIDE DEF A, B, f, moved
<1>6. IsFiniteSet(A) /\ IsFiniteSet(B) /\ Cardinality(A) \in Nat /\ Cardinality(B) \in Nat
  BY CountedFinite DEF A, B
<1>7. IsFiniteSet(moved) /\ Cardinality(moved) = Cardinality(B)
  BY <1>5, <1>6, FS_Bijection DEF ExistsBijection
<1>8. Cardinality(A \cup moved) = Cardinality(A) + Cardinality(moved) - Cardinality({})
  BY <1>4, <1>6, <1>7, FS_Union
<1> QED
  BY <1>3, <1>6, <1>7, <1>8, FS_EmptySet DEF c, A, B

\* The events of a session of the given types; the entries of a session of a status.
EventsOf(s, types) == {e \in ToldEvent : e.session = s /\ e.type \in types}
EntriesOf(s, status) == {e \in LogEntry : e.session = s /\ e.status = status}

\* What GateLogInTimeline counts, as elements of the two sequences.
SameCounts(told, log) ==
  \A s \in Sessions :
    /\ Cardinality(Counted(told, EventsOf(s, Openings)))
         = Cardinality(Counted(log, EntriesOf(s, "OPEN")))
    /\ Cardinality(Counted(told, EventsOf(s, {"BARRIER_TIMEOUT_CLOSED"})))
         = Cardinality(Counted(log, EntriesOf(s, "CLOSED_TIMEOUT")))

CompletedTold(s, told) == Counted(told, EventsOf(s, {"COMPLETED"})) # {}

\* The property is about these counts.
LEMMA GateLogCounts ==
  ASSUME GtTypeOK
  PROVE  /\ \A s \in Sessions : \A types : ToldTo(s, "OPERATOR", types) = Counted(timeline, EventsOf(s, types))
         /\ \A s \in Sessions : \A status : LoggedFor(s, status) = Counted(gateLog, EntriesOf(s, status))
         /\ \A s \in Sessions : ToldTo(s, "ACCOUNTANT", {"COMPLETED"})
                                   = Counted(timeline, EventsOf(s, {"COMPLETED"}))
<1>1. \A i \in DOMAIN timeline : timeline[i] \in ToldEvent
  BY DEF GtTypeOK
<1>2. \A i \in DOMAIN gateLog : gateLog[i] \in LogEntry
  BY DEF GtTypeOK
<1> QED
  BY <1>1, <1>2 DEF ToldTo, TimelineFor, LoggedFor, Counted, EventsOf, EntriesOf, Financial

LEMMA GateLogMeans ==
  ASSUME GtTypeOK
  PROVE  GateLogInTimeline
           <=> /\ SameCounts(timeline, gateLog)
               /\ \A s \in Sessions : parking[s].status = "COMPLETED" => CompletedTold(s, timeline)
<1> DEFINE T(s, types) == ToldTo(s, "OPERATOR", types)
           L(s, status) == LoggedFor(s, status)
           A(s) == ToldTo(s, "ACCOUNTANT", {"COMPLETED"})
<1>1. \A s \in Sessions :
        /\ T(s, Openings) = Counted(timeline, EventsOf(s, Openings))
        /\ T(s, {"BARRIER_TIMEOUT_CLOSED"})
             = Counted(timeline, EventsOf(s, {"BARRIER_TIMEOUT_CLOSED"}))
        /\ L(s, "OPEN") = Counted(gateLog, EntriesOf(s, "OPEN"))
        /\ L(s, "CLOSED_TIMEOUT") = Counted(gateLog, EntriesOf(s, "CLOSED_TIMEOUT"))
        /\ A(s) = Counted(timeline, EventsOf(s, {"COMPLETED"}))
  BY GateLogCounts
<1>2. GateLogInTimeline <=>
        \A s \in Sessions :
          /\ Cardinality(T(s, Openings)) = Cardinality(L(s, "OPEN"))
          /\ Cardinality(T(s, {"BARRIER_TIMEOUT_CLOSED"})) = Cardinality(L(s, "CLOSED_TIMEOUT"))
          /\ parking[s].status = "COMPLETED" => A(s) # {}
  BY Zenon DEF GateLogInTimeline
<1> HIDE DEF T, L, A
<1> QED
  BY <1>1, <1>2 DEF SameCounts, CompletedTold

\* What is told matches what is logged: an opening for an opening, a closing by timeout
\* for a closing by timeout.
TellsStatus(types, status) ==
  /\ Cardinality(Counted(types, Openings)) = IF status = "OPEN" THEN 1 ELSE 0
  /\ Cardinality(Counted(types, {"BARRIER_TIMEOUT_CLOSED"}))
       = IF status = "CLOSED_TIMEOUT" THEN 1 ELSE 0

\* What is told of a session is counted for this session only.
LEMMA CountTold ==
  ASSUME NEW s \in Sessions \cup {NoSession}, NEW q \in CallType, q.gate \in Gates,
         NEW types \in Seq(ToldTypes), NEW t \in Sessions, NEW K
  PROVE  Counted(Told(s, q, types), EventsOf(t, K)) = IF s = t THEN Counted(types, K) ELSE {}
<1> DEFINE event(i) == [session |-> s, type |-> types[i], gate |-> q.gate, at |-> q.at]
           told == Told(s, q, types)
<1>1. /\ told \in Seq(ToldEvent) /\ Len(told) = Len(types)
      /\ \A i \in 1 .. Len(types) : told[i] = event(i)
  BY ToldEvents
<1>2. DOMAIN told = 1 .. Len(types) /\ DOMAIN types = 1 .. Len(types)
  <2> HIDE DEF told, event
  <2> QED
    BY <1>1
<1>3. \A i \in 1 .. Len(types) : event(i) \in EventsOf(t, K) <=> (s = t /\ types[i] \in K)
  <2>1. \A i \in 1 .. Len(types) : event(i) \in ToldEvent
    <3> HIDE DEF event, told
    <3> QED
      BY <1>1
  <2> QED
    BY <2>1 DEF EventsOf
<1> HIDE DEF told, event
<1>4. \A i \in 1 .. Len(types) : told[i] \in EventsOf(t, K) <=> (s = t /\ types[i] \in K)
  BY <1>1, <1>3
<1> QED
  BY <1>2, <1>4 DEF Counted, told

\* One entry of the log is counted for its session and its status only.
LEMMA CountLogged ==
  ASSUME NEW e \in LogEntry, NEW t, NEW st
  PROVE  Cardinality(Counted(<<e>>, EntriesOf(t, st)))
           = IF e.session = t /\ e.status = st THEN 1 ELSE 0
<1>1. Counted(<<e>>, EntriesOf(t, st)) = IF e.session = t /\ e.status = st THEN {1} ELSE {}
  BY DEF Counted, EntriesOf
<1> QED
  BY <1>1, FS_Singleton, FS_EmptySet

\* A step that tells what it logs keeps the counts equal.
LEMMA SameCountsKeep ==
  ASSUME GtTypeOK, SameCounts(timeline, gateLog),
         NEW g \in Gates, NEW s \in Sessions \cup {NoSession}, NEW q \in CallType, q.gate = g,
         NEW status \in {"OPEN", "CLOSED", "CLOSED_TIMEOUT"}, NEW types \in Seq(ToldTypes),
         LogGrows(g, status, s), Tells(s, q, types), s \in Sessions => TellsStatus(types, status)
  PROVE  SameCounts(timeline', gateLog')
<1> DEFINE told == Told(s, q, types)
           e == Logged(g, status, s)
<1>1. timeline \in Seq(ToldEvent) /\ gateLog \in Seq(LogEntry)
  BY DEF GtTypeOK
<1>2. told \in Seq(ToldEvent)
  BY ToldEvents
<1>3. e \in LogEntry /\ e.session = s /\ e.status = status
  BY DEF Logged, LogEntry
<1>4. timeline' = timeline \o told /\ gateLog' = gateLog \o <<e>>
  <2> HIDE DEF e
  <2>1. Append(gateLog, e) = gateLog \o <<e>>
    BY <1>1, <1>3
  <2> QED
    BY <2>1 DEF LogGrows, Tells, e
<1> HIDE DEF told, e
<1>5. ASSUME NEW E
      PROVE  /\ Cardinality(Counted(timeline', E))
                  = Cardinality(Counted(timeline, E)) + Cardinality(Counted(told, E))
             /\ Cardinality(Counted(gateLog', E))
                  = Cardinality(Counted(gateLog, E)) + Cardinality(Counted(<<e>>, E))
  <2>1. <<e>> \in Seq(LogEntry)
    BY <1>3
  <2> QED
    BY <1>1, <1>2, <1>4, <2>1, CountConcat
<1>6. ASSUME NEW t \in Sessions
      PROVE  /\ Cardinality(Counted(told, EventsOf(t, Openings)))
                  = Cardinality(Counted(<<e>>, EntriesOf(t, "OPEN")))
             /\ Cardinality(Counted(told, EventsOf(t, {"BARRIER_TIMEOUT_CLOSED"})))
                  = Cardinality(Counted(<<e>>, EntriesOf(t, "CLOSED_TIMEOUT")))
  <2>1. ASSUME NEW K
        PROVE  Counted(told, EventsOf(t, K)) = IF s = t THEN Counted(types, K) ELSE {}
    BY CountTold DEF told
  <2>2. ASSUME NEW st
        PROVE  Cardinality(Counted(<<e>>, EntriesOf(t, st))) = IF s = t /\ status = st THEN 1 ELSE 0
    BY <1>3, CountLogged
  <2>3. CASE s = t
    <3>1. TellsStatus(types, status)
      BY <2>3
    <3>2. \A K : Counted(told, EventsOf(t, K)) = Counted(types, K)
      BY <2>1, <2>3
    <3>3. \A st : Cardinality(Counted(<<e>>, EntriesOf(t, st))) = IF status = st THEN 1 ELSE 0
      BY <2>2, <2>3
    <3> QED
      BY <3>1, <3>2, <3>3 DEF TellsStatus
  <2>4. CASE s # t
    <3> QED
      BY <2>1, <2>2, <2>4, FS_EmptySet
  <2> QED
    BY <2>3, <2>4
<1> QED
  BY <1>5, <1>6 DEF SameCounts

\* What has been told stays told.
LEMMA ToldStays ==
  ASSUME NEW S, NEW a \in Seq(S), NEW b \in Seq(S), NEW E,
         Counted(a, E) # {} \/ Counted(b, E) # {}
  PROVE  Counted(a \o b, E) # {}
<1>1. a \o b \in Seq(S)
  OBVIOUS
<1>2. /\ Cardinality(Counted(a, E)) \in Nat /\ Cardinality(Counted(b, E)) \in Nat
      /\ Cardinality(Counted(a, E)) # 0 \/ Cardinality(Counted(b, E)) # 0
  BY CountedFinite
<1>3. Cardinality(Counted(a \o b, E)) # 0
  BY <1>2, CountConcat
<1> QED
  BY <1>1, <1>3, CountedFinite

\* The types each step tells match the status it logs.
LEMMA TypesMatch ==
  /\ \A q \in CallType : q.session \in Sessions => TellsStatus(TimelineTypes(q), StatusOf(q))
  /\ TellsStatus(<<"CHECKED_IN", "BARRIER_OPENED_IN">>, "OPEN")
  /\ \A reason \in CallReasons :
       /\ TellsStatus(ExitTypes(reason), "OPEN") /\ ExitTypes(reason) \in Seq(ToldTypes)
       /\ Counted(ExitTypes(reason), {"COMPLETED"}) # {}
<1>1. Cardinality({}) = 0 /\ \A i : Cardinality({i}) = 1
  BY FS_EmptySet, FS_Singleton
<1>2. \A q \in CallType : q.session \in Sessions => TellsStatus(TimelineTypes(q), StatusOf(q))
  <2> SUFFICES ASSUME NEW q \in CallType, q.session \in Sessions
               PROVE  TellsStatus(TimelineTypes(q), StatusOf(q))
    OBVIOUS
  <2>1. q.session # NoSession
    BY BarrierAssumption DEF BarrierAssumption
  <2>2. ASSUME NEW type
        PROVE  \A K : Counted(<<type>>, K) = IF type \in K THEN {1} ELSE {}
    BY DEF Counted
  <2>3. \A K : Counted(<< >>, K) = {}
    BY DEF Counted
  <2>4. CASE q.kind = "OPEN"
    <3>1. TimelineTypes(q) = <<OpenedType(q.gate)>> /\ StatusOf(q) = "OPEN"
      BY <2>1, <2>4 DEF TimelineTypes, StatusOf
    <3>2. OpenedType(q.gate) \in Openings /\ OpenedType(q.gate) # "BARRIER_TIMEOUT_CLOSED"
      BY DEF OpenedType, Openings
    <3> QED
      BY <1>1, <2>2, <3>1, <3>2 DEF TellsStatus
  <2>5. CASE q.kind # "OPEN" /\ q.reason = "TIMEOUT_AUTO_CLOSE"
    <3>1. TimelineTypes(q) = <<"BARRIER_TIMEOUT_CLOSED">> /\ StatusOf(q) = "CLOSED_TIMEOUT"
      BY <2>1, <2>5 DEF TimelineTypes, StatusOf
    <3> QED
      BY <1>1, <2>2, <3>1 DEF TellsStatus, Openings
  <2>6. CASE q.kind # "OPEN" /\ q.reason # "TIMEOUT_AUTO_CLOSE"
    <3>1. /\ TimelineTypes(q) = <<"EXIT_CONFIRMED">> \/ TimelineTypes(q) = << >>
          /\ StatusOf(q) = "CLOSED"
      BY <2>1, <2>6 DEF TimelineTypes, StatusOf
    <3> QED
      BY <1>1, <2>2, <2>3, <3>1 DEF TellsStatus, Openings
  <2> QED
    BY <2>4, <2>5, <2>6
<1>3. TellsStatus(<<"CHECKED_IN", "BARRIER_OPENED_IN">>, "OPEN")
  <2> DEFINE types == <<"CHECKED_IN", "BARRIER_OPENED_IN">>
  <2>1. Counted(types, Openings) = {2} /\ Counted(types, {"BARRIER_TIMEOUT_CLOSED"}) = {}
    BY DEF Counted, Openings
  <2> QED
    BY <1>1, <2>1 DEF TellsStatus
<1>4. ASSUME NEW reason \in CallReasons
      PROVE  /\ TellsStatus(ExitTypes(reason), "OPEN") /\ ExitTypes(reason) \in Seq(ToldTypes)
             /\ Counted(ExitTypes(reason), {"COMPLETED"}) # {}
  <2> DEFINE two == <<"BARRIER_OPENED_OUT", "COMPLETED">>
             three == <<"EXIT_CONFIRMED", "BARRIER_OPENED_OUT", "COMPLETED">>
  <2>1. /\ Counted(two, Openings) = {1} /\ Counted(two, {"BARRIER_TIMEOUT_CLOSED"}) = {}
        /\ Counted(two, {"COMPLETED"}) = {2} /\ two \in Seq(ToldTypes)
    BY DEF Counted, Openings, ToldTypes
  <2>2. /\ Counted(three, Openings) = {2} /\ Counted(three, {"BARRIER_TIMEOUT_CLOSED"}) = {}
        /\ Counted(three, {"COMPLETED"}) = {3} /\ three \in Seq(ToldTypes)
    BY DEF Counted, Openings, ToldTypes
  <2>3. ExitTypes(reason) = two \/ ExitTypes(reason) = three
    BY Zenon DEF ExitTypes
  <2> HIDE DEF two, three
  <2> QED
    BY <1>1, <2>1, <2>2, <2>3 DEF TellsStatus
<1> QED
  BY <1>2, <1>3, <1>4

\* The gate log agrees with the timelines, in the form the steps keep.
GateLogAgrees ==
  /\ BarriersAgree
  /\ SameCounts(timeline, gateLog)
  /\ \A s \in Sessions : parking[s].status = "COMPLETED" => CompletedTold(s, timeline)

\* Barrier calls tell what they log.
LEMMA BarrierEventTells ==
  ASSUME GateLogAgrees, NEW r \in Slots, RecordBarrierEvent(r)
  PROVE  GateLogAgrees'
<1> USE DEF GateLogAgrees
<1> DEFINE q == gtReq[r]
<1>1. q \in CallType /\ q.gate \in Gates
  BY DEF RecordBarrierEvent, BarriersAgree, GtTypeOK, CallAgrees
<1>2. q.session \in Sessions \cup {NoSession} /\ StatusOf(q) \in {"OPEN", "CLOSED", "CLOSED_TIMEOUT"}
  BY <1>1 DEF CallType, StatusOf
<1> HIDE DEF q
<1>3. LogGrows(q.gate, StatusOf(q), q.session) /\ Tells(q.session, q, TimelineTypes(q))
  BY DEF RecordBarrierEvent, LogGrows, Tells, q
<1>4. TimelineTypes(q) \in Seq(ToldTypes) /\ GtTypeOK
  BY <1>1, RecordedTypes DEF BarriersAgree
<1>5. SameCounts(timeline', gateLog')
  BY <1>1, <1>2, <1>3, <1>4, TypesMatch, SameCountsKeep
<1>6. ASSUME NEW s \in Sessions, parking[s].status = "COMPLETED"
      PROVE  CompletedTold(s, timeline')
  <2>1. Told(q.session, q, TimelineTypes(q)) \in Seq(ToldEvent) /\ timeline \in Seq(ToldEvent)
    BY <1>1, <1>2, <1>4, ToldEvents DEF GtTypeOK
  <2>2. Counted(timeline, EventsOf(s, {"COMPLETED"})) # {}
    BY <1>6 DEF CompletedTold
  <2> QED
    BY <1>3, <2>1, <2>2, ToldStays DEF Tells, CompletedTold
<1>7. BarriersAgree' /\ parking' = parking
  BY BarrierEventKeeps DEF RecordBarrierEvent
<1> QED
  BY <1>5, <1>6, <1>7

\* A check-in tells and logs one opening.
LEMMA EntryTells ==
  ASSUME GateLogAgrees, NEW r \in Slots, RecordEntry(r)
  PROVE  GateLogAgrees'
<1> USE DEF GateLogAgrees
<1> DEFINE q == gtReq[r]
           types == <<"CHECKED_IN", "BARRIER_OPENED_IN">>
<1>1. q \in CallType /\ q.gate \in Gates
  BY DEF RecordEntry, BarriersAgree, GtTypeOK, CallAgrees
<1>2. PICK s \in Sessions \ Existing :
        /\ \A t \in Sessions \ {s} : parking'[t] = parking[t]
        /\ parking'[s].status = "PARKED"
        /\ LogGrows(q.gate, "OPEN", s) /\ Tells(s, q, types)
  <2>1. PICK s \in Sessions \ Existing :
          /\ parking' = [parking EXCEPT ![s] =
               [status |-> "PARKED", since |-> IF Simultaneous THEN 0 ELSE q.at,
                lane |-> q.gate, exit |-> NoGate]]
          /\ LogGrows(q.gate, "OPEN", s) /\ Tells(s, q, types)
    BY DEF RecordEntry, LogGrows, Tells
  <2> HIDE DEF q, types
  <2> QED
    BY <2>1 DEF BarriersAgree, GtTypeOK
<1> HIDE DEF q
<1>3. types \in Seq(ToldTypes) /\ GtTypeOK /\ TellsStatus(types, "OPEN")
  BY <1>1, RecordedTypes, TypesMatch DEF BarriersAgree
<1> HIDE DEF types
<1>4. SameCounts(timeline', gateLog')
  BY <1>1, <1>2, <1>3, SameCountsKeep
<1>5. ASSUME NEW t \in Sessions, parking'[t].status = "COMPLETED"
      PROVE  CompletedTold(t, timeline')
  <2>1. Told(s, q, types) \in Seq(ToldEvent) /\ timeline \in Seq(ToldEvent)
    BY <1>1, <1>3, ToldEvents DEF GtTypeOK
  <2>2. Counted(timeline, EventsOf(t, {"COMPLETED"})) # {}
    BY <1>2, <1>5 DEF CompletedTold
  <2> QED
    BY <1>2, <2>1, <2>2, ToldStays DEF Tells, CompletedTold
<1> QED
  BY <1>4, <1>5, EntryKeeps

\* A fee that becomes due opens no gate.
LEMMA FeeTells ==
  ASSUME GateLogAgrees, NEW r \in Slots, RecordFee(r)
  PROVE  GateLogAgrees'
<1> USE DEF GateLogAgrees
<1> DEFINE q == gtReq[r]
           types == <<"FEE_CALCULATED">>
           told == Told(q.session, q, types)
<1>1. q \in CallType /\ q.gate \in Gates /\ q.session \in Existing /\ Existing \subseteq Sessions
  BY DEF RecordFee, BarriersAgree, GtTypeOK, CallAgrees, Existing
<1>2. /\ \A t \in Sessions \ {q.session} : parking'[t] = parking[t]
      /\ parking'[q.session].status = "PAYMENT_PENDING"
      /\ timeline' = timeline \o told /\ gateLog' = gateLog
  BY <1>1 DEF RecordFee, BarriersAgree, GtTypeOK, LeavingBy
<1>3. types \in Seq(ToldTypes) /\ GtTypeOK
  BY <1>1, RecordedTypes DEF BarriersAgree
<1>4. /\ Counted(types, Openings) = {} /\ Counted(types, {"BARRIER_TIMEOUT_CLOSED"}) = {}
  BY DEF Counted, Openings
<1> HIDE DEF q, types
<1>5. told \in Seq(ToldEvent) /\ timeline \in Seq(ToldEvent)
  BY <1>1, <1>3, ToldEvents DEF GtTypeOK
<1>6. ASSUME NEW t \in Sessions
      PROVE  /\ Counted(told, EventsOf(t, Openings)) = {}
             /\ Counted(told, EventsOf(t, {"BARRIER_TIMEOUT_CLOSED"})) = {}
  BY <1>1, <1>3, <1>4, CountTold
<1> HIDE DEF told
<1>7. ASSUME NEW E, Counted(told, E) = {}
      PROVE  Cardinality(Counted(timeline', E)) = Cardinality(Counted(timeline, E))
  <2>1. Cardinality(Counted(timeline, E)) \in Nat /\ Cardinality(Counted(told, E)) = 0
    BY <1>5, <1>7, CountedFinite
  <2> QED
    BY <1>2, <1>5, <2>1, CountConcat
<1>8. SameCounts(timeline', gateLog')
  BY <1>2, <1>6, <1>7 DEF SameCounts
<1>9. ASSUME NEW t \in Sessions, parking'[t].status = "COMPLETED"
      PROVE  CompletedTold(t, timeline')
  <2>1. Counted(timeline, EventsOf(t, {"COMPLETED"})) # {}
    BY <1>2, <1>9 DEF CompletedTold
  <2> QED
    BY <1>2, <1>5, <2>1, ToldStays DEF CompletedTold
<1> QED
  BY <1>8, <1>9, FeeKeeps

\* An exit tells and logs one opening and tells the end of the session.
LEMMA ExitTells ==
  ASSUME GateLogAgrees, NEW r \in Slots, RecordExit(r)
  PROVE  GateLogAgrees'
<1> USE DEF GateLogAgrees
<1> DEFINE q == gtReq[r]
           types == ExitTypes(q.reason)
           told == Told(q.session, q, types)
<1>1. q \in CallType /\ q.gate \in Gates /\ q.session \in Existing /\ Existing \subseteq Sessions
  BY DEF RecordExit, BarriersAgree, GtTypeOK, CallAgrees, Existing
<1>2. \A t \in Sessions \ {q.session} : parking'[t] = parking[t]
  BY <1>1 DEF RecordExit, BarriersAgree, GtTypeOK
<1>3. LogGrows(q.gate, "OPEN", q.session) /\ Tells(q.session, q, types)
  BY Zenon DEF RecordExit, Tells, LogGrows, ExitTypes
<1>4. q.reason \in CallReasons /\ GtTypeOK
  BY <1>1 DEF CallType, BarriersAgree
<1>5. /\ types \in Seq(ToldTypes) /\ TellsStatus(types, "OPEN")
      /\ Counted(types, {"COMPLETED"}) # {}
  BY <1>4, TypesMatch
<1> HIDE DEF q, types
<1>6. SameCounts(timeline', gateLog')
  BY <1>1, <1>3, <1>4, <1>5, SameCountsKeep
<1>7. told \in Seq(ToldEvent) /\ timeline \in Seq(ToldEvent)
  BY <1>1, <1>4, <1>5, ToldEvents DEF GtTypeOK
<1>8. Counted(told, EventsOf(q.session, {"COMPLETED"})) # {}
  BY <1>1, <1>5, CountTold
<1> HIDE DEF told
<1>9. ASSUME NEW t \in Sessions, parking'[t].status = "COMPLETED"
      PROVE  CompletedTold(t, timeline')
  <2>1. Counted(timeline, EventsOf(t, {"COMPLETED"})) # {}
        \/ Counted(told, EventsOf(t, {"COMPLETED"})) # {}
    BY <1>2, <1>8, <1>9 DEF CompletedTold
  <2> QED
    BY <1>3, <1>7, <2>1, ToldStays DEF Tells, CompletedTold, told
<1> QED
  BY <1>6, <1>9, ExitKeeps

\* Every step keeps the agreement.
LEMMA GateLogKeeps ==
  ASSUME GateLogAgrees, [GtNext]_gtVars
  PROVE  GateLogAgrees'
<1>1. CASE UNCHANGED <<parking, gateLog, timeline>>
  BY <1>1, BarriersKeep DEF GateLogAgrees, SameCounts, CompletedTold
<1>2. ASSUME NEW r \in Slots,
             RecordBarrierEvent(r) \/ RecordEntry(r) \/ RecordFee(r) \/ RecordExit(r)
      PROVE  GateLogAgrees'
  BY <1>2, BarrierEventTells, EntryTells, FeeTells, ExitTells
<1>3. ASSUME NEW r \in Slots,
             \/ OpenBarrier(r) \/ EmergencyOpenBarrier(r) \/ CloseBarrier(r) \/ EnterGate(r)
             \/ LeaveGate(r) \/ ChooseSession(r) \/ CallLost(r) \/ StartWalk(r)
             \/ ListSessions(r) \/ EndWalk(r)
      PROVE  UNCHANGED <<parking, gateLog, timeline>>
  BY <1>3 DEF OpenBarrier, EmergencyOpenBarrier, CloseBarrier, EnterGate, LeaveGate, Call,
              ChooseSession, CallLost, StartWalk, ListSessions, EndWalk, gtTables
<1> QED
  BY <1>1, <1>2, <1>3 DEF GtNext, gtVars, gtTables

\* The timelines tell the gate log (RecordBarrierEvent and the three record steps): each
\* opening and each closing by timeout exactly once, however calls overlap or get lost.
THEOREM GateLogStaysInTimeline == GtSpec => []GateLogInTimeline
<1>1. GtInit => GateLogAgrees
  <2> SUFFICES ASSUME GtInit PROVE GateLogAgrees
    OBVIOUS
  <2>1. \A E : Counted(timeline, E) = {} /\ Counted(gateLog, E) = {}
    BY DEF GtInit, Counted
  <2>2. \A s \in Sessions : parking[s].status # "COMPLETED"
    BY DEF GtInit, NoVisit
  <2> QED
    BY <2>1, <2>2, BarriersBegin DEF GateLogAgrees, SameCounts
<1>2. GateLogAgrees => GateLogInTimeline
  BY GateLogMeans DEF GateLogAgrees, BarriersAgree
<1> QED
  BY <1>1, <1>2, GateLogKeeps, PTL DEF GtSpec
-----------------------------------------------------------------------------
(* The pages of the session list, when no two sessions have the same check-in time. *)

\* The sessions that are listed no later than s.
NotOlder(s) == {t \in Existing : parking[s].since <= parking[t].since}

\* No two sessions, and no two calls under way, have the same time; a check-in under way
\* has one that no session has.
TimesDiffer ==
  /\ \A s, t \in Existing : parking[s].since = parking[t].since => s = t
  /\ \A r \in Slots : gtPc[r] # "idle" =>
       /\ gtReq[r].kind = "ENTER" => \A s \in Existing : parking[s].since # gtReq[r].at
       /\ \A p \in Slots \ {r} : gtPc[p] # "idle" => gtReq[p].at # gtReq[r].at

\* What a walk owes and has not shown lies on the pages that are still to come.
WalkAgrees(r) ==
  LET w == walks[r]
  IN /\ w.owed \subseteq Existing /\ (w.owed # {} => w.page >= 1)
     /\ \A s \in w.owed \ w.shown : (w.page - 1) * PageSize < Cardinality(NotOlder(s))

ListAgrees == BarriersAgree /\ TimesDiffer /\ \A r \in Slots : WalkAgrees(r)

\* A step that starts no call and adds no session keeps the times different.
LEMMA TimesStay ==
  ASSUME TimesDiffer, Existing' = Existing,
         \A s \in Existing : parking'[s].since = parking[s].since,
         \A p \in Slots : gtPc'[p] # "idle" =>
           gtPc[p] # "idle" /\ gtReq'[p].at = gtReq[p].at /\ gtReq'[p].kind = gtReq[p].kind
  PROVE  TimesDiffer'
BY DEF TimesDiffer

\* A call that begins takes a time no one has.
LEMMA TimesAtCall ==
  ASSUME BarriersAgree, TimesDiffer, NEW r \in Slots, NEW kind, NEW g, NEW reason, NEW s,
         Call(r, kind, g, reason, s), \A p \in Slots \ {r} : gtPc'[p] = gtPc[p]
  PROVE  TimesDiffer'
<1> USE DEF BarriersAgree
<1>1. gtReq'[r].at = instant + 1 /\ instant \in Nat /\ parking' = parking
  BY DEF Call, GtTypeOK, gtTables
<1>2. \A p \in Slots \ {r} : gtReq'[p] = gtReq[p]
  BY DEF Call, GtTypeOK
<1>3. Existing' = Existing
  BY <1>1 DEF Existing
<1>4. \A t \in Existing : parking[t].since \in Nat /\ parking[t].since <= instant
  BY DEF Existing, GtTypeOK, Visit
<1>5. \A p \in Slots : gtPc[p] # "idle" => gtReq[p].at \in Nat /\ gtReq[p].at <= instant
  BY <1>1 DEF CallAgrees
<1> QED
  BY <1>1, <1>2, <1>3, <1>4, <1>5 DEF TimesDiffer

\* A check-in gives its session its own time.
LEMMA TimesAtEntry ==
  ASSUME ~Simultaneous, BarriersAgree, TimesDiffer, NEW r \in Slots, RecordEntry(r)
  PROVE  /\ TimesDiffer' /\ Existing \subseteq Existing'
         /\ \A s \in Existing : parking'[s].since = parking[s].since
<1> USE DEF BarriersAgree
<1> DEFINE q == gtReq[r]
           visit == [status |-> "PARKED", since |-> q.at, lane |-> q.gate, exit |-> NoGate]
<1>1. /\ gtPc[r] # "idle" /\ q.kind = "ENTER"
      /\ gtPc'[r] = "idle" /\ \A p \in Slots \ {r} : gtPc'[p] = gtPc[p] /\ gtReq'[p] = gtReq[p]
  BY GtDoneType DEF RecordEntry
<1>2. PICK s \in Sessions \ Existing : parking' = [parking EXCEPT ![s] = visit]
  BY DEF RecordEntry
<1>3. visit.since = q.at /\ visit.status # "none"
  OBVIOUS
<1> HIDE DEF visit, q
<1>4. /\ Existing' = Existing \cup {s} /\ parking'[s].since = q.at
      /\ \A t \in Sessions \ {s} : parking'[t] = parking[t]
  BY <1>2, <1>3 DEF Existing, GtTypeOK
<1>5. \A t \in Existing : parking'[t] = parking[t] /\ parking[t].since # q.at
  BY <1>1, <1>4 DEF TimesDiffer, Existing, q
<1>6. \A p \in Slots \ {r} : gtPc[p] # "idle" => gtReq[p].at # q.at
  BY <1>1 DEF TimesDiffer, q
<1> QED
  BY <1>1, <1>4, <1>5, <1>6 DEF TimesDiffer

\* Fees and exits leave the sessions and their times.
LEMMA TimesAtExit ==
  ASSUME BarriersAgree, TimesDiffer, NEW r \in Slots, RecordFee(r) \/ RecordExit(r)
  PROVE  /\ TimesDiffer' /\ Existing' = Existing
         /\ \A s \in Existing : parking'[s].since = parking[s].since
<1> USE DEF BarriersAgree
<1> DEFINE s == gtReq[r].session
           g == gtReq[r].gate
<1>1. s \in Existing /\ g \in Gates /\ Existing \subseteq Sessions
  BY DEF RecordFee, RecordExit, CallAgrees, Existing
<1>2. PICK status \in {"PAYMENT_PENDING", "COMPLETED"} :
        parking' = [parking EXCEPT ![s] = LeavingBy(@, status, g)]
  BY Zenon DEF RecordFee, RecordExit
<1>3. GtDone(r)
  BY DEF RecordFee, RecordExit
<1> HIDE DEF s, g
<1>4. Existing' = Existing /\ \A t \in Existing : parking'[t].since = parking[t].since
  BY <1>1, <1>2, LeavingKeeps
<1> QED
  BY <1>3, <1>4, GtDoneType, TimesStay

\* A step that keeps the sessions there are and their times keeps the walks.
LEMMA WalksStay ==
  ASSUME BarriersAgree, BarriersAgree', \A r \in Slots : WalkAgrees(r), walks' = walks,
         Existing \subseteq Existing',
         \A s \in Existing : parking'[s].since = parking[s].since
  PROVE  \A r \in Slots : WalkAgrees(r)'
<1> SUFFICES ASSUME NEW r \in Slots PROVE WalkAgrees(r)'
  OBVIOUS
<1>1. ASSUME NEW s \in Existing
      PROVE  /\ Cardinality(NotOlder(s)) \in Nat /\ Cardinality(NotOlder(s)') \in Nat
             /\ Cardinality(NotOlder(s)) <= Cardinality(NotOlder(s)')
  <2>1. NotOlder(s) \subseteq NotOlder(s)' /\ NotOlder(s)' \subseteq Existing'
    BY DEF NotOlder
  <2>2. IsFiniteSet(NotOlder(s)')
    BY <2>1, FS_Subset DEF BarriersAgree
  <2> QED
    BY <2>1, <2>2, FS_Subset, FS_CardinalityType
<1>2. walks[r].page \in Nat /\ PageSize \in Nat
  BY BarrierAssumption DEF BarriersAgree, GtTypeOK, Walk, BarrierAssumption
<1>3. (walks[r].page - 1) * PageSize \in Int
  BY <1>2
<1>4. \A s \in walks[r].owed \ walks[r].shown :
        (walks[r].page - 1) * PageSize < Cardinality(NotOlder(s)')
  BY <1>1, <1>3 DEF WalkAgrees
<1>5. walks[r].owed \subseteq Existing' /\ (walks[r].owed # {} => walks[r].page >= 1)
  BY DEF WalkAgrees
<1> QED
  BY <1>4, <1>5 DEF WalkAgrees

\* In the order of the list, a session is as far down as there are sessions that are not
\* older (the ORDER BY of list_sessions).
LEMMA PlaceInList ==
  ASSUME BarriersAgree, TimesDiffer, NEW seq \in Orders(Existing), NEW s \in Existing
  PROVE  \E i \in DOMAIN seq : seq[i] = s /\ i = Cardinality(NotOlder(s)) /\ i \in Nat \ {0}
<1> DEFINE n == Cardinality(Existing)
           D == 1 .. n
<1>1. n \in Nat /\ IsFiniteSet(Existing)
  BY FS_CardinalityType DEF BarriersAgree
<1>2. /\ seq \in [D -> Existing]
      /\ \A i, j \in D : seq[i] = seq[j] => i = j
      /\ \A i, j \in D : i < j => parking[seq[j]].since <= parking[seq[i]].since
  BY DEF Orders, SetToSeqs
<1> HIDE DEF n
<1>3. IsFiniteSet(D) /\ Cardinality(D) = n
  <2>1. 1 \in Int /\ n \in Int /\ (1 > n => n = 0) /\ n - 1 + 1 = n
    BY <1>1
  <2> QED
    BY <2>1, FS_Interval
<1> HIDE DEF D
<1>4. seq \in Surjection(D, Existing)
  <2>1. seq \in Injection(D, Existing)
    BY <1>2 DEF Injection, IsInjective
  <2> QED
    BY <1>1, <1>3, <2>1, FS_Injection DEF n
<1>5. PICK i \in D : seq[i] = s
  BY <1>4 DEF Surjection
<1>6. i \in Nat \ {0} /\ 1 .. i \subseteq D /\ \A j \in D : j \in 1 .. i <=> ~ (i < j)
  BY <1>1 DEF D
<1>7. \A t \in Existing : parking[t].since \in Nat
  BY DEF BarriersAgree, GtTypeOK, Visit, Existing
<1>8. ASSUME NEW j \in 1 .. i PROVE seq[j] \in NotOlder(s)
  <2>1. j \in D /\ seq[j] \in Existing /\ (j = i \/ j < i)
    BY <1>2, <1>6
  <2>2. parking[s].since <= parking[seq[j]].since
    BY <1>2, <1>5, <1>7, <2>1
  <2> QED
    BY <2>1, <2>2 DEF NotOlder
<1>9. ASSUME NEW t \in NotOlder(s) PROVE \E j \in 1 .. i : seq[j] = t
  <2>1. t \in Existing /\ parking[s].since <= parking[t].since
    BY DEF NotOlder
  <2>2. PICK j \in D : seq[j] = t
    BY <1>4, <2>1 DEF Surjection
  <2>3. ~ (i < j)
    <3> SUFFICES ASSUME i < j PROVE FALSE
      OBVIOUS
    <3>1. parking[t].since <= parking[s].since
      BY <1>2, <1>5, <2>2
    <3>2. t = s
      BY <1>7, <2>1, <3>1 DEF TimesDiffer
    <3>3. i = j
      BY <1>2, <1>5, <2>2, <3>2
    <3> QED
      BY <1>6, <3>3
  <2> QED
    BY <1>6, <2>2, <2>3
<1> DEFINE f == [j \in 1 .. i |-> seq[j]]
<1>10. f \in Bijection(1 .. i, NotOlder(s))
  <2>1. f \in [1 .. i -> NotOlder(s)]
    BY <1>8
  <2>2. \A j, k \in 1 .. i : f[j] = f[k] => j = k
    BY <1>2, <1>6
  <2>3. \A t \in NotOlder(s) : \E j \in 1 .. i : f[j] = t
    BY <1>9
  <2> HIDE DEF f
  <2> QED
    BY <2>1, <2>2, <2>3 DEF Bijection, Injection, Surjection, IsInjective
<1>11. IsFiniteSet(1 .. i) /\ Cardinality(1 .. i) = i
  <2>1. 1 \in Int /\ i \in Int /\ ~ (1 > i) /\ i - 1 + 1 = i
    BY <1>6
  <2> QED
    BY <2>1, FS_Interval
<1>12. Cardinality(NotOlder(s)) = i
  BY <1>10, <1>11, FS_Bijection DEF ExistsBijection
<1>13. DOMAIN seq = D
  BY <1>2
<1> QED
  BY <1>5, <1>6, <1>12, <1>13

\* A client that begins owes itself every session, and all are still to come.
LEMMA WalkBegins ==
  ASSUME BarriersAgree, \A p \in Slots : WalkAgrees(p), NEW r \in Slots, StartWalk(r)
  PROVE  \A p \in Slots : WalkAgrees(p)'
<1>1. /\ walks' = [walks EXCEPT ![r] = [page |-> 1, owed |-> Existing, shown |-> {}]]
      /\ parking' = parking
  BY DEF StartWalk, gtTables
<1>2. Existing' = Existing /\ \A s : NotOlder(s)' = NotOlder(s)
  BY <1>1 DEF Existing, NotOlder
<1>3. ASSUME NEW p \in Slots \ {r} PROVE WalkAgrees(p)'
  <2>1. walks'[p] = walks[p]
    BY <1>1 DEF BarriersAgree, GtTypeOK
  <2> QED
    BY <1>2, <2>1 DEF WalkAgrees
<1>4. walks'[r].page = 1 /\ walks'[r].owed = Existing /\ walks'[r].shown = {}
  BY <1>1 DEF BarriersAgree, GtTypeOK
<1>5. ASSUME NEW s \in Existing PROVE 0 < Cardinality(NotOlder(s))
  <2>1. s \in NotOlder(s) /\ NotOlder(s) \subseteq Existing
    BY DEF NotOlder, Existing, BarriersAgree, GtTypeOK, Visit
  <2>2. IsFiniteSet(NotOlder(s))
    BY <2>1, FS_Subset DEF BarriersAgree
  <2> QED
    BY <2>1, <2>2, FS_CardinalityType, FS_EmptySet
<1>6. (1 - 1) * PageSize = 0
  BY BarrierAssumption DEF BarrierAssumption
<1>7. WalkAgrees(r)'
  BY <1>2, <1>4, <1>5, <1>6 DEF WalkAgrees
<1> QED
  BY <1>3, <1>7

\* The page that is shown holds the next PageSize places of the list.
LEMMA WalkGoesOn ==
  ASSUME BarriersAgree, TimesDiffer, \A p \in Slots : WalkAgrees(p), NEW r \in Slots,
         ListSessions(r)
  PROVE  \A p \in Slots : WalkAgrees(p)'
<1> DEFINE w == walks[r]
           next(seq) == [page |-> w.page + 1, owed |-> w.owed,
                         shown |-> w.shown \cup Page(seq, w.page)]
<1>1. PICK seq \in Orders(Existing) : walks' = [walks EXCEPT ![r] = next(seq)]
  BY DEF ListSessions
<1>2. parking' = parking
  BY DEF ListSessions, gtTables
<1>3. Existing' = Existing /\ \A s : NotOlder(s)' = NotOlder(s)
  BY <1>2 DEF Existing, NotOlder
<1>4. ASSUME NEW p \in Slots \ {r} PROVE WalkAgrees(p)'
  <2>1. walks'[p] = walks[p]
    BY <1>1 DEF BarriersAgree, GtTypeOK
  <2> QED
    BY <1>3, <2>1 DEF WalkAgrees
<1>5. walks'[r] = next(seq)
  <2> HIDE DEF next
  <2> QED
    BY <1>1 DEF BarriersAgree, GtTypeOK
<1>6. w.page \in Nat /\ w.owed \subseteq Existing /\ PageSize \in Nat \ {0}
  BY BarrierAssumption DEF BarriersAgree, GtTypeOK, Walk, BarrierAssumption, WalkAgrees
<1>7. Offset(w.page) \in Int /\ Offset(w.page) + PageSize = (w.page + 1 - 1) * PageSize
  BY <1>6 DEF Offset
<1>8. ASSUME NEW s \in w.owed, s \notin w.shown, s \notin Page(seq, w.page)
      PROVE  (w.page + 1 - 1) * PageSize < Cardinality(NotOlder(s))
  <2>1. PICK i \in DOMAIN seq : seq[i] = s /\ i = Cardinality(NotOlder(s)) /\ i \in Nat \ {0}
    BY <1>6, PlaceInList
  <2>2. Offset(w.page) < i
    BY <1>8, <2>1 DEF WalkAgrees, Offset
  <2>3. ~ (i > Offset(w.page) /\ i <= Offset(w.page) + PageSize)
    BY <1>8, <2>1 DEF Page
  <2> HIDE DEF w
  <2> QED
    BY <1>6, <1>7, <2>1, <2>2, <2>3
<1>9. WalkAgrees(r)'
  <2>1. /\ next(seq).page = w.page + 1 /\ next(seq).owed = w.owed
        /\ next(seq).shown = w.shown \cup Page(seq, w.page)
    OBVIOUS
  <2> HIDE DEF next, w
  <2>2. w.page + 1 >= 1
    BY <1>6
  <2> QED
    BY <1>3, <1>5, <1>6, <1>8, <2>1, <2>2 DEF WalkAgrees
<1> QED
  BY <1>4, <1>9

\* A client that is done owes itself nothing.
LEMMA WalkEnds ==
  ASSUME BarriersAgree, \A p \in Slots : WalkAgrees(p), NEW r \in Slots, EndWalk(r)
  PROVE  \A p \in Slots : WalkAgrees(p)'
<1>1. walks' = [walks EXCEPT ![r] = NoWalk] /\ parking' = parking
  BY DEF EndWalk, gtTables
<1>2. Existing' = Existing /\ \A s : NotOlder(s)' = NotOlder(s)
  BY <1>1 DEF Existing, NotOlder
<1>3. ASSUME NEW p \in Slots \ {r} PROVE WalkAgrees(p)'
  <2>1. walks'[p] = walks[p]
    BY <1>1 DEF BarriersAgree, GtTypeOK
  <2> QED
    BY <1>2, <2>1 DEF WalkAgrees
<1>4. walks'[r].owed = {}
  BY <1>1 DEF BarriersAgree, GtTypeOK, NoWalk
<1>5. WalkAgrees(r)'
  BY <1>4 DEF WalkAgrees
<1> QED
  BY <1>3, <1>5

\* Every step keeps what the walks still owe on the pages to come.
LEMMA ListKeeps ==
  ASSUME ~Simultaneous, ListAgrees, [GtNext]_gtVars
  PROVE  ListAgrees'
<1> USE DEF ListAgrees
<1>1. BarriersAgree /\ BarriersAgree'
  BY BarriersKeep
<1>2. ASSUME walks' = walks, TimesDiffer', Existing \subseteq Existing',
             \A s \in Existing : parking'[s].since = parking[s].since
      PROVE  ListAgrees'
  BY <1>1, <1>2, WalksStay
<1>3. ASSUME walks' = walks, parking' = parking,
             \A p \in Slots : gtPc'[p] # "idle" =>
               gtPc[p] # "idle" /\ gtReq'[p].at = gtReq[p].at /\ gtReq'[p].kind = gtReq[p].kind
      PROVE  ListAgrees'
  <2>1. Existing' = Existing /\ \A s \in Existing : parking'[s].since = parking[s].since
    BY <1>3 DEF Existing
  <2>2. TimesDiffer'
    BY <1>3, <2>1, TimesStay
  <2> QED
    BY <1>2, <1>3, <2>1, <2>2
<1>4. CASE UNCHANGED gtVars
  BY <1>3, <1>4 DEF gtVars, gtTables
<1>5. ASSUME NEW r \in Slots,
             \/ OpenBarrier(r) \/ EmergencyOpenBarrier(r) \/ CloseBarrier(r) \/ EnterGate(r)
             \/ LeaveGate(r)
      PROVE  ListAgrees'
  <2>1. PICK kind \in CallKinds, g \in Gates, reason \in CallReasons, s \in Sessions \cup {NoSession} :
          Call(r, kind, g, reason, s)
    BY <1>1, <1>5, BeginKeeps
  <2>2. \A p \in Slots \ {r} : gtPc'[p] = gtPc[p]
    BY <1>1, <1>5 DEF OpenBarrier, EmergencyOpenBarrier, CloseBarrier, EnterGate, LeaveGate,
                      GtGo, BarriersAgree, GtTypeOK
  <2>3. TimesDiffer'
    BY <1>1, <2>1, <2>2, TimesAtCall
  <2>4. walks' = walks /\ parking' = parking
    BY <2>1 DEF Call, gtTables
  <2> QED
    BY <1>2, <2>3, <2>4 DEF Existing
<1>6. ASSUME NEW r \in Slots, ChooseSession(r) PROVE ListAgrees'
  <2>1. /\ gtPc[r] # "idle" /\ walks' = walks /\ parking' = parking
        /\ gtReq'[r].at = gtReq[r].at /\ gtReq'[r].kind = gtReq[r].kind
        /\ \A p \in Slots \ {r} : gtPc'[p] = gtPc[p] /\ gtReq'[p] = gtReq[p]
    BY <1>1, <1>6 DEF ChooseSession, GtGo, gtTables, BarriersAgree, GtTypeOK
  <2> QED
    BY <1>3, <2>1
<1>7. ASSUME NEW r \in Slots, RecordBarrierEvent(r) \/ CallLost(r) PROVE ListAgrees'
  <2>1. GtDone(r) /\ walks' = walks /\ parking' = parking
    BY <1>7 DEF RecordBarrierEvent, CallLost, gtTables
  <2>2. gtPc'[r] = "idle" /\ \A p \in Slots \ {r} : gtPc'[p] = gtPc[p] /\ gtReq'[p] = gtReq[p]
    BY <1>1, <2>1, GtDoneType DEF BarriersAgree
  <2> QED
    BY <1>3, <2>1, <2>2
<1>8. ASSUME NEW r \in Slots, RecordEntry(r) \/ RecordFee(r) \/ RecordExit(r) PROVE ListAgrees'
  <2>1. walks' = walks
    BY <1>8 DEF RecordEntry, RecordFee, RecordExit
  <2> QED
    BY <1>1, <1>2, <1>8, <2>1, TimesAtEntry, TimesAtExit
<1>9. ASSUME NEW r \in Slots, StartWalk(r) \/ ListSessions(r) \/ EndWalk(r) PROVE ListAgrees'
  <2>1. UNCHANGED <<parking, gtPc, gtReq>>
    BY <1>9 DEF StartWalk, ListSessions, EndWalk, gtTables
  <2>2. Existing' = Existing /\ \A s \in Existing : parking'[s].since = parking[s].since
    BY <2>1 DEF Existing
  <2>3. TimesDiffer'
    BY <2>1, <2>2, TimesStay
  <2> QED
    BY <1>1, <1>9, <2>3, WalkBegins, WalkGoesOn, WalkEnds
<1> QED
  BY <1>4, <1>5, <1>6, <1>7, <1>8, <1>9 DEF GtNext

\* Behind the last page no session is left.
LEMMA LastPage ==
  ASSUME NEW n \in Nat, NEW page \in Nat, page > TotalPages(n)
  PROVE  (page - 1) * PageSize >= n
<1> DEFINE P == PageSize
<1>1. P \in Nat \ {0}
  BY BarrierAssumption DEF BarrierAssumption
<1> HIDE DEF P
<1>2. CASE n = 0
  <2>1. page - 1 \in Nat
    BY <1>2 DEF TotalPages
  <2> QED
    BY <1>1, <1>2, <2>1 DEF P
<1>3. CASE n > 0
  <2> DEFINE a == n + P - 1
             d == a \div P
  <2>1. a \in Nat
    BY <1>1
  <2>2. page > d
    BY <1>3 DEF TotalPages, P
  <2>3. d \in Nat /\ a < P * d + P
    <3> HIDE DEF a
    <3> QED
      BY <1>1, <2>1
  <2> HIDE DEF d
  <2>4. n <= d * P
    BY <1>1, <2>3
  <2>5. page - 1 \in Nat /\ d <= page - 1
    BY <2>2, <2>3
  <2>6. d * P <= (page - 1) * P
    <3> DEFINE b == page - 1
    <3>1. b \in Nat /\ d <= b
      BY <2>5
    <3> HIDE DEF b
    <3>2. d * P <= b * P
      BY <1>1, <2>3, <3>1
    <3> QED
      BY <3>2 DEF b
  <2>7. d * P \in Int /\ (page - 1) * P \in Int
    BY <1>1, <2>3, <2>5
  <2> QED
    BY <2>4, <2>6, <2>7 DEF P
<1> QED
  BY <1>2, <1>3

\* As long as no two sessions have the same check-in time, walking through the pages to the
\* last one shows every session that was there at the beginning (list_sessions), also when
\* vehicles enter and leave meanwhile.
THEOREM WalksMissNone ==
  ASSUME ~Simultaneous
  PROVE  GtSpec => []PagesMissNone
<1>1. GtInit => ListAgrees
  <2> SUFFICES ASSUME GtInit PROVE ListAgrees
    OBVIOUS
  <2>1. /\ \A r \in Slots : walks[r] = NoWalk /\ gtPc[r] = "idle"
        /\ Existing = {}
    BY DEF GtInit, Existing, NoVisit
  <2>2. NoWalk.owed = {}
    BY DEF NoWalk
  <2> QED
    BY <2>1, <2>2, BarriersBegin DEF ListAgrees, TimesDiffer, WalkAgrees
<1>2. ListAgrees => PagesMissNone
  <2> SUFFICES ASSUME ListAgrees, NEW r \in Slots,
                      walks[r].page > TotalPages(Cardinality(Existing)),
                      NEW s \in walks[r].owed, s \notin walks[r].shown
               PROVE  FALSE
    BY DEF PagesMissNone
  <2> DEFINE n == Cardinality(Existing)
             c == Cardinality(NotOlder(s))
             d == (walks[r].page - 1) * PageSize
  <2>1. n \in Nat /\ walks[r].page \in Nat
    BY FS_CardinalityType DEF ListAgrees, BarriersAgree, GtTypeOK, Walk
  <2>2. d >= n
    BY <2>1, LastPage
  <2>3. d < c
    BY DEF ListAgrees, WalkAgrees
  <2>4. c \in Nat /\ c <= n
    <3>1. NotOlder(s) \subseteq Existing /\ IsFiniteSet(Existing)
      BY DEF NotOlder, ListAgrees, BarriersAgree
    <3> QED
      BY <3>1, FS_Subset, FS_CardinalityType
  <2>5. d \in Int
    BY <2>1, BarrierAssumption DEF BarrierAssumption
  <2> HIDE DEF n, c, d
  <2> QED
    BY <2>1, <2>2, <2>3, <2>4, <2>5
<1>3. ListAgrees /\ [GtNext]_gtVars => ListAgrees'
  BY ListKeeps
<1> QED
  BY <1>1, <1>2, <1>3, PTL DEF GtSpec
====
