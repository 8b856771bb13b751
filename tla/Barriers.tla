------------------------------ MODULE Barriers ------------------------------
(***************************************************************************)
(* Barriers and what the session views show of them: BarrierService (the   *)
(* gate log), the gate events of check-in, check-out and emergency exit,   *)
(* and LifecycleService: the timeline of a session and the paged list.     *)
(*                                                                         *)
(* The events of a transaction bear the time at which it began (now() of   *)
(* the database).  Refused requests (an inactive lane, an accountant, no   *)
(* override permission, an unknown session, which the foreign key refuses) *)
(* change nothing and are left out.  So is what only describes an opening: *)
(* its reason (NORMAL, OVERRIDE, PAYMENT_RECEIVED) and the audit row of    *)
(* an override; an emergency differs by how its session is chosen.         *)
(***************************************************************************)
EXTENDS Workers, Sequences, SequencesExt

CONSTANTS
  Gates, Direction,  \* lanes, and "IN" or "OUT" for each
  Sessions,          \* ids of sessions
  PageSize,
  Simultaneous,      \* whether two sessions may have the same check-in time
  LastInstant, MaxLog,  \* bounds of the clock and of the gate log
  NoSession, NoGate

ASSUME BarrierAssumption ==
  /\ Direction \in [Gates -> {"IN", "OUT"}] /\ PageSize \in Nat \ {0}
  /\ Simultaneous \in BOOLEAN /\ NoSession \notin Sessions /\ NoGate \notin Gates

VARIABLES
  instant,   \* the database's clock
  parking,   \* each session: [status, since, lane, exit]; status "none" before it exists
  gateLog,   \* barrier_events, oldest first
  timeline,  \* lifecycle_events, in the order of their commits
  gtPc, gtReq, \* where each slot is and what it is asked
  walks      \* a client that walks the pages of the session list, for each slot

gtTables == <<parking, gateLog, timeline>>
gtVars == <<instant, gtTables, gtPc, gtReq, walks>>

NoVisit == [status |-> "none", since |-> 0, lane |-> NoGate, exit |-> NoGate]

NoCall == [kind |-> "none", gate |-> NoGate, reason |-> "none", session |-> NoSession, at |-> 0]

NoWalk == [page |-> 0, owed |-> {}, shown |-> {}]

GtPlaces == {"idle", "choose", "record"}

InsideStatuses == {"PARKED", "PAYMENT_PENDING"}
-----------------------------------------------------------------------------
Existing == {s \in Sessions : parking[s].status # "none"}
InsideNow == {s \in Sessions : parking[s].status \in InsideStatuses}
AtGate(g) == {s \in InsideNow : parking[s].lane = g \/ parking[s].exit = g}
NewestOf(set) == CHOOSE s \in set : \A t \in set : parking[t].since <= parking[s].since

GtGo(r, place) == gtPc' = [gtPc EXCEPT ![r] = place]
GtDone(r) == GtGo(r, "idle") /\ gtReq' = [gtReq EXCEPT ![r] = NoCall]

OpenedType(g) == IF Direction[g] = "IN" THEN "BARRIER_OPENED_IN" ELSE "BARRIER_OPENED_OUT"

\* Mutant: a gate that closes by itself leaves nothing in the timeline.
SilentTimeout(q) ==
  IF q.session = NoSession \/ q.kind # "OPEN" THEN <<>> ELSE <<OpenedType(q.gate)>>

\* What a barrier call adds to the timeline of its session.
TimelineTypes(q) ==
  IF q.session = NoSession THEN <<>>
  ELSE IF q.kind = "OPEN" THEN <<OpenedType(q.gate)>>
  ELSE IF q.reason = "TIMEOUT_AUTO_CLOSE" THEN <<"BARRIER_TIMEOUT_CLOSED">>
  ELSE IF q.reason = "VEHICLE_PASSED" /\ Direction[q.gate] = "OUT" THEN <<"EXIT_CONFIRMED">>
  ELSE <<>>

StatusOf(q) ==
  IF q.kind = "OPEN" THEN "OPEN"
  ELSE IF q.reason = "TIMEOUT_AUTO_CLOSE" THEN "CLOSED_TIMEOUT" ELSE "CLOSED"

Logged(g, status, s) == [gate |-> g, status |-> status, session |-> s]

Told(s, q, types) ==
  [i \in DOMAIN types |-> [session |-> s, type |-> types[i], gate |-> q.gate, at |-> q.at]]
-----------------------------------------------------------------------------
(* Calls.  The transaction of a call begins with its first query.          *)

Call(r, kind, g, reason, s) ==
  /\ gtPc[r] = "idle" /\ walks[r] = NoWalk
  /\ instant < LastInstant /\ Len(gateLog) < MaxLog
  /\ instant' = instant + 1
  /\ gtReq' = [gtReq EXCEPT ![r] =
       [kind |-> kind, gate |-> g, reason |-> reason, session |-> s, at |-> instant + 1]]
  /\ UNCHANGED <<gtTables, walks>>

OpenBarrier(r) ==
  \E g \in Gates, s \in Existing \cup {NoSession} :
    /\ Call(r, "OPEN", g, "none", s)
    /\ GtGo(r, "record")

\* With a session this is OpenBarrier; without one, the newest inside that came or leaves
\* by the lane is meant, as another query finds it.
EmergencyOpenBarrier(r) ==
  \E g \in Gates :
    /\ Call(r, "OPEN", g, "none", NoSession)
    /\ GtGo(r, "choose")

ChooseSession(r) ==
  LET q == gtReq[r]
      s == IF AtGate(q.gate) = {} THEN NoSession ELSE NewestOf(AtGate(q.gate))
  IN /\ gtPc[r] = "choose"
     /\ gtReq' = [gtReq EXCEPT ![r] =
          [kind |-> q.kind, gate |-> q.gate, reason |-> q.reason, session |-> s, at |-> q.at]]
     /\ GtGo(r, "record")
     /\ UNCHANGED <<instant, gtTables, walks>>

CloseBarrier(r) ==
  \E g \in Gates, reason \in {"VEHICLE_PASSED", "TIMEOUT_AUTO_CLOSE", "MANUAL_CLOSE"},
     s \in Existing \cup {NoSession} :
    /\ Call(r, "CLOSE", g, reason, s)
    /\ GtGo(r, "record")

\* Gate log and timeline are written in one transaction.
RecordBarrierEvent(r) ==
  LET q == gtReq[r]
  IN /\ gtPc[r] = "record" /\ q.kind \in {"OPEN", "CLOSE"}
     /\ gateLog' = Append(gateLog, Logged(q.gate, StatusOf(q), q.session))
     /\ timeline' = timeline \o Told(q.session, q, TimelineTypes(q))
     /\ GtDone(r)
     /\ UNCHANGED <<instant, parking, walks>>

\* Check-in: the session's time is taken by the server, before the commit.
EnterGate(r) ==
  \E g \in Gates :
    /\ Direction[g] = "IN"
    /\ Call(r, "ENTER", g, "none", NoSession)
    /\ GtGo(r, "record")

RecordEntry(r) ==
  \E s \in Sessions \ Existing :
    LET q == gtReq[r]
        since == IF Simultaneous THEN 0 ELSE q.at
    IN /\ gtPc[r] = "record" /\ q.kind = "ENTER"
       /\ parking' = [parking EXCEPT ![s] =
            [status |-> "PARKED", since |-> since, lane |-> q.gate, exit |-> NoGate]]
       /\ gateLog' = Append(gateLog, Logged(q.gate, "OPEN", s))
       /\ timeline' = timeline \o Told(s, q, <<"CHECKED_IN", "BARRIER_OPENED_IN">>)
       /\ GtDone(r)
       /\ UNCHANGED <<instant, walks>>

\* Check-out and emergency exit of a session found inside; neither locks it.
LeaveGate(r) ==
  \E g \in Gates, s \in InsideNow, reason \in {"UNPAID", "CHECK_OUT", "EMERGENCY"} :
    /\ Direction[g] = "OUT"
    /\ Call(r, "LEAVE", g, reason, s)
    /\ GtGo(r, "record")

LeavingBy(visit, status, g) ==
  [status |-> status, since |-> visit.since, lane |-> visit.lane, exit |-> g]

\* A fee is due: the session waits for payment at its exit lane.
RecordFee(r) ==
  LET q == gtReq[r]
  IN /\ gtPc[r] = "record" /\ q.kind = "LEAVE" /\ q.reason = "UNPAID"
     /\ parking' = [parking EXCEPT ![q.session] = LeavingBy(@, "PAYMENT_PENDING", q.gate)]
     /\ timeline' = timeline \o Told(q.session, q, <<"FEE_CALCULATED">>)
     /\ GtDone(r)
     /\ UNCHANGED <<instant, gateLog, walks>>

RecordExit(r) ==
  LET q == gtReq[r]
  IN /\ gtPc[r] = "record" /\ q.kind = "LEAVE" /\ q.reason # "UNPAID"
     /\ parking' = [parking EXCEPT ![q.session] = LeavingBy(@, "COMPLETED", q.gate)]
     /\ gateLog' = Append(gateLog, Logged(q.gate, "OPEN", q.session))
     /\ timeline' = timeline \o Told(q.session, q, IF q.reason = "EMERGENCY"
          THEN <<"BARRIER_OPENED_OUT", "COMPLETED">>
          ELSE <<"EXIT_CONFIRMED", "BARRIER_OPENED_OUT", "COMPLETED">>)
     /\ GtDone(r)
     /\ UNCHANGED <<instant, walks>>

CallLost(r) ==
  /\ gtPc[r] # "idle"
  /\ GtDone(r)
  /\ UNCHANGED <<instant, gtTables, walks>>
-----------------------------------------------------------------------------
(* The views.                                                              *)

Financial == {"FEE_CALCULATED", "INVOICE_CREATED", "PAYMENT_RECEIVED", "PAYMENT_FAILED", "COMPLETED"}

\* The timeline of a session: which events it shows.  Their order, by the time at which
\* their transactions began, is left out.
TimelineFor(s, role) ==
  {i \in DOMAIN timeline :
     timeline[i].session = s /\ (role = "ACCOUNTANT" => timeline[i].type \in Financial)}

\* The list, newest check-in first; the database may order equal times either way.
Orders(set) ==
  {seq \in SetToSeqs(set) : \A i, j \in DOMAIN seq : i < j => parking[seq[j]].since <= parking[seq[i]].since}

\* Mutant: pages counted from 0.
OffsetFromZero(page) == page * PageSize
Offset(page) == (page - 1) * PageSize

TotalPages(total) == IF total > 0 THEN (total + PageSize - 1) \div PageSize ELSE 1

Page(seq, page) == {seq[i] : i \in {j \in DOMAIN seq : j > Offset(page) /\ j <= Offset(page) + PageSize}}

StartWalk(r) ==
  /\ gtPc[r] = "idle" /\ walks[r] = NoWalk
  /\ walks' = [walks EXCEPT ![r] = [page |-> 1, owed |-> Existing, shown |-> {}]]
  /\ UNCHANGED <<instant, gtTables, gtPc, gtReq>>

\* One request of the list; the client asks for the next page until the last.
ListSessions(r) ==
  /\ walks[r].page \in 1 .. TotalPages(Cardinality(Existing))
  /\ \E seq \in Orders(Existing) :
       walks' = [walks EXCEPT ![r] =
         [page |-> @.page + 1, owed |-> @.owed, shown |-> @.shown \cup Page(seq, @.page)]]
  /\ UNCHANGED <<instant, gtTables, gtPc, gtReq>>

EndWalk(r) ==
  /\ walks[r].page > TotalPages(Cardinality(Existing))
  /\ walks' = [walks EXCEPT ![r] = NoWalk]
  /\ UNCHANGED <<instant, gtTables, gtPc, gtReq>>
-----------------------------------------------------------------------------
GtInit ==
  /\ instant = 0
  /\ parking = [s \in Sessions |-> NoVisit]
  /\ gateLog = <<>> /\ timeline = <<>>
  /\ gtPc = [r \in Slots |-> "idle"] /\ gtReq = [r \in Slots |-> NoCall]
  /\ walks = [r \in Slots |-> NoWalk]

GtNext ==
  \E r \in Slots :
    \/ OpenBarrier(r) \/ EmergencyOpenBarrier(r) \/ ChooseSession(r) \/ CloseBarrier(r)
    \/ RecordBarrierEvent(r) \/ EnterGate(r) \/ RecordEntry(r) \/ LeaveGate(r) \/ RecordFee(r)
    \/ RecordExit(r) \/ CallLost(r) \/ StartWalk(r) \/ ListSessions(r) \/ EndWalk(r)

GtSpec == GtInit /\ [][GtNext]_gtVars
-----------------------------------------------------------------------------
(* Properties.                                                             *)

Openings == {"BARRIER_OPENED_IN", "BARRIER_OPENED_OUT"}

ToldTo(s, role, types) == {i \in TimelineFor(s, role) : timeline[i].type \in types}

LoggedFor(s, status) ==
  {i \in DOMAIN gateLog : gateLog[i].session = s /\ gateLog[i].status = status}

\* The timeline of a session tells what the gate log knows of it, no more and no less:
\* each opening and each closing by timeout once, whether it came from check-in,
\* check-out, an emergency or a call of its own, also when calls overlap or are lost
\* (record_barrier_event and record_lifecycle_event at four places of the code).
GateLogInTimeline ==
  \A s \in Sessions :
    /\ Cardinality(ToldTo(s, "OPERATOR", Openings)) = Cardinality(LoggedFor(s, "OPEN"))
    /\ Cardinality(ToldTo(s, "OPERATOR", {"BARRIER_TIMEOUT_CLOSED"}))
         = Cardinality(LoggedFor(s, "CLOSED_TIMEOUT"))
    /\ parking[s].status = "COMPLETED" => ToldTo(s, "ACCOUNTANT", {"COMPLETED"}) # {}

\* Whoever walks through the pages of the session list until the last one has seen every
\* session that was there at the beginning, also when sessions enter meanwhile
\* (list_sessions: offset, limit, total_pages; it orders by check-in time alone, so no
\* two sessions may have the same).
PagesMissNone ==
  \A r \in Slots :
    walks[r].page > TotalPages(Cardinality(Existing)) => walks[r].owed \subseteq walks[r].shown
=============================================================================
