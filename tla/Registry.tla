------------------------------ MODULE Registry -----------------------------
(***************************************************************************)
(* Rows that are looked up and inserted when there is none: lanes,         *)
(* devices, daily statistics, preferences and error reports, of one        *)
(* building.  Only error reports lock anything before they look (the row   *)
(* of their user); everywhere else two requests may find no row, and the   *)
(* unique index refuses the later INSERT (answered 503 by the handler of   *)
(* SQLAlchemyError).                                                       *)
(***************************************************************************)
EXTENDS Workers

CONSTANTS
  LaneIds, LaneNames,
  Codes,         \* device codes
  Correlations,  \* correlation ids of error reports; NoCorrelation is none
  NoCorrelation,
  ReportRate,    \* reports of a user in a minute; 10 in the code
  MaxClock,      \* bound of the clock, in minutes
  MaxFacts,      \* bound of the entries of the day the statistics are about
  NoName

ASSUME RegistryAssumption ==
  /\ IsFiniteSet(LaneIds) /\ NoName \notin LaneNames
  /\ ReportRate \in Nat \ {0} /\ MaxClock \in Nat /\ MaxFacts \in Nat

VARIABLES
  clock,
  lanes,       \* name and is_active of each lane; NoName before it is created
  devices,     \* how many rows a code has, their status and last_heartbeat_at
  prefRows,    \* preference rows of each user
  facts,       \* entries of the day that are committed
  stat,        \* the day's statistic: its rows and its entries
  reports,     \* error events
  userHolder,  \* the request that has locked each user row
  rgPc, rgReq  \* where each slot is, and what it serves and has read

rgTables == <<lanes, devices, prefRows, facts, stat, reports>>
rgVars == <<clock, rgTables, userHolder, rgPc, rgReq>>

NoDevice == [rows |-> 0, status |-> "UNKNOWN", seen |-> 0]

\* `at` is when the transaction began: created_at is now() in PostgreSQL.
RegistryRequest(id, name, user, value, at) ==
  [id |-> id, name |-> name, user |-> user, value |-> value, at |-> at,
   found |-> FALSE, read |-> NoDevice]

NoRequest == RegistryRequest(NoName, NoName, NoName, 0, 0)

RgPlaces == {"idle", "create", "rename", "switch", "beat", "pref", "report",
             "dedupe", "stat"}

LeaveRegistry(r) ==
  /\ rgPc' = [rgPc EXCEPT ![r] = "idle"]
  /\ rgReq' = [rgReq EXCEPT ![r] = NoRequest]
  /\ userHolder' = [u \in People |-> IF userHolder[u] = r THEN NoSlot ELSE userHolder[u]]
  /\ UNCHANGED clock

RefuseEntry(r) == LeaveRegistry(r) /\ UNCHANGED rgTables

RegistryLost(r) == rgPc[r] # "idle" /\ RefuseEntry(r)

BeginEntry(r, place, q) ==
  /\ rgPc[r] = "idle"
  /\ rgPc' = [rgPc EXCEPT ![r] = place]
  /\ rgReq' = [rgReq EXCEPT ![r] = q]
  /\ UNCHANGED <<clock, rgTables, userHolder>>
-----------------------------------------------------------------------------
(* Lanes.                                                                  *)

Named(name) == {l \in LaneIds : lanes[l].name = name}

\* Mutant: no unique index on the name.
NoNameConflict(l, name) == FALSE
NameConflict(l, name) == Named(name) \ {l} # {}

CreateLane(r) ==
  \E l \in LaneIds, name \in LaneNames :
    /\ lanes[l].name = NoName /\ Named(name) = {}
    /\ BeginEntry(r, "create", RegistryRequest(l, name, NoName, 0, clock))

\* The name is looked up again only if it changes.
RenameLane(r) ==
  \E l \in LaneIds, name \in LaneNames :
    /\ lanes[l].name \notin {NoName, name} /\ Named(name) = {}
    /\ BeginEntry(r, "rename", RegistryRequest(l, name, NoName, 0, clock))

\* POST /lanes/{id}/deactivate, and PATCH /lanes/{id} with is_active.
SwitchLane(r) ==
  \E l \in LaneIds, active \in BOOLEAN :
    /\ lanes[l].name # NoName
    /\ BeginEntry(r, "switch", [RegistryRequest(l, NoName, NoName, active, clock) EXCEPT
                                  !.found = lanes[l].active])

WriteLane(r, l, lane) ==
  /\ lanes' = [lanes EXCEPT ![l] = lane]
  /\ LeaveRegistry(r)
  /\ UNCHANGED <<devices, prefRows, facts, stat, reports>>

\* Flush, audit row and commit; the flush of a taken name or id fails.
SaveLane(r) ==
  LET q == rgReq[r]
  IN \/ /\ rgPc[r] \in {"create", "rename"}
        /\ IF NameConflict(q.id, q.name) \/ (rgPc[r] = "create" /\ lanes[q.id].name # NoName)
           THEN RefuseEntry(r)
           ELSE WriteLane(r, q.id, [name |-> q.name,
                                    active |-> IF rgPc[r] = "create" THEN TRUE
                                               ELSE lanes[q.id].active])
     \/ rgPc[r] = "switch" /\ WriteLane(r, q.id, [lanes[q.id] EXCEPT !.active = Dirty(q.value, q.found, @)])
-----------------------------------------------------------------------------
(* Devices.                                                                *)

\* POST /m5/devices/heartbeat: the row as it was found.
Heartbeat(r) ==
  \E c \in Codes, status \in {"ONLINE", "DEGRADED"} :
    BeginEntry(r, "beat", [RegistryRequest(c, NoName, NoName, status, clock) EXCEPT
                             !.found = devices[c].rows > 0, !.read = devices[c]])

\* Mutant: no unique constraint on building and code.
NoDeviceConflict(c) == FALSE
DeviceConflict(c) == devices[c].rows > 0

Beaten(q) ==
  [rows |-> IF q.found THEN devices[q.id].rows ELSE devices[q.id].rows + 1,
   status |-> IF q.found THEN Dirty(q.value, q.read.status, devices[q.id].status) ELSE q.value,
   seen |-> clock]

SaveHeartbeat(r) ==
  LET q == rgReq[r]
  IN /\ rgPc[r] = "beat"
     /\ IF ~q.found /\ DeviceConflict(q.id)
        THEN RefuseEntry(r)
        ELSE /\ devices' = [devices EXCEPT ![q.id] = Beaten(q)]
             /\ LeaveRegistry(r)
             /\ UNCHANGED <<lanes, prefRows, facts, stat, reports>>

-----------------------------------------------------------------------------
(* Preferences.                                                            *)

SavePreference(r) ==
  \E u \in People :
    BeginEntry(r, "pref", [RegistryRequest(NoName, NoName, u, 0, clock) EXCEPT
                             !.found = prefRows[u] > 0])

\* user_id is the primary key.
CommitPreference(r) ==
  LET q == rgReq[r]
  IN /\ rgPc[r] = "pref"
     /\ IF ~q.found /\ prefRows[q.user] > 0
        THEN RefuseEntry(r)
        ELSE /\ prefRows' = [prefRows EXCEPT ![q.user] = IF q.found THEN @ ELSE @ + 1]
             /\ LeaveRegistry(r)
             /\ UNCHANGED <<lanes, devices, facts, stat, reports>>
-----------------------------------------------------------------------------
(* Daily statistics.                                                       *)

\* An entry of the day is committed.
DayGoesOn ==
  /\ facts < MaxFacts
  /\ facts' = facts + 1
  /\ UNCHANGED <<clock, lanes, devices, prefRows, stat, reports, userHolder, rgPc, rgReq>>

\* aggregate_day counts before it locks the row it is going to write.
Rebuild(r) ==
  BeginEntry(r, "stat", [RegistryRequest(NoName, NoName, NoName, facts, clock) EXCEPT
                           !.found = stat.rows > 0])

SaveStat(r) ==
  LET q == rgReq[r]
  IN /\ rgPc[r] = "stat"
     /\ IF ~q.found /\ stat.rows > 0
        THEN RefuseEntry(r)
        ELSE /\ stat' = [rows |-> IF q.found THEN stat.rows ELSE stat.rows + 1,
                         entries |-> q.value]
             /\ LeaveRegistry(r)
             /\ UNCHANGED <<lanes, devices, prefRows, facts, reports>>
-----------------------------------------------------------------------------
(* Error reports.                                                          *)

ReportError(r) ==
  \E u \in People, c \in Correlations \cup {NoCorrelation} :
    BeginEntry(r, "report", RegistryRequest(NoName, c, u, 0, clock))

\* Mutant: the user row is read without FOR UPDATE.
ReadUser(r, u) == UNCHANGED userHolder
LockUser(r, u) ==
  /\ userHolder[u] = NoSlot
  /\ userHolder' = [userHolder EXCEPT ![u] = r]

OfUser(u) == {e \in reports : e.user = u}

\* The report is a repetition, or one too many, or on its way.
AdmitReport(r) ==
  LET q == rgReq[r]
      Same == {e \in OfUser(q.user) : e.corr = q.name /\ e.source = "frontend"}
      Recent == {e \in OfUser(q.user) : e.at >= clock - 1}
  IN /\ rgPc[r] = "report"
     /\ IF (q.name # NoCorrelation /\ Same # {}) \/ Cardinality(Recent) >= ReportRate
        THEN userHolder[q.user] = NoSlot /\ RefuseEntry(r)
        ELSE /\ LockUser(r, q.user)
             /\ rgPc' = [rgPc EXCEPT ![r] = "dedupe"]
             /\ UNCHANGED <<clock, rgTables, rgReq>>

NewReport(user, corr, source, at) ==
  [id |-> Cardinality(reports), user |-> user, corr |-> corr, source |-> source, at |-> at]

CommitReport(r) ==
  LET q == rgReq[r]
  IN /\ rgPc[r] = "dedupe"
     /\ reports' = reports \cup {NewReport(q.user, q.name, "frontend", q.at)}
     /\ LeaveRegistry(r)
     /\ UNCHANGED <<lanes, devices, prefRows, facts, stat>>

\* record_failure: another session writes what went wrong for a user, without a limit.
RecordFailure ==
  \E u \in People, c \in Correlations :
    /\ Cardinality(reports) < ReportRate + 1
    /\ reports' = reports \cup {NewReport(u, c, "backend", clock)}
    /\ UNCHANGED <<clock, lanes, devices, prefRows, facts, stat, userHolder, rgPc, rgReq>>

Tick ==
  /\ clock < MaxClock
  /\ clock' = clock + 1
  /\ UNCHANGED <<rgTables, userHolder, rgPc, rgReq>>
-----------------------------------------------------------------------------
RgInit ==
  /\ clock = 0
  /\ lanes = [l \in LaneIds |-> [name |-> NoName, active |-> FALSE]]
  /\ devices = [c \in Codes |-> NoDevice]
  /\ prefRows = [u \in People |-> 0]
  /\ facts = 0 /\ stat = [rows |-> 0, entries |-> 0]
  /\ reports = {}
  /\ userHolder = [u \in People |-> NoSlot]
  /\ rgPc = [r \in Slots |-> "idle"]
  /\ rgReq = [r \in Slots |-> NoRequest]

LaneRequest(r) ==
  CreateLane(r) \/ RenameLane(r) \/ SwitchLane(r) \/ SaveLane(r) \/ RegistryLost(r)

DeviceRequest(r) ==
  \/ Heartbeat(r) \/ SaveHeartbeat(r) \/ SavePreference(r) \/ CommitPreference(r)
  \/ Rebuild(r) \/ SaveStat(r) \/ RegistryLost(r)

ReportRequest(r) ==
  ReportError(r) \/ AdmitReport(r) \/ CommitReport(r) \/ RegistryLost(r)

RgNext ==
  \/ \E r \in Slots : LaneRequest(r) \/ DeviceRequest(r) \/ ReportRequest(r)
  \/ DayGoesOn \/ RecordFailure \/ Tick

RgSpec == RgInit /\ [][RgNext]_rgVars
-----------------------------------------------------------------------------
(* Properties.                                                             *)

\* Two lanes never have one name, and a device code, a day and a user have at most one
\* row each, although nothing is locked between looking up and inserting
\* (create_lane, update_lane, heartbeat, aggregate_day, save_preference).
OneRowPerKey ==
  /\ \A l, k \in LaneIds : lanes[l].name = lanes[k].name /\ l # k => lanes[l].name = NoName
  /\ \A c \in Codes : devices[c].rows <= 1
  /\ \A u \in People : prefRows[u] <= 1
  /\ stat.rows <= 1

\* Simultaneous reports of a user cannot pass the limit of a minute together (the
\* comment at operations/service.py:99), and a report that a client repeats with its
\* correlation id is stored once.
ReportsLimited ==
  \A u \in People :
    LET mine == {e \in OfUser(u) : e.source = "frontend"}
    IN /\ Cardinality({e \in mine : e.at >= clock - 1}) <= ReportRate
       /\ \A e, d \in mine : e.corr = d.corr /\ e # d => e.corr = NoCorrelation
=============================================================================
