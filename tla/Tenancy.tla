------------------------------- MODULE Tenancy -----------------------------
(***************************************************************************)
(* The tenancy of the shared request session: get_current_user resolves    *)
(* the building of a request, the session filters what it reads            *)
(* (filter_building, TenantSession.get) and checks what it writes          *)
(* (enforce_building_writes).  Rows are those of BuildingOwnedMixin; a row *)
(* may refer to another one, as a session refers to its lane.              *)
(***************************************************************************)
EXTENDS Workers

CONSTANTS
  Members,       \* users
  SystemAdmins,  \* their sessions are not scoped
  OwnedIds,      \* ids of owned rows; ids come from clients
  DefaultBuilding,
  NoBuilding, NoRow

ASSUME TenancyAssumption ==
  /\ SystemAdmins \subseteq Members
  /\ DefaultBuilding \in Buildings /\ NoBuilding \notin Buildings
  /\ NoRow \notin OwnedIds

VARIABLES
  memberOf,  \* the active buildings each user is assigned to (user_buildings)
  owned,     \* committed rows: their building, NoBuilding while there is none, and a reference
  tnPc,      \* where each slot is
  scope,     \* building_id in the session's info, NoBuilding for a system administrator
  staged     \* the write that the session will flush

tnVars == <<memberOf, owned, tnPc, scope, staged>>

OwnedRow == [owner : Buildings \cup {NoBuilding}, ref : OwnedIds \cup {NoRow}]

NoWrite == [id |-> NoRow, owner |-> NoBuilding, ref |-> NoRow, new |-> FALSE]

Owner(id) == owned[id].owner

\* What a query or a get of the session may return.
VisibleTo(r, id) == Owner(id) # NoBuilding /\ scope[r] \in {NoBuilding, Owner(id)}

EndTenant(r) ==
  /\ tnPc' = [tnPc EXCEPT ![r] = "idle"]
  /\ scope' = [scope EXCEPT ![r] = NoBuilding]
  /\ staged' = [staged EXCEPT ![r] = NoWrite]
  /\ UNCHANGED memberOf

\* resolve_building: the claim of the token, or the only membership without a claim.
Resolvable(u, claim, b) ==
  IF u \in SystemAdmins THEN b = NoBuilding
  ELSE /\ b \in memberOf[u]
       /\ IF claim = NoBuilding THEN memberOf[u] = {b} ELSE b = claim

Authenticate(r) ==
  \E u \in Members, claim, b \in Buildings \cup {NoBuilding} :
    /\ tnPc[r] = "idle" /\ Resolvable(u, claim, b)
    /\ tnPc' = [tnPc EXCEPT ![r] = "serving"]
    /\ scope' = [scope EXCEPT ![r] = b]
    /\ UNCHANGED <<memberOf, owned, staged>>

Stage(r, w) ==
  /\ tnPc[r] = "serving"
  /\ tnPc' = [tnPc EXCEPT ![r] = "flush"]
  /\ staged' = [staged EXCEPT ![r] = w]
  /\ UNCHANGED <<memberOf, owned, scope>>

\* The code names the building, or leaves it to the session or the column's default.
\* An unscoped session gives a row the building of the row it refers to.
AddRow(r) ==
  \E id \in OwnedIds, b \in Buildings \cup {NoBuilding}, ref \in OwnedIds \cup {NoRow} :
    /\ Owner(id) = NoBuilding
    /\ scope[r] = NoBuilding /\ ref # NoRow => b = Owner(ref) /\ b # NoBuilding
    /\ Stage(r, [id |-> id, owner |-> b, ref |-> ref, new |-> TRUE])

\* Only what the session can see can be changed; no code moves a row to another building.
ChangeRow(r) ==
  \E id \in OwnedIds, ref \in OwnedIds \cup {NoRow} :
    /\ VisibleTo(r, id)
    /\ scope[r] = NoBuilding => ref = owned[id].ref
    /\ Stage(r, [id |-> id, owner |-> Owner(id), ref |-> ref, new |-> FALSE])

FilledOwner(r, w) ==
  IF w.owner # NoBuilding THEN w.owner
  ELSE IF scope[r] # NoBuilding THEN scope[r] ELSE DefaultBuilding

\* Mutants: the owner of the row, or of the row it refers to, is not checked.
OwnerOnly(r, w) == FilledOwner(r, w) = scope[r]
ReferenceOnly(r, w) == w.ref # NoRow => Owner(w.ref) = scope[r]

EnforcedWrite(r, w) ==
  /\ FilledOwner(r, w) = scope[r]
  /\ w.ref # NoRow => Owner(w.ref) = scope[r]

FlushRow(r) ==
  LET w == staged[r]
  IN /\ tnPc[r] = "flush"
     /\ owned' = IF /\ scope[r] = NoBuilding \/ EnforcedWrite(r, w)
                    /\ w.new => Owner(w.id) = NoBuilding
                 THEN [owned EXCEPT ![w.id] = [owner |-> FilledOwner(r, w), ref |-> w.ref]]
                 ELSE owned
     /\ EndTenant(r)

TenantLost(r) == tnPc[r] # "idle" /\ EndTenant(r) /\ UNCHANGED owned

\* Staff are assigned elsewhere, buildings close and open.
Reassign ==
  \E u \in Members \ SystemAdmins, B \in SUBSET Buildings :
    /\ memberOf' = [memberOf EXCEPT ![u] = B]
    /\ UNCHANGED <<owned, tnPc, scope, staged>>
-----------------------------------------------------------------------------
TnInit ==
  /\ memberOf = [u \in Members |-> {}]
  /\ owned = [id \in OwnedIds |-> [owner |-> NoBuilding, ref |-> NoRow]]
  /\ tnPc = [r \in Slots |-> "idle"]
  /\ scope = [r \in Slots |-> NoBuilding]
  /\ staged = [r \in Slots |-> NoWrite]

TnNext ==
  \/ \E r \in Slots : Authenticate(r) \/ AddRow(r) \/ ChangeRow(r) \/ FlushRow(r) \/ TenantLost(r)
  \/ Reassign

TnSpec == TnInit /\ [][TnNext]_tnVars
-----------------------------------------------------------------------------
(* Properties.                                                             *)

\* No row refers to a row of another building, whatever ids clients send and however
\* requests of several buildings overlap (the comment at tenant.py:138).
NoForeignReference ==
  \A id \in OwnedIds : owned[id].ref # NoRow => Owner(owned[id].ref) = Owner(id)

\* A request only changes rows of the building it was resolved to.
OnlyOwnRows ==
  [][\A id \in OwnedIds : owned'[id] # owned[id] =>
       \E r \in Slots : /\ tnPc[r] = "flush" /\ scope[r] \in {NoBuilding, owned'[id].owner}
                        /\ Owner(id) \in {NoBuilding, owned'[id].owner}]_tnVars
=============================================================================
