------------------------------ MODULE Accounts ------------------------------
(***************************************************************************)
(* User accounts and their access tokens: login, creation and update by an *)
(* administrator, change of the own password, logout and forced logout.    *)
(*                                                                         *)
(* A token carries the token_version its account had when it was issued    *)
(* and is accepted as long as the two agree.  Requests load the account    *)
(* without a lock; revoke() raises the version in the database             *)
(* (token_version = token_version + 1), update() in Python from the number *)
(* it has loaded.                                                          *)
(***************************************************************************)
EXTENDS Workers

CONSTANTS
  Passwords,
  TokenIds,    \* bounds the tokens that are issued
  MaxVersion,  \* bound: no request raises a version beyond it
  Changes,     \* what administrators change
  Untouched, NoVersion

Roles == {"OPERATOR", "BUILDING_ADMIN", "SYSTEM_ADMIN"}
Managed == {"OPERATOR"}   \* OPERATOR and ACCOUNTANT: the roles a building admin manages

Account == [exists : BOOLEAN, pw : Passwords, ver : Nat, active : BOOLEAN,
            must : BOOLEAN, role : Roles]

\* The fields of PATCH /users/{id} that touch access, and who sends it.
Change == [actor : {"SELF", "BUILDING_ADMIN", "SYSTEM_ADMIN"},
           pw : Passwords \cup {Untouched}, active : BOOLEAN \cup {Untouched},
           role : Roles \cup {Untouched}]

ASSUME AccountAssumption ==
  /\ Passwords # {} /\ MaxVersion \in Nat
  /\ Untouched \notin Passwords /\ Untouched \notin BOOLEAN /\ Untouched \notin Roles
  /\ NoVersion \notin Nat /\ Changes \subseteq Change

VARIABLES
  accounts,  \* committed users rows
  issued,    \* version in each issued token, NoVersion before it is issued
  holderOf,  \* the account each token names
  revoked,   \* tokens that a committed revocation has put an end to
  undone,    \* accounts of which an update has overwritten a version it had not loaded
  acPc,      \* where each slot is
  acOf,      \* the account a slot works on
  loadedAs,  \* that account as the slot loaded it
  acArg      \* a password or a change the request carries

acTables == <<accounts, issued, holderOf, revoked, undone>>
acLocal == <<acOf, loadedAs, acArg>>
acVars == <<acTables, acPc, acLocal>>

NoChange == [actor |-> "SELF", pw |-> Untouched, active |-> Untouched, role |-> Untouched]

AcPlaces == {"idle", "create", "login", "issue", "change", "update", "revoke"}

TokensOf(u) == {t \in TokenIds : issued[t] # NoVersion /\ holderOf[t] = u}

\* get_current_user.
Accepted(t) ==
  /\ issued[t] # NoVersion
  /\ accounts[holderOf[t]].active
  /\ issued[t] = accounts[holderOf[t]].ver

\* What get_current_user lets through while a temporary password is in use.
Usable(t, own) == Accepted(t) /\ (accounts[holderOf[t]].must => own)
-----------------------------------------------------------------------------
(* Requests.                                                               *)

LoadAccount(r, u, place, arg) ==
  /\ acPc[r] = "idle"
  /\ acPc' = [acPc EXCEPT ![r] = place]
  /\ acOf' = [acOf EXCEPT ![r] = u]
  /\ loadedAs' = [loadedAs EXCEPT ![r] = accounts[u]]
  /\ acArg' = [acArg EXCEPT ![r] = arg]
  /\ UNCHANGED acTables

\* The request ends; what its session had loaded is gone.
EndRequest(r) ==
  /\ acPc' = [acPc EXCEPT ![r] = "idle"]
  /\ acArg' = [acArg EXCEPT ![r] = NoChange]
  /\ UNCHANGED <<acOf, loadedAs>>

RefuseRequest(r) == EndRequest(r) /\ UNCHANGED acTables

RequestLost(r) == acPc[r] # "idle" /\ RefuseRequest(r)

\* The username is looked up before the insert and guarded by a unique index in it.
CreateUser(r) ==
  \E u \in People, p \in Passwords, on \in BOOLEAN, k \in Roles :
    /\ ~accounts[u].exists
    /\ LoadAccount(r, u, "create",
         [actor |-> "SYSTEM_ADMIN", pw |-> p, active |-> on, role |-> k])

SaveNewUser(r) ==
  LET u == acOf[r]  c == acArg[r]
  IN /\ acPc[r] = "create"
     /\ IF accounts[u].exists
        THEN RefuseRequest(r)
        ELSE /\ accounts' = [accounts EXCEPT ![u] =
                  [exists |-> TRUE, pw |-> c.pw, ver |-> 0, active |-> c.active,
                   must |-> c.role = "BUILDING_ADMIN", role |-> c.role]]
             /\ EndRequest(r)
             /\ UNCHANGED <<issued, holderOf, revoked, undone>>

\* POST /auth/login: the password is verified against the row as it was loaded.
Login(r) ==
  \E u \in People, p \in Passwords :
    /\ accounts[u].exists /\ accounts[u].active /\ accounts[u].pw = p
    /\ LoadAccount(r, u, "login", NoChange)

\* last_login_at is committed.
CommitLogin(r) ==
  /\ acPc[r] = "login"
  /\ acPc' = [acPc EXCEPT ![r] = "issue"]
  /\ UNCHANGED <<acTables, acLocal>>

\* The token gets the version of the refreshed row, not of the one that was verified.
IssueToken(r) ==
  /\ acPc[r] = "issue"
  /\ \E t \in TokenIds :
       /\ issued[t] = NoVersion
       /\ issued' = [issued EXCEPT ![t] = accounts[acOf[r]].ver]
       /\ holderOf' = [holderOf EXCEPT ![t] = acOf[r]]
  /\ EndRequest(r)
  /\ UNCHANGED <<accounts, revoked, undone>>

\* Every token issued so far is meant to be dead once the write is committed.
Commit(r, u, row) ==
  /\ row.ver <= MaxVersion
  /\ accounts' = [accounts EXCEPT ![u] = row]
  /\ revoked' = revoked \cup TokensOf(u)
  /\ EndRequest(r)
  /\ UNCHANGED <<issued, holderOf>>

\* Mutant: the version is not raised.
SameVersion(u) == accounts[u].ver
RaisedVersion(u) == accounts[u].ver + 1

\* POST /auth/logout and POST /users/{id}/revoke-sessions.
Logout(r) ==
  \E t \in TokenIds :
    /\ Usable(t, TRUE)
    /\ LoadAccount(r, holderOf[t], "revoke", NoChange)

ForceLogout(r) ==
  \E u \in People :
    /\ accounts[u].exists
    /\ LoadAccount(r, u, "revoke", NoChange)

Revoke(r) ==
  LET u == acOf[r]
  IN /\ acPc[r] = "revoke"
     /\ Commit(r, u, [accounts[u] EXCEPT !.ver = RaisedVersion(u)])
     /\ UNCHANGED undone

\* POST /auth/change-password.
ChangePassword(r) ==
  \E t \in TokenIds, p \in Passwords, new \in Passwords :
    LET u == holderOf[t]
    IN /\ Usable(t, TRUE)
       /\ accounts[u].pw = p /\ new # p
       /\ LoadAccount(r, u, "change", [NoChange EXCEPT !.pw = new])

SavePassword(r) ==
  LET u == acOf[r]
  IN /\ acPc[r] = "change"
     /\ Commit(r, u, [accounts[u] EXCEPT !.pw = acArg[r].pw,
                                         !.must = @ /\ ~loadedAs[r].must,
                                         !.ver = RaisedVersion(u)])
     /\ UNCHANGED undone

AccessChange(c) == c.pw # Untouched \/ c.active # Untouched \/ c.role # Untouched

\* Who may change what.
MayUpdate(c, row) ==
  /\ c.actor = "BUILDING_ADMIN" =>
       row.role \in Managed /\ (c.role # Untouched => c.role \in Managed)
  /\ c.actor = "SELF" =>
       /\ row.role = "BUILDING_ADMIN" => ~AccessChange(c)
       /\ row.role # "OPERATOR"
       /\ c.active # FALSE /\ c.role \in {Untouched, row.role}

\* PATCH /users/{id}.
UpdateUser(r) ==
  \E u \in People, c \in Changes :
    /\ accounts[u].exists
    /\ AccessChange(c) /\ MayUpdate(c, accounts[u])
    /\ LoadAccount(r, u, "update", c)

Column(value, loaded, committed) ==
  IF value = Untouched THEN committed ELSE Dirty(value, loaded, committed)

Updated(row, old, c) ==
  [row EXCEPT !.ver = old.ver + 1,
              !.pw = Column(c.pw, Untouched, @),
              !.must = IF c.pw = Untouched THEN @ ELSE Column(TRUE, old.must, @),
              !.active = Column(c.active, old.active, @),
              !.role = Column(c.role, old.role, @)]

SaveUser(r) ==
  LET u == acOf[r]
  IN /\ acPc[r] = "update"
     /\ Commit(r, u, Updated(accounts[u], loadedAs[r], acArg[r]))
     /\ undone' = IF loadedAs[r].ver = accounts[u].ver THEN undone ELSE undone \cup {u}
-----------------------------------------------------------------------------
NewAccount == [exists |-> FALSE, pw |-> CHOOSE p \in Passwords : TRUE, ver |-> 0,
               active |-> FALSE, must |-> FALSE, role |-> "OPERATOR"]

AcInit ==
  /\ accounts = [u \in People |-> NewAccount]
  /\ issued = [t \in TokenIds |-> NoVersion]
  /\ holderOf \in [TokenIds -> {CHOOSE u \in People : TRUE}]
  /\ revoked = {} /\ undone = {}
  /\ acPc = [r \in Slots |-> "idle"]
  /\ acOf \in [Slots -> {CHOOSE u \in People : TRUE}]
  /\ loadedAs = [r \in Slots |-> NewAccount]
  /\ acArg = [r \in Slots |-> NoChange]

AcNext ==
  \E r \in Slots :
    \/ CreateUser(r) \/ SaveNewUser(r)
    \/ Login(r) \/ CommitLogin(r) \/ IssueToken(r)
    \/ Logout(r) \/ ForceLogout(r) \/ Revoke(r)
    \/ ChangePassword(r) \/ SavePassword(r)
    \/ UpdateUser(r) \/ SaveUser(r)
    \/ RequestLost(r)

AcSpec == AcInit /\ [][AcNext]_acVars
-----------------------------------------------------------------------------
(* Properties.                                                             *)

\* Types of the variables.
AcTypeOK ==
  /\ accounts \in [People -> Account]
  /\ issued \in [TokenIds -> Nat \cup {NoVersion}] /\ holderOf \in [TokenIds -> People]
  /\ revoked \subseteq TokenIds /\ undone \subseteq People
  /\ acPc \in [Slots -> AcPlaces] /\ acOf \in [Slots -> People]
  /\ loadedAs \in [Slots -> Account] /\ acArg \in [Slots -> Change]

\* A token that a logout, a password change or an access change has put an end to is
\* never accepted again (docs/backend-core-phase-3-api.md:28, "access changes revoke
\* tokens"; get_current_user compares versions for equality).
RevokedStaysRevoked == \A t \in revoked : ~Accepted(t)

\* Nothing but an update of its own account that has overwritten a newer version gives a
\* revoked token back: not a login, logout, password change or other update that overlaps
\* the revocation (refresh before the token is made, token_version + 1 in the UPDATE).
RevivedByLostUpdate == \A t \in revoked : Accepted(t) => holderOf[t] \in undone
=============================================================================
