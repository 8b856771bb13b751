-------------------------- MODULE Administration_proofs --------------------------
(***************************************************************************)
(* Proofs about the parts of the administration that share no state with   *)
(* the car park: Accounts, Tenancy, Registry and Tickets, for any number   *)
(* of requests, accounts, tokens, buildings, rows, lanes, devices, reports,*)
(* products, vehicles and offers.                                          *)
(***************************************************************************)
EXTENDS Accounts, Tenancy, Registry, Tickets, FiniteSetTheorems, TLAPS

-----------------------------------------------------------------------------
(* Accounts and tokens (Accounts).                                         *)

\* A token is never ahead of its account, and a revoked one is behind it, unless an update
\* of the account has overwritten a newer version.
TokensAgree ==
  /\ \A t \in TokenIds : issued[t] # NoVersion =>
       /\ accounts[holderOf[t]].exists
       /\ holderOf[t] \notin undone => issued[t] <= accounts[holderOf[t]].ver
  /\ \A t \in revoked :
       /\ issued[t] # NoVersion
       /\ holderOf[t] \notin undone => issued[t] < accounts[holderOf[t]].ver

\* What a request carries and has loaded.
RequestStands(r) ==
  /\ acPc[r] \in {"create", "change"} => acArg[r].pw \in Passwords
  /\ acPc[r] = "create" => acArg[r].role \in Roles /\ acArg[r].active \in BOOLEAN
  /\ acPc[r] \notin {"idle", "create"} => accounts[acOf[r]].exists

\* The inductive invariant.
AccountsAgree == AcTypeOK /\ TokensAgree /\ \A r \in Slots : RequestStands(r)

LEMMA NotVersions ==
  /\ NoVersion \notin Nat /\ Untouched \notin Passwords /\ Untouched \notin BOOLEAN
  /\ Untouched \notin Roles /\ Changes \subseteq Change
BY AccountAssumption DEF AccountAssumption

LEMMA FirstAccountsAgree == AcInit => AccountsAgree
<1> SUFFICES ASSUME AcInit PROVE AccountsAgree
  OBVIOUS
<1>1. /\ (CHOOSE u \in People : TRUE) \in People
      /\ (CHOOSE p \in Passwords : TRUE) \in Passwords
  BY WorkersAssumption, AccountAssumption DEF WorkersAssumption, AccountAssumption
<1>2. NewAccount \in Account
  BY <1>1 DEF NewAccount, Account, Roles
<1>3. NoChange \in Change
  BY DEF NoChange, Change
<1>4. AcTypeOK
  BY <1>1, <1>2, <1>3 DEF AcInit, AcTypeOK, AcPlaces
<1>5. TokensAgree /\ \A r \in Slots : RequestStands(r)
  BY DEF AcInit, TokensAgree, RequestStands
<1> QED
  BY <1>4, <1>5 DEF AccountsAgree

\* A request loads an account.
LEMMA Loaded ==
  ASSUME AccountsAgree, NEW r \in Slots, NEW u \in People, NEW arg \in Change,
         NEW place \in AcPlaces \ {"idle", "issue"}, LoadAccount(r, u, place, arg),
         place \in {"create", "change"} => arg.pw \in Passwords,
         place = "create" => arg.role \in Roles /\ arg.active \in BOOLEAN,
         place # "create" => accounts[u].exists
  PROVE  AccountsAgree'
<1>1. /\ acPc[r] = "idle" /\ UNCHANGED acTables
      /\ acPc' = [acPc EXCEPT ![r] = place] /\ acOf' = [acOf EXCEPT ![r] = u]
      /\ loadedAs' = [loadedAs EXCEPT ![r] = accounts[u]] /\ acArg' = [acArg EXCEPT ![r] = arg]
  BY DEF LoadAccount
<1>2. AcTypeOK'
  BY <1>1 DEF AccountsAgree, AcTypeOK, acTables
<1>3. TokensAgree'
  BY <1>1 DEF AccountsAgree, TokensAgree, acTables
<1>4. /\ acPc'[r] = place /\ acOf'[r] = u /\ loadedAs'[r] = accounts[u] /\ acArg'[r] = arg
      /\ \A q \in Slots \ {r} : /\ acPc'[q] = acPc[q] /\ acOf'[q] = acOf[q]
                                /\ loadedAs'[q] = loadedAs[q] /\ acArg'[q] = acArg[q]
  BY <1>1 DEF AccountsAgree, AcTypeOK
<1>5. ASSUME NEW q \in Slots PROVE RequestStands(q)'
  <2>1. CASE q = r
    BY <1>1, <1>4, <2>1 DEF RequestStands, acTables
  <2>2. CASE q # r
    <3>1. RequestStands(q)
      BY DEF AccountsAgree
    <3> QED
      BY <1>1, <1>4, <2>2, <3>1 DEF RequestStands, acTables
  <2> QED
    BY <2>1, <2>2
<1> QED
  BY <1>2, <1>3, <1>5 DEF AccountsAgree

\* What the end of a request leaves.
LEMMA RequestEnded ==
  ASSUME AcTypeOK, NEW r \in Slots, EndRequest(r)
  PROVE  /\ acPc' \in [Slots -> AcPlaces] /\ acArg' \in [Slots -> Change]
         /\ acPc'[r] = "idle" /\ UNCHANGED <<acOf, loadedAs>>
         /\ \A q \in Slots \ {r} : acPc'[q] = acPc[q] /\ acArg'[q] = acArg[q]
<1>1. NoChange \in Change
  BY DEF NoChange, Change
<1> QED
  BY <1>1 DEF EndRequest, AcTypeOK, AcPlaces

\* A write to an account keeps what other requests rely on.
LEMMA AccountWritten ==
  ASSUME AccountsAgree, NEW r \in Slots, acPc[r] # "idle", NEW row \in Account, row.exists,
         accounts' = [accounts EXCEPT ![acOf[r]] = row], EndRequest(r)
  PROVE  /\ accounts' \in [People -> Account]
         /\ \A u \in People \ {acOf[r]} : accounts'[u] = accounts[u]
         /\ accounts'[acOf[r]] = row
         /\ \A q \in Slots : RequestStands(q)'
<1>1. acOf[r] \in People
  BY DEF AccountsAgree, AcTypeOK
<1>2. /\ accounts' \in [People -> Account] /\ accounts'[acOf[r]] = row
      /\ \A u \in People \ {acOf[r]} : accounts'[u] = accounts[u]
  BY <1>1 DEF AccountsAgree, AcTypeOK
<1>3. /\ acPc'[r] = "idle" /\ UNCHANGED <<acOf, loadedAs>>
      /\ \A q \in Slots \ {r} : acPc'[q] = acPc[q] /\ acArg'[q] = acArg[q]
  BY RequestEnded DEF AccountsAgree
<1>4. ASSUME NEW q \in Slots PROVE RequestStands(q)'
  <2>1. CASE q = r
    BY <1>3, <2>1 DEF RequestStands
  <2>2. CASE q # r
    <3>1. RequestStands(q) /\ acOf[q] \in People
      BY DEF AccountsAgree, AcTypeOK
    <3>2. acOf[q] = acOf[r] \/ accounts'[acOf[q]] = accounts[acOf[q]]
      BY <1>2, <3>1
    <3> QED
      BY <1>2, <1>3, <2>2, <3>1, <3>2 DEF RequestStands
  <2> QED
    BY <2>1, <2>2
<1> QED
  BY <1>2, <1>4

\* A committed revocation puts every token of the account behind it, if it counts on from
\* the committed version.
LEMMA Committed ==
  ASSUME AccountsAgree, NEW r \in Slots, acPc[r] # "idle", NEW row \in Account,
         row.exists, Commit(r, acOf[r], row), undone \subseteq undone', undone' \subseteq People,
         acOf[r] \notin undone' => row.ver = accounts[acOf[r]].ver + 1
  PROVE  AccountsAgree'
<1> DEFINE u == acOf[r]
<1>1. /\ accounts' = [accounts EXCEPT ![u] = row] /\ EndRequest(r)
      /\ revoked' = revoked \cup TokensOf(u) /\ UNCHANGED <<issued, holderOf>>
  BY DEF Commit
<1>2. /\ accounts' \in [People -> Account] /\ accounts'[u] = row
      /\ \A p \in People \ {u} : accounts'[p] = accounts[p]
      /\ \A q \in Slots : RequestStands(q)'
  BY <1>1, AccountWritten
<1>3. AcTypeOK'
  BY <1>1, <1>2, RequestEnded DEF AccountsAgree, AcTypeOK, TokensOf
<1>4. \A p \in People : /\ accounts[p].ver \in Nat /\ accounts'[p].ver \in Nat
                        /\ p \notin undone' => accounts[p].ver <= accounts'[p].ver
                        /\ accounts[p].exists => accounts'[p].exists
  BY <1>2 DEF AccountsAgree, AcTypeOK, Account
<1>5. ASSUME NEW t \in TokenIds, issued[t] # NoVersion
      PROVE  /\ accounts'[holderOf[t]].exists
             /\ holderOf[t] \notin undone' => issued[t] <= accounts'[holderOf[t]].ver
  <2>1. /\ holderOf[t] \in People /\ issued[t] \in Nat /\ accounts[holderOf[t]].exists
        /\ holderOf[t] \notin undone => issued[t] <= accounts[holderOf[t]].ver
    BY <1>5 DEF AccountsAgree, AcTypeOK, TokensAgree
  <2> QED
    BY <1>4, <2>1
<1>6. ASSUME NEW t \in revoked'
      PROVE  /\ issued[t] # NoVersion
             /\ holderOf[t] \notin undone' => issued[t] < accounts'[holderOf[t]].ver
  <2>1. CASE t \in revoked
    <3>1. /\ holderOf[t] \in People /\ issued[t] # NoVersion /\ issued[t] \in Nat
          /\ holderOf[t] \notin undone => issued[t] < accounts[holderOf[t]].ver
      BY <2>1 DEF AccountsAgree, AcTypeOK, TokensAgree
    <3> QED
      BY <1>4, <3>1
  <2>2. CASE t \in TokensOf(u)
    <3>1. /\ holderOf[t] = u /\ u \in People /\ issued[t] # NoVersion /\ issued[t] \in Nat
          /\ u \notin undone => issued[t] <= accounts[u].ver
      BY <2>2 DEF TokensOf, AccountsAgree, AcTypeOK, TokensAgree
    <3> QED
      BY <1>2, <1>4, <3>1
  <2> QED
    BY <1>1, <2>1, <2>2
<1> QED
  BY <1>1, <1>2, <1>3, <1>5, <1>6 DEF AccountsAgree, TokensAgree

\* A request that ends without a write.
LEMMA Unwritten ==
  ASSUME AccountsAgree, NEW r \in Slots, RefuseRequest(r)
  PROVE  AccountsAgree'
<1>1. EndRequest(r) /\ UNCHANGED acTables
  BY DEF RefuseRequest
<1>2. /\ acPc' \in [Slots -> AcPlaces] /\ acArg' \in [Slots -> Change]
      /\ acPc'[r] = "idle" /\ UNCHANGED <<acOf, loadedAs>>
      /\ \A q \in Slots \ {r} : acPc'[q] = acPc[q] /\ acArg'[q] = acArg[q]
  BY <1>1, RequestEnded DEF AccountsAgree
<1>3. AcTypeOK' /\ TokensAgree'
  BY <1>1, <1>2 DEF AccountsAgree, AcTypeOK, TokensAgree, acTables
<1>4. \A q \in Slots : RequestStands(q)'
  BY <1>1, <1>2 DEF AccountsAgree, RequestStands, acTables
<1> QED
  BY <1>3, <1>4 DEF AccountsAgree

LEMMA Created ==
  ASSUME AccountsAgree, NEW r \in Slots, CreateUser(r) \/ SaveNewUser(r)
  PROVE  AccountsAgree'
<1>1. ASSUME CreateUser(r) PROVE AccountsAgree'
  <2>1. PICK u \in People, p \in Passwords, on \in BOOLEAN, k \in Roles :
          LoadAccount(r, u, "create",
            [actor |-> "SYSTEM_ADMIN", pw |-> p, active |-> on, role |-> k])
    BY <1>1 DEF CreateUser
  <2> DEFINE c == [actor |-> "SYSTEM_ADMIN", pw |-> p, active |-> on, role |-> k]
  <2>2. c \in Change /\ c.pw \in Passwords /\ c.role \in Roles /\ c.active \in BOOLEAN
    BY DEF Change
  <2> QED
    BY <2>1, <2>2, Loaded DEF AcPlaces
<1>2. ASSUME SaveNewUser(r) PROVE AccountsAgree'
  <2> DEFINE u == acOf[r]
             c == acArg[r]
             row == [exists |-> TRUE, pw |-> c.pw, ver |-> 0, active |-> c.active,
                     must |-> c.role = "BUILDING_ADMIN", role |-> c.role]
  <2>1. acPc[r] = "create" /\ u \in People /\ c.pw \in Passwords /\ c.role \in Roles
        /\ c.active \in BOOLEAN
    BY <1>2 DEF SaveNewUser, AccountsAgree, AcTypeOK, RequestStands
  <2>2. CASE accounts[u].exists
    BY <1>2, <2>2, Unwritten DEF SaveNewUser
  <2>3. CASE ~accounts[u].exists
    <3>1. /\ accounts' = [accounts EXCEPT ![u] = row] /\ EndRequest(r)
          /\ UNCHANGED <<issued, holderOf, revoked, undone>>
      BY <1>2, <2>3 DEF SaveNewUser
    <3>2. row \in Account /\ row.exists
      BY <2>1 DEF Account
    <3> HIDE DEF row
    <3>3. /\ accounts' \in [People -> Account]
          /\ \A p \in People \ {u} : accounts'[p] = accounts[p]
          /\ \A q \in Slots : RequestStands(q)'
      BY <2>1, <3>1, <3>2, AccountWritten
    <3>4. AcTypeOK'
      BY <3>1, <3>3, RequestEnded DEF AccountsAgree, AcTypeOK
    <3>5. \A t \in TokenIds : issued[t] # NoVersion => holderOf[t] \in People \ {u}
      BY <2>3 DEF AccountsAgree, AcTypeOK, TokensAgree
    <3>6. TokensAgree'
      BY <3>1, <3>3, <3>5 DEF AccountsAgree, AcTypeOK, TokensAgree
    <3> QED
      BY <3>3, <3>4, <3>6 DEF AccountsAgree
  <2> QED
    BY <2>2, <2>3
<1> QED
  BY <1>1, <1>2

LEMMA LoggedIn ==
  ASSUME AccountsAgree, NEW r \in Slots, Login(r) \/ CommitLogin(r) \/ IssueToken(r)
  PROVE  AccountsAgree'
<1>n. NoChange \in Change
  BY DEF NoChange, Change
<1>1. ASSUME Login(r) PROVE AccountsAgree'
  <2>1. PICK u \in People : accounts[u].exists /\ LoadAccount(r, u, "login", NoChange)
    BY <1>1 DEF Login
  <2> QED
    BY <1>n, <2>1, Loaded DEF AcPlaces
<1>2. ASSUME CommitLogin(r) PROVE AccountsAgree'
  <2>1. /\ acPc[r] = "login" /\ acPc' = [acPc EXCEPT ![r] = "issue"]
        /\ UNCHANGED <<accounts, issued, holderOf, revoked, undone, acOf, loadedAs, acArg>>
    BY <1>2 DEF CommitLogin, acTables, acLocal
  <2>2. AcTypeOK' /\ TokensAgree'
    BY <2>1 DEF AccountsAgree, AcTypeOK, AcPlaces, TokensAgree
  <2>3. acPc'[r] = "issue" /\ \A q \in Slots \ {r} : acPc'[q] = acPc[q]
    BY <2>1 DEF AccountsAgree, AcTypeOK
  <2>4. \A q \in Slots : RequestStands(q)'
    BY <2>1, <2>3 DEF AccountsAgree, RequestStands
  <2> QED
    BY <2>2, <2>4 DEF AccountsAgree
<1>3. ASSUME IssueToken(r) PROVE AccountsAgree'
  <2> DEFINE u == acOf[r]
  <2>1. PICK t \in TokenIds :
          /\ issued[t] = NoVersion
          /\ issued' = [issued EXCEPT ![t] = accounts[u].ver]
          /\ holderOf' = [holderOf EXCEPT ![t] = u]
    BY <1>3 DEF IssueToken
  <2>2. acPc[r] = "issue" /\ EndRequest(r) /\ UNCHANGED <<accounts, revoked, undone>>
    BY <1>3 DEF IssueToken
  <2>3. u \in People /\ accounts[u].exists /\ accounts[u].ver \in Nat
    BY <2>2 DEF AccountsAgree, AcTypeOK, RequestStands, Account
  <2>4. /\ acPc' \in [Slots -> AcPlaces] /\ acArg' \in [Slots -> Change]
        /\ acPc'[r] = "idle" /\ UNCHANGED <<acOf, loadedAs>>
        /\ \A q \in Slots \ {r} : acPc'[q] = acPc[q] /\ acArg'[q] = acArg[q]
    BY <2>2, RequestEnded DEF AccountsAgree
  <2>5. /\ issued' \in [TokenIds -> Nat \cup {NoVersion}] /\ holderOf' \in [TokenIds -> People]
        /\ issued'[t] = accounts[u].ver /\ holderOf'[t] = u
        /\ \A s \in TokenIds \ {t} : issued'[s] = issued[s] /\ holderOf'[s] = holderOf[s]
    BY <2>1, <2>3 DEF AccountsAgree, AcTypeOK
  <2>6. AcTypeOK'
    BY <2>2, <2>4, <2>5 DEF AccountsAgree, AcTypeOK
  <2>7. t \notin revoked
    BY <2>1 DEF AccountsAgree, TokensAgree
  <2>8. TokensAgree'
    BY <2>2, <2>3, <2>5, <2>7 DEF AccountsAgree, AcTypeOK, TokensAgree
  <2>9. \A q \in Slots : RequestStands(q)'
    BY <2>2, <2>4 DEF AccountsAgree, RequestStands
  <2> QED
    BY <2>6, <2>8, <2>9 DEF AccountsAgree
<1> QED
  BY <1>1, <1>2, <1>3

LEMMA Revocations ==
  ASSUME AccountsAgree, NEW r \in Slots, Logout(r) \/ ForceLogout(r) \/ Revoke(r)
  PROVE  AccountsAgree'
<1>n. NoChange \in Change
  BY DEF NoChange, Change
<1>1. ASSUME Logout(r) PROVE AccountsAgree'
  <2>1. PICK t \in TokenIds : Usable(t, TRUE) /\ LoadAccount(r, holderOf[t], "revoke", NoChange)
    BY <1>1 DEF Logout
  <2>2. holderOf[t] \in People /\ accounts[holderOf[t]].exists
    BY <2>1 DEF Usable, Accepted, AccountsAgree, AcTypeOK, TokensAgree
  <2> QED
    BY <1>n, <2>1, <2>2, Loaded DEF AcPlaces
<1>2. ASSUME ForceLogout(r) PROVE AccountsAgree'
  <2>1. PICK u \in People : accounts[u].exists /\ LoadAccount(r, u, "revoke", NoChange)
    BY <1>2 DEF ForceLogout
  <2> QED
    BY <1>n, <2>1, Loaded DEF AcPlaces
<1>3. ASSUME Revoke(r) PROVE AccountsAgree'
  <2> DEFINE u == acOf[r]
             row == [accounts[u] EXCEPT !.ver = RaisedVersion(u)]
  <2>1. acPc[r] = "revoke" /\ Commit(r, u, row) /\ UNCHANGED undone
    BY <1>3 DEF Revoke
  <2>2. accounts[u] \in Account /\ accounts[u].exists
    BY <2>1 DEF AccountsAgree, AcTypeOK, RequestStands
  <2>3. row \in Account /\ row.exists /\ row.ver = accounts[u].ver + 1
    BY <2>2 DEF Account, RaisedVersion
  <2> HIDE DEF row
  <2> QED
    BY <2>1, <2>3, Committed DEF AccountsAgree, AcTypeOK
<1> QED
  BY <1>1, <1>2, <1>3

LEMMA PasswordChanges ==
  ASSUME AccountsAgree, NEW r \in Slots, ChangePassword(r) \/ SavePassword(r)
  PROVE  AccountsAgree'
<1>1. ASSUME ChangePassword(r) PROVE AccountsAgree'
  <2>1. PICK t \in TokenIds, new \in Passwords :
          /\ Usable(t, TRUE)
          /\ LoadAccount(r, holderOf[t], "change", [NoChange EXCEPT !.pw = new])
    BY <1>1 DEF ChangePassword
  <2> DEFINE c == [NoChange EXCEPT !.pw = new]
  <2>2. holderOf[t] \in People /\ accounts[holderOf[t]].exists
    BY <2>1 DEF Usable, Accepted, AccountsAgree, AcTypeOK, TokensAgree
  <2>3. c \in Change /\ c.pw \in Passwords
    BY DEF NoChange, Change
  <2> HIDE DEF c
  <2> QED
    BY <2>1, <2>2, <2>3, Loaded DEF AcPlaces, c
<1>2. ASSUME SavePassword(r) PROVE AccountsAgree'
  <2> DEFINE u == acOf[r]
             row == [accounts[u] EXCEPT !.pw = acArg[r].pw, !.must = @ /\ ~loadedAs[r].must,
                                        !.ver = RaisedVersion(u)]
  <2>1. acPc[r] = "change" /\ Commit(r, u, row) /\ UNCHANGED undone
    BY <1>2 DEF SavePassword
  <2>2. /\ accounts[u] \in Account /\ accounts[u].exists /\ loadedAs[r] \in Account
        /\ acArg[r].pw \in Passwords
    BY <2>1 DEF AccountsAgree, AcTypeOK, RequestStands
  <2> DEFINE old == accounts[u]
             p == acArg[r].pw
             m == old.must /\ ~loadedAs[r].must
             n == RaisedVersion(u)
  <2>3. n \in Nat /\ m \in BOOLEAN /\ old \in Account /\ p \in Passwords
    BY <2>2 DEF Account, RaisedVersion
  <2>4. row = [old EXCEPT !.pw = p, !.must = m, !.ver = n]
    OBVIOUS
  <2>5. row \in Account /\ row.exists = old.exists /\ row.ver = n
    <3> HIDE DEF m, n, p, row, old
    <3> QED
      BY <2>3, <2>4 DEF Account
  <2> HIDE DEF row
  <2> QED
    BY <2>1, <2>2, <2>5, Committed DEF RaisedVersion, AccountsAgree, AcTypeOK
<1> QED
  BY <1>1, <1>2

LEMMA Updates ==
  ASSUME AccountsAgree, NEW r \in Slots, UpdateUser(r) \/ SaveUser(r)
  PROVE  AccountsAgree'
<1>1. ASSUME UpdateUser(r) PROVE AccountsAgree'
  <2>1. PICK u \in People, c \in Changes : accounts[u].exists /\ LoadAccount(r, u, "update", c)
    BY <1>1 DEF UpdateUser
  <2>2. c \in Change
    BY NotVersions
  <2> QED
    BY <2>1, <2>2, Loaded DEF AcPlaces
<1>2. ASSUME SaveUser(r) PROVE AccountsAgree'
  <2> DEFINE u == acOf[r]
             row == Updated(accounts[u], loadedAs[r], acArg[r])
  <2>1. /\ acPc[r] = "update" /\ Commit(r, u, row)
        /\ undone' = IF loadedAs[r].ver = accounts[u].ver THEN undone ELSE undone \cup {u}
    BY <1>2 DEF SaveUser
  <2>2. /\ accounts[u] \in Account /\ accounts[u].exists /\ loadedAs[r] \in Account
        /\ acArg[r] \in Change
    BY <2>1 DEF AccountsAgree, AcTypeOK, RequestStands
  <2> DEFINE old == accounts[u]
             was == loadedAs[r]
             c == acArg[r]
             n == was.ver + 1
             p == Column(c.pw, Untouched, old.pw)
             a == Column(c.active, was.active, old.active)
             k == Column(c.role, was.role, old.role)
             m == IF c.pw = Untouched THEN old.must ELSE Column(TRUE, was.must, old.must)
  <2>3. old \in Account /\ n \in Nat /\ p \in Passwords /\ k \in Roles
    BY <2>2 DEF Column, Dirty, Account, Change
  <2>4. m \in BOOLEAN /\ a \in BOOLEAN
    <3>1. old.must \in BOOLEAN /\ old.active \in BOOLEAN
      BY <2>2 DEF Account
    <3>2. c.active \in BOOLEAN \/ c.active = Untouched
      BY <2>2 DEF Change
    <3> QED
      BY <3>1, <3>2 DEF Column, Dirty
  <2>5. row = [old EXCEPT !.ver = n, !.pw = p, !.must = m, !.active = a, !.role = k]
    BY DEF Updated
  <2>6. row \in Account /\ row.exists = old.exists /\ row.ver = n
    <3> HIDE DEF m, n, p, a, k, row, old
    <3> QED
      BY <2>3, <2>4, <2>5 DEF Account
  <2>7. /\ undone \subseteq undone' /\ undone' \subseteq People
        /\ u \notin undone' => loadedAs[r].ver = accounts[u].ver
    BY <2>1 DEF AccountsAgree, AcTypeOK
  <2> HIDE DEF row
  <2> QED
    BY <2>1, <2>2, <2>6, <2>7, Committed
<1> QED
  BY <1>1, <1>2

LEMMA NextAccountsAgree ==
  ASSUME AccountsAgree, [AcNext]_acVars
  PROVE  AccountsAgree'
<1>1. ASSUME NEW r \in Slots, RequestLost(r) PROVE AccountsAgree'
  BY <1>1, Unwritten DEF RequestLost
<1>2. CASE UNCHANGED acVars
  BY <1>2 DEF acVars, acTables, acLocal, AccountsAgree, AcTypeOK, TokensAgree, RequestStands
<1> QED
  BY <1>1, <1>2, Created, LoggedIn, Revocations, PasswordChanges, Updates DEF AcNext

\* Whatever requests on an account overlap, its revoked tokens stay behind it, unless an
\* update (update()) has overwritten a version that revoke() raised after it had loaded it.
THEOREM RevokedTokensStayBehind == AcSpec => []RevivedByLostUpdate
<1>1. AcInit => AccountsAgree
  BY FirstAccountsAgree
<1>2. AccountsAgree /\ [AcNext]_acVars => AccountsAgree'
  BY NextAccountsAgree
<1>3. ASSUME AccountsAgree PROVE RevivedByLostUpdate
  <2> SUFFICES ASSUME NEW t \in revoked, holderOf[t] \notin undone
               PROVE  issued[t] # accounts[holderOf[t]].ver
    BY DEF RevivedByLostUpdate, Accepted
  <2>1. t \in TokenIds /\ issued[t] # NoVersion /\ issued[t] < accounts[holderOf[t]].ver
    BY <1>3 DEF AccountsAgree, AcTypeOK, TokensAgree
  <2>2. issued[t] \in Nat /\ accounts[holderOf[t]].ver \in Nat
    BY <1>3, <2>1 DEF AccountsAgree, AcTypeOK, Account
  <2> QED
    BY <2>1, <2>2
<1> QED
  BY <1>1, <1>2, <1>3, PTL DEF AcSpec

-----------------------------------------------------------------------------
(* The buildings of a user (Tenancy).                                      *)

Write == [id : OwnedIds \cup {NoRow}, owner : Buildings \cup {NoBuilding},
          ref : OwnedIds \cup {NoRow}, new : BOOLEAN]

TnTypeOK ==
  /\ memberOf \in [Members -> SUBSET Buildings]
  /\ owned \in [OwnedIds -> OwnedRow]
  /\ tnPc \in [Slots -> {"idle", "serving", "flush"}]
  /\ scope \in [Slots -> Buildings \cup {NoBuilding}]
  /\ staged \in [Slots -> Write]

\* Rows that do not exist refer to nothing.
OnlyRowsRefer == \A id \in OwnedIds : Owner(id) = NoBuilding => owned[id].ref = NoRow

\* What a staged write has read holds until its flush, since a row never changes its
\* building: an existing row keeps the building it is written with, and the reference
\* that an unscoped session writes leads into the building of its row.
StagedStands(r) ==
  LET w == staged[r]
  IN tnPc[r] = "flush" =>
       /\ w.id \in OwnedIds
       /\ ~w.new => w.owner = Owner(w.id) /\ w.owner \in Buildings
       /\ scope[r] = NoBuilding /\ w.ref # NoRow =>
            w.owner = Owner(w.ref) /\ w.owner \in Buildings

\* The inductive invariant.
TenancyAgrees ==
  /\ TnTypeOK /\ NoForeignReference /\ OnlyRowsRefer
  /\ \A r \in Slots : StagedStands(r)

LEMMA Distinct == NoBuilding \notin Buildings /\ NoRow \notin OwnedIds
BY TenancyAssumption DEF TenancyAssumption

LEMMA FirstAgrees == TnInit => TenancyAgrees
<1> SUFFICES ASSUME TnInit PROVE TenancyAgrees
  OBVIOUS
<1>1. NoWrite \in Write
  BY DEF NoWrite, Write
<1>2. TnTypeOK
  BY <1>1 DEF TnInit, TnTypeOK, OwnedRow
<1>3. NoForeignReference /\ OnlyRowsRefer
  BY DEF TnInit, NoForeignReference, OnlyRowsRefer, Owner
<1>4. \A r \in Slots : StagedStands(r)
  BY DEF TnInit, StagedStands
<1> QED
  BY <1>2, <1>3, <1>4 DEF TenancyAgrees

\* The write that a flush makes, if it is let through.
Allowed(r, w) ==
  /\ scope[r] = NoBuilding \/ EnforcedWrite(r, w)
  /\ w.new => Owner(w.id) = NoBuilding

\* An allowed write keeps the building of an existing row, and refers into its building.
LEMMA AllowedWrite ==
  ASSUME TenancyAgrees, NEW r \in Slots, tnPc[r] = "flush", Allowed(r, staged[r])
  PROVE  LET w == staged[r]
         IN /\ w.id \in OwnedIds /\ w.ref \in OwnedIds \cup {NoRow}
            /\ FilledOwner(r, w) \in Buildings
            /\ Owner(w.id) \in {NoBuilding, FilledOwner(r, w)}
            /\ w.ref # NoRow => Owner(w.ref) = FilledOwner(r, w)
            /\ scope[r] \in {NoBuilding, FilledOwner(r, w)}
<1> DEFINE w == staged[r]
<1>1. w \in Write /\ scope[r] \in Buildings \cup {NoBuilding} /\ w.id \in OwnedIds
  BY DEF TenancyAgrees, TnTypeOK, StagedStands
<1>2. FilledOwner(r, w) \in Buildings
  BY <1>1, TenancyAssumption DEF FilledOwner, TenancyAssumption, Write
<1>3. Owner(w.id) \in {NoBuilding, FilledOwner(r, w)}
  BY <1>1, Distinct DEF Allowed, TenancyAgrees, StagedStands, FilledOwner
<1>4. w.ref # NoRow => Owner(w.ref) = FilledOwner(r, w)
  BY <1>1, Distinct DEF Allowed, EnforcedWrite, TenancyAgrees, StagedStands, FilledOwner
<1>5. scope[r] \in {NoBuilding, FilledOwner(r, w)}
  BY <1>1 DEF Allowed, EnforcedWrite
<1> QED
  BY <1>1, <1>2, <1>3, <1>4, <1>5 DEF Write

\* What a flush does to the rows.
LEMMA Flushed ==
  ASSUME NEW r \in Slots, FlushRow(r)
  PROVE  LET w == staged[r]
         IN \/ UNCHANGED owned
            \/ /\ Allowed(r, w)
               /\ owned' = [owned EXCEPT ![w.id] = [owner |-> FilledOwner(r, w), ref |-> w.ref]]
BY DEF FlushRow, Allowed

\* A step that moves one slot and no row keeps the invariant if the slot's write stands.
LEMMA StagingKeeps ==
  ASSUME TenancyAgrees, TnTypeOK', UNCHANGED owned, NEW r \in Slots, StagedStands(r)',
         \A q \in Slots \ {r} : tnPc'[q] = tnPc[q] /\ scope'[q] = scope[q] /\ staged'[q] = staged[q]
  PROVE  TenancyAgrees'
<1>1. \A q \in Slots : StagedStands(q)'
  BY DEF TenancyAgrees, StagedStands, Owner
<1> QED
  BY <1>1 DEF TenancyAgrees, NoForeignReference, OnlyRowsRefer, Owner

LEMMA NextAgrees == TenancyAgrees /\ [TnNext]_tnVars => TenancyAgrees'
<1> SUFFICES ASSUME TenancyAgrees, [TnNext]_tnVars PROVE TenancyAgrees'
  OBVIOUS
<1>t. TnTypeOK
  BY DEF TenancyAgrees
<1>n. NoWrite \in Write
  BY DEF NoWrite, Write
<1>1. ASSUME NEW r \in Slots, Authenticate(r) PROVE TenancyAgrees'
  <2>1. TnTypeOK' /\ UNCHANGED owned /\ StagedStands(r)'
    BY <1>1, <1>t DEF Authenticate, TnTypeOK, StagedStands
  <2>2. \A q \in Slots \ {r} : tnPc'[q] = tnPc[q] /\ scope'[q] = scope[q] /\ staged'[q] = staged[q]
    BY <1>1, <1>t DEF Authenticate, TnTypeOK
  <2> QED
    BY <2>1, <2>2, StagingKeeps
<1>2. ASSUME NEW r \in Slots, AddRow(r) PROVE TenancyAgrees'
  <2>1. PICK id \in OwnedIds, b \in Buildings \cup {NoBuilding}, ref \in OwnedIds \cup {NoRow} :
          /\ scope[r] = NoBuilding /\ ref # NoRow => b = Owner(ref) /\ b # NoBuilding
          /\ Stage(r, [id |-> id, owner |-> b, ref |-> ref, new |-> TRUE])
    BY <1>2 DEF AddRow
  <2> DEFINE w == [id |-> id, owner |-> b, ref |-> ref, new |-> TRUE]
  <2>2. w \in Write
    BY DEF Write
  <2>3. TnTypeOK' /\ UNCHANGED owned
    BY <2>1, <2>2, <1>t DEF Stage, TnTypeOK
  <2>4. StagedStands(r)'
    BY <2>1, <1>t DEF Stage, TnTypeOK, StagedStands, Owner
  <2>5. \A q \in Slots \ {r} : tnPc'[q] = tnPc[q] /\ scope'[q] = scope[q] /\ staged'[q] = staged[q]
    BY <2>1, <1>t DEF Stage, TnTypeOK
  <2> QED
    BY <2>3, <2>4, <2>5, StagingKeeps
<1>3. ASSUME NEW r \in Slots, ChangeRow(r) PROVE TenancyAgrees'
  <2>1. PICK id \in OwnedIds, ref \in OwnedIds \cup {NoRow} :
          /\ VisibleTo(r, id)
          /\ scope[r] = NoBuilding => ref = owned[id].ref
          /\ Stage(r, [id |-> id, owner |-> Owner(id), ref |-> ref, new |-> FALSE])
    BY <1>3 DEF ChangeRow
  <2> DEFINE w == [id |-> id, owner |-> Owner(id), ref |-> ref, new |-> FALSE]
  <2>2. Owner(id) \in Buildings
    BY <2>1, <1>t DEF VisibleTo, Owner, TnTypeOK, OwnedRow
  <2>3. w \in Write
    BY <2>2 DEF Write
  <2>4. TnTypeOK' /\ UNCHANGED owned
    BY <2>1, <2>3, <1>t DEF Stage, TnTypeOK
  <2>5. scope[r] = NoBuilding /\ ref # NoRow => Owner(ref) = Owner(id)
    BY <2>1 DEF TenancyAgrees, NoForeignReference
  <2>6. tnPc'[r] = "flush" /\ scope'[r] = scope[r] /\ staged'[r] = w
    BY <2>1, <1>t DEF Stage, TnTypeOK
  <2>7. StagedStands(r)'
    BY <2>2, <2>4, <2>5, <2>6 DEF StagedStands, Owner
  <2>8. \A q \in Slots \ {r} : tnPc'[q] = tnPc[q] /\ scope'[q] = scope[q] /\ staged'[q] = staged[q]
    BY <2>1, <1>t DEF Stage, TnTypeOK
  <2> QED
    BY <2>4, <2>7, <2>8, StagingKeeps
<1>4. ASSUME NEW r \in Slots, FlushRow(r) PROVE TenancyAgrees'
  <2> DEFINE w == staged[r]
             row == [owner |-> FilledOwner(r, w), ref |-> w.ref]
  <2>1. /\ tnPc[r] = "flush" /\ UNCHANGED memberOf
        /\ tnPc' = [tnPc EXCEPT ![r] = "idle"]
        /\ scope' = [scope EXCEPT ![r] = NoBuilding]
        /\ staged' = [staged EXCEPT ![r] = NoWrite]
    BY <1>4 DEF FlushRow, EndTenant
  <2>2. /\ tnPc'[r] = "idle"
        /\ \A q \in Slots \ {r} : tnPc'[q] = tnPc[q] /\ scope'[q] = scope[q] /\ staged'[q] = staged[q]
    BY <2>1, <1>t DEF TnTypeOK
  <2>3. CASE UNCHANGED owned
    <3>1. TnTypeOK' /\ StagedStands(r)'
      BY <2>1, <2>2, <2>3, <1>t, <1>n DEF TnTypeOK, StagedStands
    <3> QED
      BY <3>1, <2>2, <2>3, StagingKeeps
  <2>4. CASE Allowed(r, w) /\ owned' = [owned EXCEPT ![w.id] = row]
    <3>1. /\ w.id \in OwnedIds /\ w.ref \in OwnedIds \cup {NoRow}
          /\ row.owner \in Buildings /\ Owner(w.id) \in {NoBuilding, row.owner}
          /\ w.ref # NoRow => Owner(w.ref) = row.owner
      BY <2>1, <2>4, AllowedWrite
    <3>2. TnTypeOK'
      BY <2>1, <2>4, <3>1, <1>t, <1>n DEF TnTypeOK, OwnedRow
    <3>3. /\ owned'[w.id] = row
          /\ \A id \in OwnedIds \ {w.id} : owned'[id] = owned[id]
      BY <2>4, <3>1, <1>t DEF TnTypeOK
    <3>4. \A id \in OwnedIds :
            owned[id].owner # NoBuilding => owned'[id].owner = owned[id].owner
      BY <3>1, <3>3 DEF Owner
    <3>5. NoForeignReference' /\ OnlyRowsRefer'
      <4> SUFFICES ASSUME NEW id \in OwnedIds
                   PROVE  /\ owned'[id].ref # NoRow =>
                               owned'[owned'[id].ref].owner = owned'[id].owner
                          /\ owned'[id].owner = NoBuilding => owned'[id].ref = NoRow
        BY DEF NoForeignReference, OnlyRowsRefer, Owner
      <4>1. CASE id = w.id
        <5>1. owned'[id].owner = row.owner /\ owned'[id].ref = w.ref
          BY <4>1, <3>3
        <5>2. w.ref # NoRow => owned'[w.ref].owner = row.owner
          BY <3>1, <3>4, Distinct DEF Owner
        <5> QED
          BY <5>1, <5>2, <3>1, Distinct
      <4>2. CASE id # w.id
        <5>1. /\ owned'[id] = owned[id]
              /\ owned[id].owner = NoBuilding => owned[id].ref = NoRow
              /\ owned[id].ref # NoRow => owned[owned[id].ref].owner = owned[id].owner
          BY <4>2, <3>3 DEF TenancyAgrees, OnlyRowsRefer, NoForeignReference, Owner
        <5>2. owned[id].ref \in OwnedIds \cup {NoRow}
          BY <1>t DEF TnTypeOK, OwnedRow
        <5> QED
          BY <5>1, <5>2, <3>4
      <4> QED
        BY <4>1, <4>2
    <3>6. \A q \in Slots : StagedStands(q)'
      <4> TAKE q \in Slots
      <4>1. CASE q = r
        BY <4>1, <2>2 DEF StagedStands
      <4>2. CASE q # r
        <5>1. staged[q] \in Write
          BY <1>t DEF TnTypeOK
        <5>2. StagedStands(q) /\ tnPc'[q] = tnPc[q] /\ scope'[q] = scope[q] /\ staged'[q] = staged[q]
          BY <4>2, <2>2 DEF TenancyAgrees
        <5> QED
          BY <5>1, <5>2, <3>4, Distinct DEF StagedStands, Write, Owner
      <4> QED
        BY <4>1, <4>2
    <3> QED
      BY <3>2, <3>5, <3>6 DEF TenancyAgrees
  <2> QED
    BY <1>4, <2>3, <2>4, Flushed
<1>5. ASSUME NEW r \in Slots, TenantLost(r) PROVE TenancyAgrees'
  <2>1. TnTypeOK' /\ UNCHANGED owned /\ StagedStands(r)'
    BY <1>5, <1>t, <1>n DEF TenantLost, EndTenant, TnTypeOK, StagedStands
  <2>2. \A q \in Slots \ {r} : tnPc'[q] = tnPc[q] /\ scope'[q] = scope[q] /\ staged'[q] = staged[q]
    BY <1>5, <1>t DEF TenantLost, EndTenant, TnTypeOK
  <2> QED
    BY <2>1, <2>2, StagingKeeps
<1>6. ASSUME Reassign PROVE TenancyAgrees'
  BY <1>6 DEF Reassign, TenancyAgrees, TnTypeOK, NoForeignReference, OnlyRowsRefer, StagedStands,
              Owner
<1>7. ASSUME UNCHANGED tnVars PROVE TenancyAgrees'
  BY <1>7 DEF tnVars, TenancyAgrees, TnTypeOK, NoForeignReference, OnlyRowsRefer, StagedStands,
              Owner
<1> QED
  BY <1>1, <1>2, <1>3, <1>4, <1>5, <1>6, <1>7 DEF TnNext

\* Staged writes agree with the rows they were made from, whatever else is committed
\* between staging and flush (TenantSession.get, enforce_building_writes).
THEOREM TenancyAlwaysAgrees == TnSpec => []TenancyAgrees
BY FirstAgrees, NextAgrees, PTL DEF TnSpec

\* No row ever refers to a row of another building (tenant.py:138).
THEOREM ReferencesStayInside == TnSpec => []NoForeignReference
<1>1. TenancyAgrees => NoForeignReference
  BY DEF TenancyAgrees
<1> QED
  BY <1>1, TenancyAlwaysAgrees, PTL

\* Every committed change of a row is made by a request that was resolved to the row's
\* building, or by a system administrator, and moves no row to another building.
THEOREM RowsChangeInTheirBuilding == TnSpec => OnlyOwnRows
<1> DEFINE RowChange ==
      \A id \in OwnedIds : owned'[id] # owned[id] =>
        \E r \in Slots : /\ tnPc[r] = "flush" /\ scope[r] \in {NoBuilding, owned'[id].owner}
                         /\ Owner(id) \in {NoBuilding, owned'[id].owner}
<1>1. ASSUME TenancyAgrees, [TnNext]_tnVars PROVE [RowChange]_tnVars
  <2> SUFFICES ASSUME TnNext, NEW id \in OwnedIds, owned'[id] # owned[id]
               PROVE  \E r \in Slots :
                        /\ tnPc[r] = "flush" /\ scope[r] \in {NoBuilding, owned'[id].owner}
                        /\ Owner(id) \in {NoBuilding, owned'[id].owner}
    BY <1>1
  <2>1. PICK r \in Slots : FlushRow(r)
    BY DEF TnNext, Authenticate, AddRow, ChangeRow, Stage, TenantLost, Reassign
  <2> DEFINE w == staged[r]
             row == [owner |-> FilledOwner(r, w), ref |-> w.ref]
  <2>2. tnPc[r] = "flush" /\ Allowed(r, w) /\ owned' = [owned EXCEPT ![w.id] = row]
    BY <2>1, Flushed DEF FlushRow
  <2>3. Owner(w.id) \in {NoBuilding, row.owner} /\ scope[r] \in {NoBuilding, row.owner}
    BY <1>1, <2>2, AllowedWrite
  <2>4. id = w.id /\ owned'[id] = row
    BY <1>1, <2>2 DEF TenancyAgrees, TnTypeOK
  <2> QED
    BY <2>2, <2>3, <2>4
<1> QED
  BY <1>1, TenancyAlwaysAgrees, PTL DEF TnSpec, OnlyOwnRows

-----------------------------------------------------------------------------
(* Lanes, devices, statistics and error reports (Registry).                *)

Frontend(u) == {e \in OfUser(u) : e.source = "frontend"}
RecentFrontend(u) == {e \in Frontend(u) : e.at >= clock - 1}

RegistryTypes ==
  /\ clock \in Int
  /\ lanes \in [LaneIds -> [name : LaneNames \cup {NoName}, active : BOOLEAN]]
  /\ devices = [c \in Codes |-> devices[c]] /\ \A c \in Codes : devices[c].rows \in Nat
  /\ prefRows \in [People -> Nat] /\ stat.rows \in Nat
  /\ IsFiniteSet(reports) /\ \A e \in reports : e.at \in Int
  /\ userHolder \in [People -> Slots \cup {NoSlot}]
  /\ rgPc \in [Slots -> RgPlaces] /\ rgReq = [r \in Slots |-> rgReq[r]]

\* What a request carries at its place.
Carries(place, q) ==
  /\ place \in {"create", "rename"} => q.name \in LaneNames
  /\ place = "switch" => q.value \in BOOLEAN /\ q.found \in BOOLEAN
  /\ place \in {"report", "dedupe"} => q.user \in People /\ q.at \in Int

\* The report of a request that has been admitted still fits in.
Room(q) ==
  /\ Cardinality(RecentFrontend(q.user)) < ReportRate
  /\ q.name # NoCorrelation => \A e \in Frontend(q.user) : e.corr # q.name

ReportStands(r) ==
  /\ Carries(rgPc[r], rgReq[r])
  /\ rgPc[r] = "dedupe" => userHolder[rgReq[r].user] = r /\ Room(rgReq[r])

\* The inductive invariant.
RegistryAgrees ==
  RegistryTypes /\ OneRowPerKey /\ ReportsLimited /\ \A r \in Slots : ReportStands(r)
-----------------------------------------------------------------------------
(* Reports.                                                                *)

LEMMA FewerReports ==
  ASSUME NEW S, IsFiniteSet(S), NEW T, T \subseteq S
  PROVE  /\ IsFiniteSet(T) /\ Cardinality(S) \in Nat /\ Cardinality(T) \in Nat
         /\ Cardinality(T) <= Cardinality(S)
<1>1. T \in SUBSET S
  OBVIOUS
<1>2. IsFiniteSet(T) /\ Cardinality(T) <= Cardinality(S)
  BY <1>1, FS_Subset
<1> QED
  BY <1>2, FS_CardinalityType

LEMMA OneMoreReport ==
  ASSUME NEW S, IsFiniteSet(S), NEW x, NEW T, T \subseteq S \cup {x}
  PROVE  /\ Cardinality(S) \in Nat /\ Cardinality(T) \in Nat
         /\ Cardinality(T) <= Cardinality(S) + 1
<1>1. /\ IsFiniteSet(S \cup {x})
      /\ Cardinality(S \cup {x}) = IF x \in S THEN Cardinality(S) ELSE Cardinality(S) + 1
  BY FS_AddElement
<1>2. Cardinality(T) \in Nat /\ Cardinality(T) <= Cardinality(S \cup {x})
  BY <1>1, FewerReports
<1> QED
  BY <1>1, <1>2, FS_CardinalityType

LEMMA FrontendIsFinite ==
  ASSUME RegistryTypes, NEW u
  PROVE  IsFiniteSet(RecentFrontend(u))
<1>1. RecentFrontend(u) \subseteq reports
  BY DEF RecentFrontend, Frontend, OfUser
<1> QED
  BY <1>1, FewerReports DEF RegistryTypes

\* ReportsLimited in terms of the sets above.
LEMMA LimitedReports ==
  ReportsLimited <=>
    \A u \in People :
      /\ Cardinality(RecentFrontend(u)) <= ReportRate
      /\ \A e, d \in Frontend(u) : e.corr = d.corr /\ e # d => e.corr = NoCorrelation
BY DEF ReportsLimited, RecentFrontend, Frontend

\* What has room keeps it while the clock goes on and no frontend report is added.
LEMMA RoomStays ==
  ASSUME RegistryTypes, NEW u \in People, clock' \in Int, clock' >= clock,
         Frontend(u)' = Frontend(u)
  PROVE  /\ Cardinality(RecentFrontend(u)') \in Nat /\ Cardinality(RecentFrontend(u)) \in Nat
         /\ Cardinality(RecentFrontend(u)') <= Cardinality(RecentFrontend(u))
<1>1. \A e \in Frontend(u) : e.at \in Int
  BY DEF RegistryTypes, Frontend, OfUser
<1>2. RecentFrontend(u)' \subseteq RecentFrontend(u)
  BY <1>1 DEF RecentFrontend, RegistryTypes
<1> QED
  BY <1>2, FrontendIsFinite, FewerReports

LEMMA LimitStays ==
  ASSUME RegistryTypes, ReportsLimited, clock' \in Int, clock' >= clock,
         \A u \in People : Frontend(u)' = Frontend(u)
  PROVE  ReportsLimited'
<1>1. ASSUME NEW u \in People
      PROVE  /\ Cardinality(RecentFrontend(u)') <= ReportRate
             /\ \A e, d \in Frontend(u)' : e.corr = d.corr /\ e # d => e.corr = NoCorrelation
  <2>1. /\ Cardinality(RecentFrontend(u)) <= ReportRate
        /\ \A e, d \in Frontend(u) : e.corr = d.corr /\ e # d => e.corr = NoCorrelation
    BY LimitedReports
  <2> QED
    BY <2>1, RoomStays, RegistryAssumption DEF RegistryAssumption
<1> QED
  BY <1>1 DEF ReportsLimited, RecentFrontend, Frontend

\* A slot that a step of another one leaves alone stands as before.
LEMMA OthersStand ==
  ASSUME RegistryTypes, NEW q \in Slots, ReportStands(q), rgPc'[q] = rgPc[q], rgReq'[q] = rgReq[q],
         clock' \in Int, clock' >= clock,
         \A u \in People : userHolder[u] = q => userHolder'[u] = q,
         rgPc[q] = "dedupe" => Frontend(rgReq[q].user)' = Frontend(rgReq[q].user)
  PROVE  ReportStands(q)'
<1>1. ASSUME rgPc[q] = "dedupe" PROVE userHolder'[rgReq'[q].user] = q /\ Room(rgReq[q])'
  <2>1. rgReq[q].user \in People /\ userHolder[rgReq[q].user] = q /\ Room(rgReq[q])
    BY <1>1 DEF ReportStands, Carries
  <2>2. /\ Cardinality(RecentFrontend(rgReq[q].user)') \in Nat
        /\ Cardinality(RecentFrontend(rgReq[q].user)) \in Nat
        /\ Cardinality(RecentFrontend(rgReq[q].user)')
             <= Cardinality(RecentFrontend(rgReq[q].user))
    BY <1>1, <2>1, RoomStays
  <2> DEFINE after == Cardinality(RecentFrontend(rgReq[q].user)')
             before == Cardinality(RecentFrontend(rgReq[q].user))
  <2>3. before < ReportRate
    BY <2>1 DEF Room
  <2>4. after < ReportRate
    <3> HIDE DEF after, before
    <3> QED
      BY <2>2, <2>3, RegistryAssumption DEF after, before, RegistryAssumption
  <2> QED
    BY <1>1, <2>1, <2>4 DEF Room
<1> QED
  BY <1>1 DEF ReportStands
-----------------------------------------------------------------------------
(* Requests that begin and end.                                            *)

LEMMA Begun ==
  ASSUME RegistryAgrees, NEW r \in Slots, NEW place \in RgPlaces, place # "dedupe", NEW x,
         Carries(place, x), BeginEntry(r, place, x)
  PROVE  RegistryAgrees'
<1>1. /\ rgPc' = [rgPc EXCEPT ![r] = place] /\ rgReq' = [rgReq EXCEPT ![r] = x]
      /\ UNCHANGED <<clock, rgTables, userHolder>>
  BY DEF BeginEntry
<1>2. RegistryTypes'
  BY <1>1 DEF RegistryAgrees, RegistryTypes, rgTables
<1>3. OneRowPerKey'
  BY <1>1 DEF RegistryAgrees, OneRowPerKey, rgTables
<1>4. clock' \in Int /\ clock' >= clock /\ \A u : Frontend(u)' = Frontend(u)
  BY <1>1 DEF RegistryAgrees, RegistryTypes, Frontend, OfUser, rgTables
<1>5. ReportsLimited'
  BY <1>4, LimitStays DEF RegistryAgrees
<1>6. /\ rgPc'[r] = place /\ rgReq'[r] = x
      /\ \A q \in Slots \ {r} : rgPc'[q] = rgPc[q] /\ rgReq'[q] = rgReq[q]
  BY <1>1 DEF RegistryAgrees, RegistryTypes
<1>7. ASSUME NEW q \in Slots PROVE ReportStands(q)'
  <2>1. CASE q = r
    BY <1>6, <2>1 DEF ReportStands
  <2>2. CASE q # r
    BY <1>1, <1>4, <1>6, <2>2, OthersStand DEF RegistryAgrees
  <2> QED
    BY <2>1, <2>2
<1> QED
  BY <1>2, <1>3, <1>5, <1>7 DEF RegistryAgrees

\* A request that ends leaves the others as they are, unless it adds a frontend report of
\* a user whose row it has not locked.
LEMMA Ended ==
  ASSUME RegistryAgrees, NEW r \in Slots, LeaveRegistry(r),
         \A q \in Slots \ {r} : rgPc[q] = "dedupe" =>
            Frontend(rgReq[q].user)' = Frontend(rgReq[q].user)
  PROVE  /\ clock' = clock /\ clock \in Int
         /\ userHolder' \in [People -> Slots \cup {NoSlot}]
         /\ rgPc' \in [Slots -> RgPlaces] /\ rgReq' = [q \in Slots |-> rgReq'[q]]
         /\ \A q \in Slots : ReportStands(q)'
<1>1. /\ rgPc' = [rgPc EXCEPT ![r] = "idle"] /\ rgReq' = [rgReq EXCEPT ![r] = NoRequest]
      /\ userHolder' = [u \in People |-> IF userHolder[u] = r THEN NoSlot ELSE userHolder[u]]
      /\ UNCHANGED clock
  BY DEF LeaveRegistry
<1>2. /\ clock' = clock /\ clock \in Int
      /\ userHolder' \in [People -> Slots \cup {NoSlot}]
      /\ rgPc' \in [Slots -> RgPlaces] /\ rgReq' = [q \in Slots |-> rgReq'[q]]
  BY <1>1 DEF RegistryAgrees, RegistryTypes, RgPlaces
<1>3. /\ rgPc'[r] = "idle"
      /\ \A q \in Slots \ {r} : rgPc'[q] = rgPc[q] /\ rgReq'[q] = rgReq[q]
  BY <1>1 DEF RegistryAgrees, RegistryTypes
<1>4. ASSUME NEW q \in Slots PROVE ReportStands(q)'
  <2>1. CASE q = r
    BY <1>3, <2>1 DEF ReportStands, Carries
  <2>2. CASE q # r
    <3>1. \A u \in People : userHolder[u] = q => userHolder'[u] = q
      BY <1>1, <2>2
    <3>2. RegistryTypes /\ ReportStands(q) /\ clock' >= clock
      BY <1>2 DEF RegistryAgrees
    <3> QED
      BY <1>2, <1>3, <2>2, <3>1, <3>2, OthersStand
  <2> QED
    BY <2>1, <2>2
<1> QED
  BY <1>2, <1>4

\* A request that ends without a report.
LEMMA EndedElsewhere ==
  ASSUME RegistryAgrees, NEW r \in Slots, LeaveRegistry(r), UNCHANGED reports
  PROVE  /\ clock' = clock /\ clock \in Int
         /\ userHolder' \in [People -> Slots \cup {NoSlot}]
         /\ rgPc' \in [Slots -> RgPlaces] /\ rgReq' = [q \in Slots |-> rgReq'[q]]
         /\ \A q \in Slots : ReportStands(q)'
         /\ ReportsLimited'
<1>1. /\ \A u : Frontend(u)' = Frontend(u)
      /\ \A q \in Slots \ {r} : rgReq'[q] = rgReq[q]
  BY DEF Frontend, OfUser, LeaveRegistry, RegistryAgrees, RegistryTypes
<1> DEFINE Kept(q) == Frontend(rgReq[q].user)' = Frontend(rgReq[q].user)
<1>2. \A q \in Slots \ {r} : rgPc[q] = "dedupe" => Kept(q)
  BY <1>1 DEF Frontend, OfUser
<1>3. /\ clock' = clock /\ clock \in Int
      /\ userHolder' \in [People -> Slots \cup {NoSlot}]
      /\ rgPc' \in [Slots -> RgPlaces] /\ rgReq' = [q \in Slots |-> rgReq'[q]]
      /\ \A q \in Slots : ReportStands(q)'
  BY <1>2, Ended
<1>4. ReportsLimited'
  BY <1>1, <1>3, LimitStays DEF RegistryAgrees
<1> QED
  BY <1>3, <1>4

LEMMA Refused ==
  ASSUME RegistryAgrees, NEW r \in Slots, RefuseEntry(r)
  PROVE  RegistryAgrees'
<1>1. LeaveRegistry(r) /\ UNCHANGED rgTables
  BY DEF RefuseEntry
<1>2. RegistryTypes'
  BY <1>1, EndedElsewhere DEF RegistryAgrees, RegistryTypes, rgTables
<1>3. OneRowPerKey'
  BY <1>1 DEF RegistryAgrees, OneRowPerKey, rgTables
<1> QED
  BY <1>1, <1>2, <1>3, EndedElsewhere DEF RegistryAgrees, rgTables
-----------------------------------------------------------------------------
(* The actions.                                                            *)

LEMMA FirstRegistryAgrees == RgInit => RegistryAgrees
<1> SUFFICES ASSUME RgInit PROVE RegistryAgrees
  OBVIOUS
<1>1. RegistryTypes
  BY FS_EmptySet DEF RgInit, RegistryTypes, NoDevice, RgPlaces
<1>2. OneRowPerKey
  BY DEF RgInit, OneRowPerKey, NoDevice
<1>3. \A u : RecentFrontend(u) = {} /\ Frontend(u) = {}
  BY DEF RgInit, RecentFrontend, Frontend, OfUser
<1>4. ReportsLimited
  BY <1>3, LimitedReports, FS_EmptySet, RegistryAssumption DEF RegistryAssumption
<1>5. \A r \in Slots : ReportStands(r)
  BY DEF RgInit, ReportStands, Carries
<1> QED
  BY <1>1, <1>2, <1>4, <1>5 DEF RegistryAgrees

LEMMA LaneAsked ==
  ASSUME RegistryAgrees, NEW r \in Slots, CreateLane(r) \/ RenameLane(r)
  PROVE  RegistryAgrees'
<1>1. PICK l \in LaneIds, name \in LaneNames, place \in {"create", "rename"} :
        BeginEntry(r, place, RegistryRequest(l, name, NoName, 0, clock))
  BY DEF CreateLane, RenameLane
<1>2. Carries(place, RegistryRequest(l, name, NoName, 0, clock)) /\ place \in RgPlaces
  BY DEF Carries, RegistryRequest, RgPlaces
<1> QED
  BY <1>1, <1>2, Begun

\* A request that has looked a lane up.
SwitchRequest ==
  [id : LaneIds, name : {NoName}, user : {NoName}, value : BOOLEAN, at : Int,
   found : BOOLEAN, read : {NoDevice}]

LEMMA SwitchFound ==
  ASSUME NEW q \in SwitchRequest, NEW f \in BOOLEAN
  PROVE  [q EXCEPT !.found = f] \in SwitchRequest
BY DEF SwitchRequest

LEMMA SwitchAsked ==
  ASSUME RegistryAgrees, NEW r \in Slots, SwitchLane(r)
  PROVE  RegistryAgrees'
<1>1. PICK l \in LaneIds, active \in BOOLEAN :
        BeginEntry(r, "switch", [RegistryRequest(l, NoName, NoName, active, clock) EXCEPT
                                   !.found = lanes[l].active])
  BY DEF SwitchLane
<1> DEFINE q == RegistryRequest(l, NoName, NoName, active, clock)
           x == [q EXCEPT !.found = lanes[l].active]
<1>2. q \in SwitchRequest /\ lanes[l].active \in BOOLEAN
  BY DEF RegistryRequest, SwitchRequest, RegistryAgrees, RegistryTypes
<1> HIDE DEF q
<1>3. x \in SwitchRequest
  BY <1>2, SwitchFound
<1>4. BeginEntry(r, "switch", x)
  BY <1>1 DEF q
<1> HIDE DEF x
<1>5. Carries("switch", x)
  BY <1>3 DEF Carries, SwitchRequest
<1> QED
  BY <1>4, <1>5, Begun DEF RgPlaces

LEMMA LaneWritten ==
  ASSUME RegistryAgrees, NEW r \in Slots, NEW l, NEW lane,
         lane \in [name : LaneNames \cup {NoName}, active : BOOLEAN],
         \A k \in LaneIds \ {l} : lanes[k].name = lane.name => lane.name = NoName,
         WriteLane(r, l, lane)
  PROVE  RegistryAgrees'
<1>1. /\ lanes' = [lanes EXCEPT ![l] = lane] /\ LeaveRegistry(r)
      /\ UNCHANGED <<devices, prefRows, facts, stat, reports>>
  BY DEF WriteLane
<1>2. RegistryTypes'
  BY <1>1, EndedElsewhere DEF RegistryAgrees, RegistryTypes
<1>3. OneRowPerKey'
  BY <1>1 DEF RegistryAgrees, RegistryTypes, OneRowPerKey
<1> QED
  BY <1>1, <1>2, <1>3, EndedElsewhere DEF RegistryAgrees

LEMMA LaneSaved ==
  ASSUME RegistryAgrees, NEW r \in Slots, SaveLane(r)
  PROVE  RegistryAgrees'
<1> DEFINE q == rgReq[r]
           active == IF rgPc[r] = "create" THEN TRUE ELSE lanes[q.id].active
           named == [name |-> q.name, active |-> active]
           old == lanes[q.id]
           switched == [old EXCEPT !.active = Dirty(q.value, q.found, old.active)]
<1>1. Carries(rgPc[r], q)
  BY DEF RegistryAgrees, ReportStands
<1>2. \/ RefuseEntry(r)
      \/ rgPc[r] \in {"create", "rename"} /\ ~NameConflict(q.id, q.name) /\ WriteLane(r, q.id, named)
      \/ rgPc[r] = "switch" /\ WriteLane(r, q.id, switched)
  BY DEF SaveLane
<1>3. CASE RefuseEntry(r)
  BY <1>3, Refused
<1>4. ASSUME q.id \notin LaneIds, NEW lane, WriteLane(r, q.id, lane)
      PROVE  RegistryAgrees'
  <2>1. lanes' = lanes
    BY <1>4 DEF WriteLane, RegistryAgrees, RegistryTypes
  <2> QED
    BY <1>4, <2>1, Refused DEF WriteLane, RefuseEntry, rgTables
<1>5. CASE /\ q.id \in LaneIds /\ rgPc[r] \in {"create", "rename"}
           /\ ~NameConflict(q.id, q.name) /\ WriteLane(r, q.id, named)
  <2>1. named \in [name : LaneNames \cup {NoName}, active : BOOLEAN]
    BY <1>1, <1>5 DEF Carries, RegistryAgrees, RegistryTypes
  <2>2. named.name = q.name
    OBVIOUS
  <2>3. \A k \in LaneIds \ {q.id} : lanes[k].name # q.name
    BY <1>5 DEF NameConflict, Named
  <2> HIDE DEF named
  <2> QED
    BY <1>5, <2>1, <2>2, <2>3, LaneWritten
<1>6. CASE q.id \in LaneIds /\ rgPc[r] = "switch" /\ WriteLane(r, q.id, switched)
  <2>1. old \in [name : LaneNames \cup {NoName}, active : BOOLEAN]
    BY <1>6 DEF RegistryAgrees, RegistryTypes
  <2>2. Dirty(q.value, q.found, old.active) \in BOOLEAN
    BY <1>1, <1>6, <2>1 DEF Carries, Dirty
  <2>3. /\ switched \in [name : LaneNames \cup {NoName}, active : BOOLEAN]
        /\ switched.name = old.name
    <3> HIDE DEF old
    <3> QED
      BY <2>1, <2>2
  <2>4. \A k \in LaneIds \ {q.id} : lanes[k].name = old.name => old.name = NoName
    BY <1>6 DEF RegistryAgrees, OneRowPerKey
  <2> HIDE DEF switched
  <2> QED
    BY <1>6, <2>3, <2>4, LaneWritten
<1> QED
  BY <1>2, <1>3, <1>4, <1>5, <1>6

LEMMA RowAsked ==
  ASSUME RegistryAgrees, NEW r \in Slots, Heartbeat(r) \/ SavePreference(r) \/ Rebuild(r)
  PROVE  RegistryAgrees'
<1>1. \E place \in {"beat", "pref", "stat"} : \E x : BeginEntry(r, place, x)
  <2>1. Heartbeat(r) => \E x : BeginEntry(r, "beat", x)
    BY Zenon DEF Heartbeat
  <2>2. SavePreference(r) => \E x : BeginEntry(r, "pref", x)
    BY Zenon DEF SavePreference
  <2>3. Rebuild(r) => \E x : BeginEntry(r, "stat", x)
    BY Zenon DEF Rebuild
  <2> QED
    BY <2>1, <2>2, <2>3
<1>2. PICK place \in {"beat", "pref", "stat"} : \E x : BeginEntry(r, place, x)
  BY <1>1
<1>3. PICK x : BeginEntry(r, place, x)
  BY <1>2
<1>4. Carries(place, x) /\ place \in RgPlaces
  BY DEF Carries, RgPlaces
<1> QED
  BY <1>3, <1>4, Begun

LEMMA HeartbeatSaved ==
  ASSUME RegistryAgrees, NEW r \in Slots, SaveHeartbeat(r)
  PROVE  RegistryAgrees'
<1> DEFINE q == rgReq[r]
<1>1. CASE RefuseEntry(r)
  BY <1>1, Refused
<1>2. CASE ~RefuseEntry(r)
  <2>1. /\ q.found \/ ~DeviceConflict(q.id)
        /\ devices' = [devices EXCEPT ![q.id] = Beaten(q)] /\ LeaveRegistry(r)
        /\ UNCHANGED <<lanes, prefRows, facts, stat, reports>>
    BY <1>2 DEF SaveHeartbeat
  <2>2. \A c \in Codes : devices'[c] = IF c = q.id THEN Beaten(q) ELSE devices[c]
    BY <2>1 DEF RegistryAgrees, RegistryTypes
  <2>3. ASSUME q.id \in Codes PROVE Beaten(q).rows \in {0, 1}
    <3> DEFINE rows == devices[q.id].rows
    <3>1. rows \in Nat /\ rows <= 1
      BY <2>3 DEF RegistryAgrees, RegistryTypes, OneRowPerKey
    <3>2. rows \in {0, 1}
      <4> HIDE DEF rows
      <4> QED
        BY <3>1
    <3>3. Beaten(q).rows = IF q.found THEN devices[q.id].rows ELSE devices[q.id].rows + 1
      BY DEF Beaten
    <3>4. ~q.found => devices[q.id].rows = 0
      BY <2>1, <3>2 DEF DeviceConflict
    <3> QED
      BY <3>2, <3>3, <3>4
  <2>4. \A c \in Codes : devices'[c].rows \in Nat /\ devices'[c].rows <= 1
    BY <2>2, <2>3 DEF RegistryAgrees, RegistryTypes, OneRowPerKey
  <2>5. devices' = [c \in Codes |-> devices'[c]]
    BY <2>1 DEF RegistryAgrees, RegistryTypes
  <2>6. RegistryTypes'
    BY <2>1, <2>4, <2>5, EndedElsewhere DEF RegistryAgrees, RegistryTypes
  <2>7. OneRowPerKey'
    BY <2>1, <2>4 DEF RegistryAgrees, OneRowPerKey
  <2> QED
    BY <2>1, <2>6, <2>7, EndedElsewhere DEF RegistryAgrees
<1> QED
  BY <1>1, <1>2

LEMMA PreferenceCommitted ==
  ASSUME RegistryAgrees, NEW r \in Slots, CommitPreference(r)
  PROVE  RegistryAgrees'
<1> DEFINE q == rgReq[r]
           n == IF q.found THEN prefRows[q.user] ELSE prefRows[q.user] + 1
<1>1. CASE RefuseEntry(r)
  BY <1>1, Refused
<1>2. CASE ~RefuseEntry(r)
  <2>1. /\ q.found \/ ~(prefRows[q.user] > 0)
        /\ prefRows' = [prefRows EXCEPT ![q.user] = n] /\ LeaveRegistry(r)
        /\ UNCHANGED <<lanes, devices, facts, stat, reports>>
    BY <1>2 DEF CommitPreference
  <2>2. q.user \in People => n \in Nat /\ n <= 1
    BY <2>1 DEF RegistryAgrees, RegistryTypes, OneRowPerKey
  <2>3. prefRows \in [People -> Nat] /\ \A u \in People : prefRows[u] <= 1
    BY DEF RegistryAgrees, RegistryTypes, OneRowPerKey
  <2> HIDE DEF n, q
  <2>4. prefRows' \in [People -> Nat] /\ \A u \in People : prefRows'[u] <= 1
    BY <2>1, <2>2, <2>3
  <2>5. RegistryTypes'
    BY <2>1, <2>4, EndedElsewhere DEF RegistryAgrees, RegistryTypes
  <2>6. OneRowPerKey'
    BY <2>1, <2>4 DEF RegistryAgrees, OneRowPerKey
  <2> QED
    BY <2>1, <2>5, <2>6, EndedElsewhere DEF RegistryAgrees
<1> QED
  BY <1>1, <1>2

LEMMA StatSaved ==
  ASSUME RegistryAgrees, NEW r \in Slots, SaveStat(r)
  PROVE  RegistryAgrees'
<1> DEFINE q == rgReq[r]
<1>1. CASE RefuseEntry(r)
  BY <1>1, Refused
<1>2. CASE ~RefuseEntry(r)
  <2>1. /\ q.found \/ ~(stat.rows > 0)
        /\ stat' = [rows |-> IF q.found THEN stat.rows ELSE stat.rows + 1, entries |-> q.value]
        /\ LeaveRegistry(r) /\ UNCHANGED <<lanes, devices, prefRows, facts, reports>>
    BY <1>2 DEF SaveStat
  <2>2. stat'.rows \in Nat /\ stat'.rows <= 1
    BY <2>1 DEF RegistryAgrees, RegistryTypes, OneRowPerKey
  <2>3. RegistryTypes'
    BY <2>1, <2>2, EndedElsewhere DEF RegistryAgrees, RegistryTypes
  <2>4. OneRowPerKey'
    BY <2>1, <2>2 DEF RegistryAgrees, OneRowPerKey
  <2> QED
    BY <2>1, <2>3, <2>4, EndedElsewhere DEF RegistryAgrees
<1> QED
  BY <1>1, <1>2

LEMMA ReportAsked ==
  ASSUME RegistryAgrees, NEW r \in Slots, ReportError(r)
  PROVE  RegistryAgrees'
<1>1. PICK u \in People, c \in Correlations \cup {NoCorrelation} :
        BeginEntry(r, "report", RegistryRequest(NoName, c, u, 0, clock))
  BY DEF ReportError
<1>2. Carries("report", RegistryRequest(NoName, c, u, 0, clock)) /\ "report" \in RgPlaces
  BY DEF Carries, RegistryRequest, RgPlaces, RegistryAgrees, RegistryTypes
<1> QED
  BY <1>1, <1>2, Begun

\* Below the rate with the reports of all sources, below it with those of the frontend.
LEMMA FrontendBelowRate ==
  ASSUME RegistryTypes, NEW u,
         ~(Cardinality({e \in OfUser(u) : e.at >= clock - 1}) >= ReportRate)
  PROVE  Cardinality(RecentFrontend(u)) < ReportRate
<1> DEFINE S == {e \in OfUser(u) : e.at >= clock - 1}
<1>1. S \subseteq reports /\ RecentFrontend(u) \subseteq S
  BY DEF OfUser, RecentFrontend, Frontend
<1>2. IsFiniteSet(S)
  BY <1>1, FewerReports DEF RegistryTypes
<1>3. /\ Cardinality(S) \in Nat /\ Cardinality(RecentFrontend(u)) \in Nat
      /\ Cardinality(RecentFrontend(u)) <= Cardinality(S)
  BY <1>1, <1>2, FewerReports
<1>4. ~(Cardinality(S) >= ReportRate)
  OBVIOUS
<1> HIDE DEF S
<1> QED
  BY <1>3, <1>4, RegistryAssumption DEF RegistryAssumption

LEMMA ReportAdmitted ==
  ASSUME RegistryAgrees, NEW r \in Slots, AdmitReport(r)
  PROVE  RegistryAgrees'
<1> DEFINE q == rgReq[r]
<1>1. CASE RefuseEntry(r)
  BY <1>1, Refused
<1>2. CASE ~RefuseEntry(r)
  <2>1. /\ rgPc[r] = "report"
        /\ ~(q.name # NoCorrelation
               /\ {e \in OfUser(q.user) : e.corr = q.name /\ e.source = "frontend"} # {})
        /\ ~(Cardinality({e \in OfUser(q.user) : e.at >= clock - 1}) >= ReportRate)
        /\ userHolder[q.user] = NoSlot /\ userHolder' = [userHolder EXCEPT ![q.user] = r]
        /\ rgPc' = [rgPc EXCEPT ![r] = "dedupe"] /\ UNCHANGED <<clock, rgTables, rgReq>>
    BY <1>2 DEF AdmitReport, LockUser
  <2>2. q.user \in People /\ Carries("dedupe", q)
    BY <2>1 DEF RegistryAgrees, ReportStands, Carries
  <2>3. RegistryTypes'
    BY <2>1 DEF RegistryAgrees, RegistryTypes, rgTables, RgPlaces
  <2>4. OneRowPerKey'
    BY <2>1 DEF RegistryAgrees, OneRowPerKey, rgTables
  <2>5. \A u : Frontend(u)' = Frontend(u) /\ RecentFrontend(u)' = RecentFrontend(u)
    BY <2>1 DEF Frontend, RecentFrontend, OfUser, rgTables
  <2>6. clock' \in Int /\ clock' >= clock
    BY <2>1 DEF RegistryAgrees, RegistryTypes
  <2>7. ReportsLimited'
    BY <2>5, <2>6, LimitStays DEF RegistryAgrees
  <2>8. Room(q)
    BY <2>1, FrontendBelowRate DEF Room, Frontend, RegistryAgrees
  <2>9. ASSUME NEW p \in Slots PROVE ReportStands(p)'
    <3>1. CASE p = r
      <4>1. rgPc'[r] = "dedupe" /\ userHolder'[q.user] = r /\ rgReq' = rgReq
        BY <2>1, <2>2 DEF RegistryAgrees, RegistryTypes
      <4>2. Room(q)'
        BY <2>5, <2>8, <4>1 DEF Room
      <4> QED
        BY <2>2, <3>1, <4>1, <4>2 DEF ReportStands, Carries
    <3>2. CASE p # r
      <4>1. \A u \in People : userHolder[u] = p => userHolder'[u] = p
        BY <2>1, <3>2, WorkersAssumption DEF WorkersAssumption, RegistryAgrees, RegistryTypes
      <4>2. rgPc'[p] = rgPc[p] /\ rgReq'[p] = rgReq[p]
        BY <2>1, <3>2 DEF RegistryAgrees, RegistryTypes
      <4> QED
        BY <2>5, <2>6, <4>1, <4>2, OthersStand DEF RegistryAgrees
    <3> QED
      BY <3>1, <3>2
  <2> QED
    BY <2>3, <2>4, <2>7, <2>9 DEF RegistryAgrees
<1> QED
  BY <1>1, <1>2

\* The sets of reports after a new one of `source`.
LEMMA ReportAdded ==
  ASSUME RegistryTypes, NEW v, NEW corr, NEW source, NEW at \in Int,
         reports' = reports \cup {NewReport(v, corr, source, at)}, UNCHANGED clock
  PROVE  LET new == NewReport(v, corr, source, at)
         IN /\ IsFiniteSet(reports') /\ \A e \in reports' : e.at \in Int
            /\ \A u : u # v \/ source # "frontend" => Frontend(u)' = Frontend(u)
            /\ Frontend(v)' \subseteq Frontend(v) \cup {new}
            /\ RecentFrontend(v)' \subseteq RecentFrontend(v) \cup {new}
            /\ new.corr = corr
<1> DEFINE new == NewReport(v, corr, source, at)
<1>1. /\ new.user = v /\ new.corr = corr /\ new.source = source /\ new.at = at
  BY DEF NewReport
<1> HIDE DEF new
<1>2. reports' = reports \cup {new}
  BY DEF new
<1>3. IsFiniteSet(reports')
  BY <1>2, FS_AddElement DEF RegistryTypes
<1>4. \A e \in reports' : e.at \in Int
  BY <1>1, <1>2 DEF RegistryTypes
<1>5. \A u : u # v \/ source # "frontend" => Frontend(u)' = Frontend(u)
  BY <1>1, <1>2 DEF Frontend, OfUser
<1>6. Frontend(v)' \subseteq Frontend(v) \cup {new}
  BY <1>2 DEF Frontend, OfUser
<1>7. RecentFrontend(v)' \subseteq RecentFrontend(v) \cup {new}
  BY <1>6 DEF RecentFrontend
<1> QED
  BY <1>1, <1>3, <1>4, <1>5, <1>6, <1>7 DEF new

LEMMA ReportCommitted ==
  ASSUME RegistryAgrees, NEW r \in Slots, CommitReport(r)
  PROVE  RegistryAgrees'
<1> DEFINE q == rgReq[r]
<1>1. /\ rgPc[r] = "dedupe" /\ LeaveRegistry(r)
      /\ reports' = reports \cup {NewReport(q.user, q.name, "frontend", q.at)}
      /\ UNCHANGED <<lanes, devices, prefRows, facts, stat>>
  BY DEF CommitReport
<1>2. q.user \in People /\ q.at \in Int /\ userHolder[q.user] = r /\ Room(q)
  BY <1>1 DEF RegistryAgrees, ReportStands, Carries
<1>3. UNCHANGED clock
  BY <1>1 DEF LeaveRegistry
<1>4. PICK v, corr, at : v = q.user /\ corr = q.name /\ at = q.at
  OBVIOUS
<1>5. v \in People /\ at \in Int
  BY <1>2, <1>4
<1>6. reports' = reports \cup {NewReport(v, corr, "frontend", at)}
  BY <1>1, <1>4
<1>7. PICK new :
        /\ IsFiniteSet(reports') /\ \A e \in reports' : e.at \in Int
        /\ \A u : u # v => Frontend(u)' = Frontend(u)
        /\ Frontend(v)' \subseteq Frontend(v) \cup {new}
        /\ RecentFrontend(v)' \subseteq RecentFrontend(v) \cup {new}
        /\ new.corr = corr
  BY <1>3, <1>6, <1>5, ReportAdded DEF RegistryAgrees
<1>8. ASSUME NEW p \in Slots \ {r}, rgPc[p] = "dedupe"
      PROVE  Frontend(rgReq[p].user)' = Frontend(rgReq[p].user)
  <2>1. rgReq[p].user # v
    BY <1>2, <1>8, <1>4 DEF RegistryAgrees, ReportStands
  <2>2. rgReq'[p] = rgReq[p]
    BY <1>1 DEF LeaveRegistry, RegistryAgrees, RegistryTypes
  <2> QED
    BY <1>7, <2>1, <2>2 DEF Frontend, OfUser
<1>9. /\ clock' = clock /\ clock \in Int
      /\ userHolder' \in [People -> Slots \cup {NoSlot}]
      /\ rgPc' \in [Slots -> RgPlaces] /\ rgReq' = [p \in Slots |-> rgReq'[p]]
      /\ \A p \in Slots : ReportStands(p)'
  BY <1>1, <1>8, Ended
<1>10. RegistryTypes'
  BY <1>1, <1>7, <1>9 DEF RegistryAgrees, RegistryTypes
<1>11. OneRowPerKey'
  BY <1>1 DEF RegistryAgrees, OneRowPerKey
<1>12. ASSUME NEW u \in People
      PROVE  /\ Cardinality(RecentFrontend(u)') <= ReportRate
             /\ \A e, d \in Frontend(u)' : e.corr = d.corr /\ e # d => e.corr = NoCorrelation
  <2>1. /\ Cardinality(RecentFrontend(u)) <= ReportRate
        /\ \A e, d \in Frontend(u) : e.corr = d.corr /\ e # d => e.corr = NoCorrelation
    BY LimitedReports DEF RegistryAgrees
  <2>2. CASE u # v
    <3>1. Frontend(u)' = Frontend(u) /\ RecentFrontend(u)' = RecentFrontend(u)
      BY <1>3, <1>7, <2>2 DEF RecentFrontend
    <3> QED
      BY <2>1, <3>1
  <2>3. CASE u = v
    <3>1. \A e \in Frontend(u) : corr # NoCorrelation => e.corr # corr
      BY <1>2, <1>4, <2>3 DEF Room
    <3>2. /\ Cardinality(RecentFrontend(u)) \in Nat /\ Cardinality(RecentFrontend(u)') \in Nat
          /\ Cardinality(RecentFrontend(u)') <= Cardinality(RecentFrontend(u)) + 1
      BY <1>7, <2>3, FrontendIsFinite, OneMoreReport DEF RegistryAgrees
    <3> DEFINE before == Cardinality(RecentFrontend(u))
               after == Cardinality(RecentFrontend(u)')
    <3>3. before < ReportRate
      BY <1>2, <1>4, <2>3 DEF Room
    <3>4. after <= ReportRate
      <4> HIDE DEF before, after
      <4> QED
        BY <3>2, <3>3, RegistryAssumption DEF before, after, RegistryAssumption
    <3> QED
      BY <1>7, <2>1, <2>3, <3>1, <3>4
  <2> QED
    BY <2>2, <2>3
<1>13. ReportsLimited'
  BY <1>12 DEF ReportsLimited, RecentFrontend, Frontend
<1> QED
  BY <1>9, <1>10, <1>11, <1>13 DEF RegistryAgrees

\* Steps of no request.
LEMMA OutsideRequests ==
  ASSUME RegistryAgrees, DayGoesOn \/ RecordFailure \/ Tick \/ UNCHANGED rgVars
  PROVE  RegistryAgrees'
<1>1. /\ UNCHANGED <<lanes, devices, prefRows, stat, userHolder, rgPc, rgReq>>
      /\ clock' \in Int /\ clock' >= clock
  BY DEF RegistryAgrees, RegistryTypes, DayGoesOn, RecordFailure, Tick, rgVars, rgTables
<1>2. /\ IsFiniteSet(reports') /\ \A e \in reports' : e.at \in Int
      /\ \A u : Frontend(u)' = Frontend(u)
  <2>1. CASE RecordFailure
    <3>1. PICK u \in People, c \in Correlations :
            reports' = reports \cup {NewReport(u, c, "backend", clock)} /\ UNCHANGED clock
      BY <2>1 DEF RecordFailure
    <3>2. clock \in Int /\ RegistryTypes
      BY DEF RegistryAgrees, RegistryTypes
    <3> QED
      BY <3>1, <3>2, ReportAdded
  <2>2. CASE UNCHANGED reports
    BY <2>2 DEF RegistryAgrees, RegistryTypes, Frontend, OfUser
  <2> QED
    BY <2>1, <2>2 DEF DayGoesOn, Tick, rgVars, rgTables
<1>3. RegistryTypes'
  BY <1>1, <1>2 DEF RegistryAgrees, RegistryTypes
<1>4. OneRowPerKey'
  BY <1>1 DEF RegistryAgrees, OneRowPerKey
<1>5. ReportsLimited'
  BY <1>1, <1>2, LimitStays DEF RegistryAgrees
<1>6. ASSUME NEW q \in Slots PROVE ReportStands(q)'
  BY <1>1, <1>2, OthersStand DEF RegistryAgrees
<1> QED
  BY <1>3, <1>4, <1>5, <1>6 DEF RegistryAgrees
-----------------------------------------------------------------------------
\* Rows stay unique per key, and an admitted report has its user locked and still fits in.
THEOREM RegistryAlwaysAgrees == RgSpec => []RegistryAgrees
<1>1. ASSUME RegistryAgrees, [RgNext]_rgVars PROVE RegistryAgrees'
  <2>1. ASSUME NEW r \in Slots, LaneRequest(r) \/ DeviceRequest(r) \/ ReportRequest(r)
        PROVE  RegistryAgrees'
    BY <1>1, <2>1, LaneAsked, SwitchAsked, LaneSaved, RowAsked, HeartbeatSaved,
       PreferenceCommitted, StatSaved, ReportAsked, ReportAdmitted, ReportCommitted, Refused
       DEF LaneRequest, DeviceRequest, ReportRequest, RegistryLost
  <2> QED
    BY <1>1, <2>1, OutsideRequests DEF RgNext
<1> QED
  BY <1>1, FirstRegistryAgrees, PTL DEF RgSpec

\* Two lanes never have one name, and a device code, a day and a user have at most one row.
THEOREM RowsAreUnique == RgSpec => []OneRowPerKey
<1>1. RegistryAgrees => OneRowPerKey
  BY DEF RegistryAgrees
<1> QED
  BY <1>1, RegistryAlwaysAgrees, PTL

\* Simultaneous reports of a user never pass the limit of a minute together, and a
\* repeated report is stored once.
THEOREM ReportsStayLimited == RgSpec => []ReportsLimited
<1>1. RegistryAgrees => ReportsLimited
  BY DEF RegistryAgrees
<1> QED
  BY <1>1, RegistryAlwaysAgrees, PTL
-----------------------------------------------------------------------------
(* Products, packages and quotas (Tickets).                                *)

LimitValue == Nat \cup {NoLimit}

TicketRequest ==
  [op : {"none", "quota", "sale", "active", "limit"},
   offer : {<<>>} \cup Offers \cup {<<p>> : p \in Products},
   class : Classes \cup {NoClass},
   read : BOOLEAN \cup LimitValue, write : BOOLEAN \cup LimitValue]

PackageRow ==
  [id : Nat, product : Products, vehicle : Vehicles, zone : {"A", "B"}, from : Int, until : Int]

Holding == {"limits", "insert", "quota"}

\* What a request carries at the place it has reached.
Fits(place, q) ==
  /\ place = "waiting" => \/ q.op = "quota" /\ q.class \in Classes /\ q.write \in Nat
                          \/ q.op = "sale" /\ q.offer \in Offers
  /\ place \in {"limits", "insert"} => q.offer \in Offers /\ q.read \in LimitValue
  /\ place = "quota" => q.class \in Classes /\ q.write \in Nat
  /\ place = "product" =>
       /\ q.offer \in {<<p>> : p \in Products}
       /\ \/ q.op = "active" /\ q.read \in BOOLEAN /\ q.write \in BOOLEAN
          \/ q.op = "limit" /\ q.read \in LimitValue /\ q.write \in LimitValue

\* What the checks of a sale have found.
Cleared(q) ==
  LET class == ClassOf[q.offer[2]]
  IN /\ ~Reached(Cardinality(Sold(q.offer[1])), q.read)
     /\ class # NoClass => ~Reached(Cardinality(ActiveOfClass(class)), quota[class])
     /\ \A s \in packages : ~Overlapping(s, q.offer[2], q.offer[3], q.offer[4], q.offer[5])

TicketTypes ==
  /\ today \in Int
  /\ packages \subseteq PackageRow /\ IsFiniteSet(packages)
  /\ offered \in [Products -> [active : BOOLEAN, limit : LimitValue]]
  /\ quota \in [Classes -> LimitValue]
  /\ tkPc \in [Slots -> TkPlaces] /\ tkReq \in [Slots -> TicketRequest]

\* Whoever checks or writes holds the building, and what a sale has found still holds.
SaleStands(r) ==
  /\ tkPc[r] \in Holding => buildingHolder = r
  /\ Fits(tkPc[r], tkReq[r])
  /\ tkPc[r] = "insert" => Cleared(tkReq[r])

\* The inductive invariant.
TicketsAgree == TicketTypes /\ (\A r \in Slots : SaleStands(r)) /\ NoOverlappingPackages
-----------------------------------------------------------------------------
(* Counting.                                                               *)

LEMMA OneMore ==
  ASSUME NEW S, IsFiniteSet(S), NEW x, NEW T, T \subseteq S \cup {x}
  PROVE  /\ Cardinality(S) \in Nat /\ Cardinality(T) \in Nat
         /\ Cardinality(T) <= Cardinality(S) + 1
<1>1. /\ IsFiniteSet(S \cup {x})
      /\ Cardinality(S \cup {x}) = IF x \in S THEN Cardinality(S) ELSE Cardinality(S) + 1
  BY FS_AddElement
<1>2. T \in SUBSET (S \cup {x})
  OBVIOUS
<1>3. IsFiniteSet(T) /\ Cardinality(T) <= Cardinality(S \cup {x})
  BY <1>1, <1>2, FS_Subset
<1>4. Cardinality(S) \in Nat /\ Cardinality(T) \in Nat
  BY <1>3, FS_CardinalityType
<1> QED
  BY <1>1, <1>3, <1>4

LEMMA RoomForOne ==
  ASSUME NEW n \in Nat, NEW m \in Nat, m <= n + 1, NEW limit \in LimitValue, limit # NoLimit,
         ~Reached(n, limit)
  PROVE  m <= limit
BY DEF Reached, LimitValue

\* Fewer active packages leave no less room.
LEMMA QuotaStays ==
  ASSUME NEW S, IsFiniteSet(S), NEW T, T \subseteq S, NEW limit \in LimitValue,
         ~Reached(Cardinality(S), limit)
  PROVE  ~Reached(Cardinality(T), limit)
<1>1. T \in SUBSET S
  OBVIOUS
<1>2. IsFiniteSet(T) /\ Cardinality(T) <= Cardinality(S)
  BY <1>1, FS_Subset
<1>3. Cardinality(S) \in Nat /\ Cardinality(T) \in Nat
  BY <1>2, FS_CardinalityType
<1> QED
  BY <1>2, <1>3 DEF Reached, LimitValue

LEMMA PartsAreFinite ==
  ASSUME TicketTypes
  PROVE  /\ \A p : IsFiniteSet(Sold(p)) /\ Sold(p) \subseteq packages
         /\ \A c : IsFiniteSet(ActiveOfClass(c)) /\ ActiveOfClass(c) \subseteq packages
<1>1. IsFiniteSet(packages)
  BY DEF TicketTypes
<1>2. \A T : T \subseteq packages => IsFiniteSet(T)
  BY <1>1, FS_Subset
<1> QED
  BY <1>2 DEF Sold, ActiveOfClass
-----------------------------------------------------------------------------
(* Requests.                                                               *)

LEMMA OfferParts ==
  ASSUME NEW o \in Offers
  PROVE  /\ o[1] \in Products /\ o[2] \in Vehicles /\ o[3] \in {"A", "B"}
         /\ o[4] \in Int /\ o[5] \in Int /\ o[4] < o[5]
         /\ ClassOf[o[2]] \in Classes \cup {NoClass}
<1>1. o \in Products \X Vehicles \X {"A", "B"} \X (0 .. LastDay) \X (0 .. LastDay) /\ o[4] < o[5]
  BY TicketsAssumption DEF TicketsAssumption
<1>2. ClassOf \in [Products \cup Vehicles -> Classes \cup {NoClass}]
  BY TicketsAssumption DEF TicketsAssumption
<1>3. /\ o[1] \in Products /\ o[2] \in Vehicles /\ o[3] \in {"A", "B"}
      /\ o[4] \in 0 .. LastDay /\ o[5] \in 0 .. LastDay
  BY <1>1
<1> QED
  BY <1>1, <1>2, <1>3

LEMMA NoSaleFits == NoSale \in TicketRequest
BY DEF NoSale, TicketRequest, LimitValue

\* A slot that a step of another one leaves alone stands as before.
LEMMA OtherTicketsStand ==
  ASSUME NEW q \in Slots, SaleStands(q), tkPc'[q] = tkPc[q], tkReq'[q] = tkReq[q],
         buildingHolder = q => buildingHolder' = q,
         tkPc[q] = "insert" => UNCHANGED <<packages, quota, today>>
  PROVE  SaleStands(q)'
<1>1. tkPc[q] = "insert" => Cleared(tkReq[q])'
  BY DEF SaleStands, Cleared, Sold, ActiveOfClass
<1> QED
  BY <1>1 DEF SaleStands

\* A request that ends.
LEMMA RequestLeft ==
  ASSUME TicketsAgree, NEW r \in Slots, LeaveTickets(r)
  PROVE  /\ tkPc' \in [Slots -> TkPlaces] /\ tkReq' \in [Slots -> TicketRequest]
         /\ tkPc'[r] = "idle"
         /\ \A q \in Slots \ {r} : /\ tkPc'[q] = tkPc[q] /\ tkReq'[q] = tkReq[q]
                                   /\ buildingHolder = q => buildingHolder' = q
BY NoSaleFits DEF TicketsAgree, TicketTypes, LeaveTickets, TkPlaces

LEMMA Idle ==
  ASSUME NEW r \in Slots, tkPc'[r] = "idle"
  PROVE  SaleStands(r)'
BY DEF SaleStands, Fits, Holding

\* A request that moves on, or begins, and changes no table.
LEMMA RequestMoved ==
  ASSUME TicketsAgree, NEW r \in Slots, NEW place \in TkPlaces, NEW x \in TicketRequest,
         tkPc' = [tkPc EXCEPT ![r] = place], tkReq' = [tkReq EXCEPT ![r] = x],
         UNCHANGED tkTables, buildingHolder \in {NoSlot, r} \/ UNCHANGED buildingHolder,
         place \in Holding => buildingHolder' = r, Fits(place, x),
         place = "insert" => Cleared(x)
  PROVE  TicketsAgree'
<1>1. TicketTypes'
  BY DEF TicketsAgree, TicketTypes, tkTables
<1>2. NoOverlappingPackages'
  BY DEF TicketsAgree, NoOverlappingPackages, tkTables
<1>3. /\ tkPc'[r] = place /\ tkReq'[r] = x
      /\ \A q \in Slots \ {r} : tkPc'[q] = tkPc[q] /\ tkReq'[q] = tkReq[q]
  BY DEF TicketsAgree, TicketTypes
<1>4. ASSUME NEW q \in Slots PROVE SaleStands(q)'
  <2>1. CASE q = r
    <3>1. place = "insert" => Cleared(x)'
      BY DEF Cleared, Sold, ActiveOfClass, tkTables
    <3> QED
      BY <1>3, <2>1, <3>1 DEF SaleStands
  <2>2. CASE q # r
    <3>1. SaleStands(q) /\ (buildingHolder = q => buildingHolder' = q)
      BY <2>2, WorkersAssumption DEF TicketsAgree, WorkersAssumption
    <3> QED
      BY <1>3, <2>2, <3>1, OtherTicketsStand DEF tkTables
  <2> QED
    BY <2>1, <2>2
<1> QED
  BY <1>1, <1>2, <1>4 DEF TicketsAgree

LEMMA RequestRefused ==
  ASSUME TicketsAgree, NEW r \in Slots, RefuseTicket(r)
  PROVE  TicketsAgree'
<1>1. LeaveTickets(r) /\ UNCHANGED tkTables
  BY DEF RefuseTicket
<1>2. TicketTypes'
  BY <1>1, RequestLeft DEF TicketsAgree, TicketTypes, tkTables
<1>3. NoOverlappingPackages'
  BY <1>1 DEF TicketsAgree, NoOverlappingPackages, tkTables
<1>4. ASSUME NEW q \in Slots PROVE SaleStands(q)'
  <2>1. CASE q = r
    BY <1>1, <2>1, RequestLeft, Idle
  <2>2. CASE q # r
    <3>1. SaleStands(q)
      BY DEF TicketsAgree
    <3> QED
      BY <1>1, <2>2, <3>1, RequestLeft, OtherTicketsStand DEF tkTables
  <2> QED
    BY <2>1, <2>2
<1> QED
  BY <1>2, <1>3, <1>4 DEF TicketsAgree
-----------------------------------------------------------------------------
(* The actions.                                                            *)

LEMMA FirstTicketsAgree == TkInit => TicketsAgree
<1> SUFFICES ASSUME TkInit PROVE TicketsAgree
  OBVIOUS
<1>1. TicketTypes
  BY NoSaleFits, FS_EmptySet DEF TkInit, TicketTypes, TkPlaces, LimitValue
<1>2. \A r \in Slots : SaleStands(r)
  BY DEF TkInit, SaleStands, Fits, Holding
<1>3. NoOverlappingPackages
  BY DEF TkInit, NoOverlappingPackages
<1> QED
  BY <1>1, <1>2, <1>3 DEF TicketsAgree

LEMMA ProductLoaded ==
  ASSUME TicketsAgree, NEW r \in Slots, LoadProduct(r)
  PROVE  TicketsAgree'
<1>1. PICK p \in Products :
        \/ \E on \in BOOLEAN :
             BeginTicket(r, "product", [op |-> "active", offer |-> <<p>>, class |-> NoClass,
                                        read |-> offered[p].active, write |-> on])
        \/ \E n \in Limits :
             BeginTicket(r, "product", [op |-> "limit", offer |-> <<p>>, class |-> NoClass,
                                        read |-> offered[p].limit, write |-> n])
  BY DEF LoadProduct
<1>2. /\ offered[p].active \in BOOLEAN /\ offered[p].limit \in LimitValue /\ Limits \subseteq LimitValue
  BY TicketsAssumption DEF TicketsAgree, TicketTypes, TicketsAssumption, LimitValue
<1> DEFINE switch(on) == [op |-> "active", offer |-> <<p>>, class |-> NoClass,
                          read |-> offered[p].active, write |-> on]
           limit(n) == [op |-> "limit", offer |-> <<p>>, class |-> NoClass,
                        read |-> offered[p].limit, write |-> n]
<1>3. ASSUME NEW on \in BOOLEAN, BeginTicket(r, "product", switch(on))
      PROVE  TicketsAgree'
  <2>1. switch(on) \in TicketRequest /\ Fits("product", switch(on))
    BY <1>2 DEF TicketRequest, Fits
  <2> HIDE DEF switch
  <2> QED
    BY <1>3, <2>1, RequestMoved DEF BeginTicket, TkPlaces, Holding
<1>4. ASSUME NEW n \in Limits, BeginTicket(r, "product", limit(n))
      PROVE  TicketsAgree'
  <2>1. limit(n) \in TicketRequest /\ Fits("product", limit(n))
    BY <1>2 DEF TicketRequest, Fits
  <2> HIDE DEF limit
  <2> QED
    BY <1>4, <2>1, RequestMoved DEF BeginTicket, TkPlaces, Holding
<1>5. CASE \E on \in BOOLEAN : BeginTicket(r, "product", switch(on))
  <2> HIDE DEF switch
  <2> QED
    BY <1>3, <1>5
<1>6. CASE \E n \in Limits : BeginTicket(r, "product", limit(n))
  <2> HIDE DEF limit
  <2> QED
    BY <1>4, <1>6
<1> QED
  BY <1>1, <1>5, <1>6

LEMMA RowOfProduct ==
  ASSUME NEW q, Fits("product", q), NEW row \in [active : BOOLEAN, limit : LimitValue]
  PROVE  ProductAfter(q, row) \in [active : BOOLEAN, limit : LimitValue]
<1>1. CASE q.op = "active"
  <2>1. Dirty(q.write, q.read, row.active) \in BOOLEAN
    BY <1>1 DEF Dirty, Fits
  <2> QED
    BY <1>1, <2>1 DEF ProductAfter
<1>2. CASE q.op # "active"
  <2>1. Dirty(q.write, q.read, row.limit) \in LimitValue
    BY <1>2 DEF Dirty, Fits
  <2> QED
    BY <1>2, <2>1 DEF ProductAfter
<1> QED
  BY <1>1, <1>2

LEMMA ProductUpdated ==
  ASSUME TicketsAgree, NEW r \in Slots, UpdateProduct(r)
  PROVE  TicketsAgree'
<1> DEFINE q == tkReq[r]
           p == q.offer[1]
           row == ProductAfter(q, offered[p])
<1>1. /\ LeaveTickets(r) /\ UNCHANGED <<today, catalogue, quota, packages>>
      /\ offered' = [offered EXCEPT ![p] = row]
      /\ tkPc[r] = "product"
  BY DEF UpdateProduct
<1>2. Fits("product", q)
  BY <1>1 DEF TicketsAgree, SaleStands
<1>3. p \in Products /\ offered[p] \in [active : BOOLEAN, limit : LimitValue]
  BY <1>2 DEF Fits, TicketsAgree, TicketTypes
<1>4. row \in [active : BOOLEAN, limit : LimitValue]
  BY <1>2, <1>3, RowOfProduct
<1> HIDE DEF row
<1>5. offered' \in [Products -> [active : BOOLEAN, limit : LimitValue]]
  BY <1>1, <1>3, <1>4 DEF TicketsAgree, TicketTypes
<1>6. TicketTypes'
  BY <1>1, <1>5, RequestLeft DEF TicketsAgree, TicketTypes
<1>7. NoOverlappingPackages'
  BY <1>1 DEF TicketsAgree, NoOverlappingPackages
<1>8. ASSUME NEW o \in Slots PROVE SaleStands(o)'
  BY <1>1, RequestLeft, Idle, OtherTicketsStand DEF TicketsAgree
<1> QED
  BY <1>6, <1>7, <1>8 DEF TicketsAgree

LEMMA RequestBegun ==
  ASSUME TicketsAgree, NEW r \in Slots, NEW x \in TicketRequest, Fits("waiting", x),
         BeginTicket(r, "waiting", x)
  PROVE  TicketsAgree'
BY RequestMoved DEF BeginTicket, TkPlaces, Holding

LEMMA QuotaBegun ==
  ASSUME TicketsAgree, NEW r \in Slots, BeginQuota(r)
  PROVE  TicketsAgree'
<1> DEFINE x(c, n) == [op |-> "quota", offer |-> <<>>, class |-> c, read |-> NoLimit, write |-> n]
<1>1. PICK c \in Classes, n \in Limits : BeginTicket(r, "waiting", x(c, n))
  BY DEF BeginQuota
<1>2. n \in Nat
  BY TicketsAssumption DEF TicketsAssumption
<1>3. x(c, n) \in TicketRequest /\ Fits("waiting", x(c, n))
  BY <1>2 DEF TicketRequest, Fits, LimitValue
<1> HIDE DEF x
<1> QED
  BY <1>1, <1>3, RequestBegun

LEMMA SaleBegun ==
  ASSUME TicketsAgree, NEW r \in Slots, BeginSale(r)
  PROVE  TicketsAgree'
<1> DEFINE x(o) == [op |-> "sale", offer |-> o, class |-> NoClass, read |-> NoLimit,
                    write |-> NoLimit]
<1>1. PICK o \in Offers : BeginTicket(r, "waiting", x(o))
  BY DEF BeginSale
<1>2. x(o) \in TicketRequest /\ Fits("waiting", x(o))
  BY DEF TicketRequest, Fits, LimitValue
<1> HIDE DEF x
<1> QED
  BY <1>1, <1>2, RequestBegun

\* What a sale reads next to its offer.
LEMMA LimitRead ==
  ASSUME NEW q \in TicketRequest, NEW n \in LimitValue
  PROVE  /\ [q EXCEPT !.read = n] \in TicketRequest
         /\ [q EXCEPT !.read = n].offer = q.offer /\ [q EXCEPT !.read = n].read = n
<1> DEFINE x == [q EXCEPT !.read = n]
<1>1. x = [op |-> q.op, offer |-> q.offer, class |-> q.class, read |-> n, write |-> q.write]
  BY DEF TicketRequest
<1> HIDE DEF x
<1>2. x \in TicketRequest /\ x.offer = q.offer /\ x.read = n
  BY <1>1 DEF TicketRequest
<1> QED
  BY <1>2 DEF x

LEMMA BuildingEntered ==
  ASSUME TicketsAgree, NEW r \in Slots, EnterBuilding(r)
  PROVE  TicketsAgree'
<1> DEFINE q == tkReq[r]
           x == [q EXCEPT !.read = offered[q.offer[1]].limit]
<1>1. /\ tkPc[r] = "waiting" /\ buildingHolder = NoSlot /\ buildingHolder' = r
      /\ IF q.op = "quota" THEN GoOn(r, "quota", q) ELSE GoOn(r, "limits", x)
  BY DEF EnterBuilding, LockBuilding
<1>2. q \in TicketRequest /\ Fits("waiting", q)
  BY <1>1 DEF TicketsAgree, TicketTypes, SaleStands
<1>3. CASE q.op = "quota"
  <2>1. Fits("quota", q)
    BY <1>2, <1>3 DEF Fits
  <2> QED
    BY <1>1, <1>2, <1>3, <2>1, RequestMoved DEF GoOn, TkPlaces, Holding
<1>4. CASE q.op # "quota"
  <2>1. q.offer \in Offers
    BY <1>2, <1>4 DEF Fits
  <2>2. offered[q.offer[1]].limit \in LimitValue
    BY <2>1, OfferParts DEF TicketsAgree, TicketTypes
  <2>3. x \in TicketRequest /\ x.offer = q.offer /\ x.read \in LimitValue
    BY <1>2, <2>2, LimitRead
  <2> HIDE DEF x
  <2>4. Fits("limits", x)
    BY <2>1, <2>3 DEF Fits
  <2> QED
    BY <1>1, <1>4, <2>3, <2>4, RequestMoved DEF GoOn, TkPlaces, Holding
<1> QED
  BY <1>3, <1>4

LEMMA QuotaSet ==
  ASSUME TicketsAgree, NEW r \in Slots, SetQuota(r)
  PROVE  TicketsAgree'
<1> DEFINE q == tkReq[r]
<1>1. tkPc[r] = "quota" /\ Fits("quota", q) /\ buildingHolder = r
  BY DEF SetQuota, TicketsAgree, SaleStands, Holding
<1>2. CASE q.class \in catalogue
  <2>1. /\ quota' = [quota EXCEPT ![q.class] = q.write] /\ LeaveTickets(r)
        /\ UNCHANGED <<today, catalogue, offered, packages>>
    BY <1>2 DEF SetQuota
  <2>2. quota' \in [Classes -> LimitValue]
    BY <1>1, <2>1 DEF Fits, TicketsAgree, TicketTypes, LimitValue
  <2>3. TicketTypes'
    BY <2>1, <2>2, RequestLeft DEF TicketsAgree, TicketTypes
  <2>4. NoOverlappingPackages'
    BY <2>1 DEF TicketsAgree, NoOverlappingPackages
  <2>5. ASSUME NEW o \in Slots PROVE SaleStands(o)'
    <3>1. o # r => tkPc[o] # "insert"
      BY <1>1 DEF TicketsAgree, SaleStands, Holding
    <3> QED
      BY <2>1, <3>1, RequestLeft, Idle, OtherTicketsStand DEF TicketsAgree
  <2> QED
    BY <2>3, <2>4, <2>5 DEF TicketsAgree
<1>3. CASE q.class \notin catalogue
  BY <1>3, RequestRefused DEF SetQuota
<1> QED
  BY <1>2, <1>3

LEMMA LimitsChecked ==
  ASSUME TicketsAgree, NEW r \in Slots, CheckLimits(r)
  PROVE  TicketsAgree'
<1> DEFINE q == tkReq[r]
<1>1. tkPc[r] = "limits" /\ Fits("limits", q) /\ buildingHolder = r /\ q \in TicketRequest
  BY DEF CheckLimits, TicketsAgree, TicketTypes, SaleStands, Holding
<1>2. RefuseTicket(r) \/ (Cleared(q) /\ GoOn(r, "insert", q) /\ UNCHANGED buildingHolder)
  BY DEF CheckLimits, Cleared
<1>3. CASE RefuseTicket(r)
  BY <1>3, RequestRefused
<1>4. CASE Cleared(q) /\ GoOn(r, "insert", q) /\ UNCHANGED buildingHolder
  <2>1. Fits("insert", q)
    BY <1>1 DEF Fits
  <2> QED
    BY <1>1, <1>4, <2>1, RequestMoved DEF GoOn, TkPlaces
<1> QED
  BY <1>2, <1>3, <1>4

\* The package that a sale adds.
NewPackage(r) ==
  LET o == tkReq[r].offer
  IN [id |-> Cardinality(packages), product |-> o[1], vehicle |-> o[2], zone |-> o[3],
      from |-> o[4], until |-> o[5]]

LEMMA PackageAdded ==
  ASSUME TicketsAgree, NEW r \in Slots, CreateSubscription(r)
  PROVE  /\ packages' = packages \cup {NewPackage(r)}
         /\ NewPackage(r) \in PackageRow
         /\ tkReq[r].offer \in Offers /\ tkReq[r].read \in LimitValue
         /\ NewPackage(r).product = tkReq[r].offer[1]
         /\ NewPackage(r).vehicle = tkReq[r].offer[2]
         /\ NewPackage(r).zone = tkReq[r].offer[3]
         /\ NewPackage(r).from = tkReq[r].offer[4]
         /\ NewPackage(r).until = tkReq[r].offer[5]
         /\ tkPc[r] = "insert" /\ Cleared(tkReq[r]) /\ buildingHolder = r
         /\ LeaveTickets(r) /\ UNCHANGED <<today, catalogue, offered, quota>>
<1>1. /\ tkPc[r] = "insert" /\ Cleared(tkReq[r]) /\ buildingHolder = r /\ Fits("insert", tkReq[r])
  BY DEF CreateSubscription, TicketsAgree, SaleStands, Holding
<1>2. tkReq[r].offer \in Offers /\ tkReq[r].read \in LimitValue
  BY <1>1 DEF Fits
<1>3. Cardinality(packages) \in Nat
  BY FS_CardinalityType DEF TicketsAgree, TicketTypes
<1>4. NewPackage(r) \in PackageRow
  BY <1>2, <1>3, OfferParts DEF NewPackage, PackageRow
<1> QED
  BY <1>1, <1>2, <1>4 DEF CreateSubscription, NewPackage

LEMMA SubscriptionCreated ==
  ASSUME TicketsAgree, NEW r \in Slots, CreateSubscription(r)
  PROVE  TicketsAgree'
<1> DEFINE new == NewPackage(r)
<1> USE PackageAdded
<1>1. TicketTypes'
  <2>1. packages' \subseteq PackageRow /\ IsFiniteSet(packages')
    BY FS_AddElement DEF TicketsAgree, TicketTypes
  <2> QED
    BY <2>1, RequestLeft DEF TicketsAgree, TicketTypes
<1>2. \A s \in packages : ~Overlapping(s, new.vehicle, new.zone, new.from, new.until)
  BY DEF Cleared
<1>3. \A s \in packages : ~Overlapping(new, s.vehicle, s.zone, s.from, s.until)
  BY <1>2 DEF Overlapping, TicketsAgree, TicketTypes, PackageRow
<1>4. NoOverlappingPackages'
  BY <1>2, <1>3 DEF TicketsAgree, NoOverlappingPackages
<1>5. ASSUME NEW o \in Slots PROVE SaleStands(o)'
  <2>1. o # r => tkPc[o] # "insert"
    BY DEF TicketsAgree, SaleStands, Holding
  <2> QED
    BY <2>1, RequestLeft, Idle, OtherTicketsStand DEF TicketsAgree
<1> QED
  BY <1>1, <1>4, <1>5 DEF TicketsAgree

LEMMA DayPassed ==
  ASSUME TicketsAgree, NextDay
  PROVE  TicketsAgree'
<1>1. /\ today' = today + 1
      /\ UNCHANGED <<catalogue, offered, quota, packages, buildingHolder, tkPc, tkReq>>
  BY DEF NextDay
<1>2. TicketTypes'
  BY <1>1 DEF TicketsAgree, TicketTypes
<1>3. NoOverlappingPackages'
  BY <1>1 DEF TicketsAgree, NoOverlappingPackages
<1>4. ASSUME NEW q \in Slots PROVE SaleStands(q)'
  <2>1. SaleStands(q)
    BY DEF TicketsAgree
  <2>2. ASSUME tkPc[q] = "insert" PROVE Cleared(tkReq[q])'
    <3> DEFINE offer == tkReq[q].offer
               class == ClassOf[offer[2]]
    <3>1. Cleared(tkReq[q]) /\ offer \in Offers
      BY <2>1, <2>2 DEF SaleStands, Fits
    <3>2. class # NoClass => quota[class] \in LimitValue
      BY <3>1, OfferParts DEF TicketsAgree, TicketTypes
    <3>3. ActiveOfClass(class)' \subseteq ActiveOfClass(class)
      BY <1>1 DEF ActiveOfClass, TicketsAgree, TicketTypes, PackageRow
    <3>4. class # NoClass => ~Reached(Cardinality(ActiveOfClass(class)'), quota[class])
      BY <3>1, <3>2, <3>3, QuotaStays, PartsAreFinite DEF Cleared, TicketsAgree
    <3> QED
      BY <1>1, <3>1, <3>4 DEF Cleared, Sold
  <2> QED
    BY <1>1, <2>1, <2>2 DEF SaleStands
<1> QED
  BY <1>2, <1>3, <1>4 DEF TicketsAgree

LEMMA CatalogueGrown ==
  ASSUME TicketsAgree,
         UNCHANGED <<today, offered, quota, packages, buildingHolder, tkPc, tkReq>>
  PROVE  TicketsAgree'
<1>1. TicketTypes' /\ NoOverlappingPackages'
  BY DEF TicketsAgree, TicketTypes, NoOverlappingPackages
<1>2. \A q \in Slots : SaleStands(q)'
  BY OtherTicketsStand DEF TicketsAgree
<1> QED
  BY <1>1, <1>2 DEF TicketsAgree
-----------------------------------------------------------------------------
\* Who checks or writes under the lock of the building holds it, what a sale has checked
\* still holds when it inserts, and packages never overlap.
THEOREM TicketsAlwaysAgree == TkSpec => []TicketsAgree
<1>1. ASSUME TicketsAgree, [TkNext]_tkVars PROVE TicketsAgree'
  <2>1. CASE TkNext
    <3>1. ASSUME NEW r \in Slots,
                 \/ LoadProduct(r) \/ UpdateProduct(r) \/ BeginQuota(r) \/ BeginSale(r)
                 \/ EnterBuilding(r) \/ SetQuota(r) \/ CheckLimits(r) \/ CreateSubscription(r)
                 \/ TicketLost(r)
          PROVE  TicketsAgree'
      BY <1>1, <3>1, ProductLoaded, ProductUpdated, QuotaBegun, SaleBegun, BuildingEntered,
         QuotaSet, LimitsChecked, SubscriptionCreated, RequestRefused DEF TicketLost
    <3>2. CASE \/ CreateCustomerClass \/ CreateTicketProduct \/ CreateVehicle \/ CreateInvite
               \/ ImportVehicles
      BY <1>1, <3>2, CatalogueGrown
         DEF CreateCustomerClass, CreateTicketProduct, CreateVehicle, CreateInvite,
             ImportVehicles, InsertRows
    <3>3. CASE NextDay
      BY <1>1, <3>3, DayPassed
    <3> QED
      BY <2>1, <3>1, <3>2, <3>3 DEF TkNext
  <2>2. CASE UNCHANGED tkVars
    BY <1>1, <2>2, CatalogueGrown DEF tkVars, tkTables
  <2> QED
    BY <1>1, <2>1, <2>2
<1> QED
  BY <1>1, FirstTicketsAgree, PTL DEF TkSpec

\* A vehicle never holds two packages of one zone for the same day.
THEOREM PackagesNeverOverlap == TkSpec => []NoOverlappingPackages
<1>1. TicketsAgree => NoOverlappingPackages
  BY DEF TicketsAgree
<1> QED
  BY <1>1, TicketsAlwaysAgree, PTL

\* Only a sale adds a package.
LEMMA OnlySalesAdd ==
  ASSUME TicketsAgree, [TkNext]_tkVars, NEW s \in packages' \ packages
  PROVE  \E r \in Slots : CreateSubscription(r)
<1>1. packages' # packages
  OBVIOUS
<1>2. ASSUME NEW r \in Slots,
             \/ LoadProduct(r) \/ UpdateProduct(r) \/ BeginQuota(r) \/ BeginSale(r)
             \/ EnterBuilding(r) \/ SetQuota(r) \/ CheckLimits(r) \/ TicketLost(r)
      PROVE  packages' = packages
  BY <1>2 DEF LoadProduct, UpdateProduct, BeginQuota, BeginSale, EnterBuilding, SetQuota,
     CheckLimits, TicketLost, BeginTicket, GoOn, RefuseTicket, tkTables
<1>3. ASSUME \/ CreateCustomerClass \/ CreateTicketProduct \/ CreateVehicle \/ CreateInvite
             \/ ImportVehicles \/ NextDay \/ UNCHANGED tkVars
      PROVE  packages' = packages
  BY <1>3 DEF CreateCustomerClass, CreateTicketProduct, CreateVehicle, CreateInvite,
     ImportVehicles, InsertRows, NextDay, tkVars, tkTables
<1> QED
  BY <1>1, <1>2, <1>3 DEF TkNext

\* A sale stays within the sale limit it has read and the quota in force.
THEOREM SalesStayWithinLimits == TkSpec => SalesWithinLimits
<1>1. ASSUME TicketsAgree, [TkNext]_tkVars, NEW s \in packages' \ packages
      PROVE  LET class == ClassOf[s.vehicle]
             IN /\ \E r \in Slots :
                     /\ tkPc[r] = "insert" /\ tkReq[r].offer[1] = s.product
                     /\ tkReq[r].read # NoLimit => Cardinality(Sold(s.product)') <= tkReq[r].read
                /\ class # NoClass /\ quota[class] # NoLimit =>
                     Cardinality(ActiveOfClass(class)') <= quota[class]
  <2> DEFINE class == ClassOf[s.vehicle]
  <2>1. PICK r \in Slots : CreateSubscription(r)
    BY <1>1, OnlySalesAdd
  <2>2. /\ packages' = packages \cup {s} /\ s.product = tkReq[r].offer[1]
        /\ s.vehicle = tkReq[r].offer[2] /\ tkReq[r].offer \in Offers
        /\ tkReq[r].read \in LimitValue /\ tkPc[r] = "insert" /\ Cleared(tkReq[r])
        /\ today' = today
    BY <1>1, <2>1, PackageAdded
  <2>3. /\ Sold(s.product)' \subseteq Sold(s.product) \cup {s}
        /\ ActiveOfClass(class)' \subseteq ActiveOfClass(class) \cup {s}
    BY <2>2 DEF Sold, ActiveOfClass
  <2>4. IsFiniteSet(Sold(s.product)) /\ IsFiniteSet(ActiveOfClass(class))
    BY <1>1, PartsAreFinite DEF TicketsAgree
  <2>5. ASSUME tkReq[r].read # NoLimit PROVE Cardinality(Sold(s.product)') <= tkReq[r].read
    <3>1. /\ Cardinality(Sold(s.product)) \in Nat /\ Cardinality(Sold(s.product)') \in Nat
          /\ Cardinality(Sold(s.product)') <= Cardinality(Sold(s.product)) + 1
      BY <2>3, <2>4, OneMore
    <3>2. ~Reached(Cardinality(Sold(s.product)), tkReq[r].read)
      BY <2>2 DEF Cleared
    <3> QED
      BY <2>2, <2>5, <3>1, <3>2, RoomForOne
  <2>6. ASSUME class # NoClass, quota[class] # NoLimit
        PROVE  Cardinality(ActiveOfClass(class)') <= quota[class]
    <3>1. /\ Cardinality(ActiveOfClass(class)) \in Nat /\ Cardinality(ActiveOfClass(class)') \in Nat
          /\ Cardinality(ActiveOfClass(class)') <= Cardinality(ActiveOfClass(class)) + 1
      BY <2>3, <2>4, OneMore
    <3>2. ~Reached(Cardinality(ActiveOfClass(class)), quota[class])
      BY <2>2, <2>6 DEF Cleared
    <3>3. quota[class] \in LimitValue
      BY <1>1, <2>2, <2>6, OfferParts DEF TicketsAgree, TicketTypes
    <3> QED
      BY <2>6, <3>1, <3>2, <3>3, RoomForOne
  <2> QED
    BY <2>2, <2>5, <2>6
<1>2. TicketsAgree /\ [TkNext]_tkVars =>
        [\A s \in packages' \ packages :
           LET class == ClassOf[s.vehicle]
           IN /\ \E r \in Slots :
                   /\ tkPc[r] = "insert" /\ tkReq[r].offer[1] = s.product
                   /\ tkReq[r].read # NoLimit => Cardinality(Sold(s.product)') <= tkReq[r].read
              /\ class # NoClass /\ quota[class] # NoLimit =>
                   Cardinality(ActiveOfClass(class)') <= quota[class]]_tkVars
  BY <1>1
<1> QED
  BY <1>2, TicketsAlwaysAgree, PTL DEF TkSpec, SalesWithinLimits
=============================================================================
