--------------------------- MODULE Billing_proofs ---------------------------
(***************************************************************************)
(* Proofs about Billing for any number of requests, sessions, invites and  *)
(* payments.                                                               *)
(***************************************************************************)
EXTENDS Billing, TLAPS

\* The placeholders of rows that do not exist yet are well typed.
LEMMA Placeholders ==
  /\ NoInvoice \in Invoice /\ NoInvoice.status = "NONE"
  /\ NoPayment \in Payment /\ NoPayment.status = "NONE"
<1>1. PICK s \in Sessions, k \in Keys, a \in Amounts : TRUE
  BY BillingAssumption
<1>2. [status |-> "NONE", code |-> NoInvite, total |-> a] \in Invoice
  BY DEF Invoice
<1>3. [status |-> "NONE", session |-> s, key |-> k, method |-> "CASH", report |-> NoReport]
        \in Payment
  BY DEF Payment
<1> QED
  BY <1>2, <1>3 DEF NoInvoice, NoPayment

\* What a slot that ends its request leaves behind.
LEMMA EndType ==
  ASSUME TypeOK, NEW r \in Slots, End(r)
  PROVE  /\ held' \in [Slots -> SUBSET Lockable]
         /\ loop' \in Slots \cup {NoSlot}
         /\ pc' \in [Slots -> Places]
         /\ req' \in [Slots -> InvoiceCreate \cup PaymentCreate \cup CallbackPayload
                                 \cup {NoRequest}]
BY DEF TypeOK, End, LeaveLoop, Goto, Places

\* A slot that ends its request needs no lock and has no check to keep; the
\* other slots keep their locks, their places and their requests.
LEMMA EndKeepsOthers ==
  ASSUME TypeOK, LocksExclude, NEW r \in Slots, End(r)
  PROVE  /\ LocksExclude'
         /\ held'[r] = {} /\ pc'[r] = "idle"
         /\ \A q \in Slots \ {r} : pc'[q] = pc[q] /\ req'[q] = req[q] /\ held'[q] = held[q]
BY DEF TypeOK, LocksExclude, End, Goto

\* A slot that takes a free row leaves the locks exclusive and the others alone.
LEMMA LockKeepsOthers ==
  ASSUME TypeOK, LocksExclude, NEW r \in Slots, NEW x \in Lockable, Free(x, r), Lock(x, r)
  PROVE  /\ LocksExclude'
         /\ held' \in [Slots -> SUBSET Lockable]
         /\ held'[r] = held[r] \cup {x}
         /\ \A q \in Slots \ {r} : held'[q] = held[q]
BY DEF TypeOK, LocksExclude, Free, Lock

\* A step of slot r that leaves the tables alone keeps the invariant if r holds
\* its rows and its checks are true.
LEMMA ReadingKeeps ==
  ASSUME BillingAgrees, NEW r \in Slots, UNCHANGED tables, TypeOK', LocksExclude',
         HoldsItsRows(r)', ChecksHold(r)',
         \A q \in Slots \ {r} : pc'[q] = pc[q] /\ req'[q] = req[q] /\ held'[q] = held[q]
  PROVE  BillingAgrees'
<1>1. Invoiced' = Invoiced /\ Made' = Made /\ \A s : PaymentsOf(s)' = PaymentsOf(s)
  BY DEF tables, Invoiced, Made, PaymentsOf
<1>2. \A q \in Slots : HoldsItsRows(q)' /\ ChecksHold(q)'
  <2> TAKE q \in Slots
  <2>1. CASE q = r
    BY <2>1
  <2>2. CASE q # r
    <3>1. HoldsItsRows(q) /\ ChecksHold(q)
      BY DEF BillingAgrees, LocksCoverChecks
    <3>2. pc'[q] = pc[q] /\ req'[q] = req[q] /\ held'[q] = held[q]
      BY <2>2
    <3> QED
      BY <1>1, <3>1, <3>2 DEF HoldsItsRows, ChecksHold, tables
  <2> QED
    BY <2>1, <2>2
<1>3. TablesFit' /\ PaidInvoiceIsBacked' /\ OnePendingPayment' /\ InviteServesOneInvoice'
  BY <1>1 DEF BillingAgrees, TablesFit, PaidInvoiceIsBacked, OnePendingPayment,
    InviteServesOneInvoice, Received, tables
<1> QED
  BY <1>2, <1>3 DEF BillingAgrees, LocksCoverChecks

\* A request that ends without a write keeps the invariant.
LEMMA EndKeeps ==
  ASSUME BillingAgrees, NEW r \in Slots, End(r), UNCHANGED tables
  PROVE  BillingAgrees'
<1>1. TypeOK /\ LocksExclude
  BY DEF BillingAgrees, LocksCoverChecks
<1>2. TypeOK'
  BY <1>1, EndType DEF TypeOK, tables
<1> QED
  BY <1>1, <1>2, EndKeepsOthers, ReadingKeeps DEF HoldsItsRows, ChecksHold

\* A request that returns or raises with its rows locked keeps the invariant.
LEMMA LeaveLockedKeeps ==
  ASSUME BillingAgrees, NEW r \in Slots, NEW x \in Lockable, Free(x, r), LeaveLocked(r, x)
  PROVE  BillingAgrees'
<1>1. TypeOK /\ LocksExclude
  BY DEF BillingAgrees, LocksCoverChecks
<1>2. LocksExclude' /\ held' \in [Slots -> SUBSET Lockable]
      /\ \A q \in Slots \ {r} : held'[q] = held[q]
  BY <1>1, LockKeepsOthers DEF LeaveLocked
<1>3. pc'[r] = "closing" /\ \A q \in Slots \ {r} : pc'[q] = pc[q] /\ req'[q] = req[q]
  BY <1>1 DEF LeaveLocked, Goto, TypeOK
<1>4. TypeOK'
  BY <1>1, <1>2 DEF TypeOK, LeaveLocked, LeaveLoop, Goto, Places, tables
<1> QED
  BY <1>2, <1>3, <1>4, ReadingKeeps DEF LeaveLocked, HoldsItsRows, ChecksHold

\* A request that locks a row and goes on keeps the invariant if its checks hold.
LEMMA AdvanceKeeps ==
  ASSUME BillingAgrees, NEW r \in Slots, NEW x \in Lockable, NEW place \in Places,
         Free(x, r), Lock(x, r), Goto(r, place), UNCHANGED <<tables, loop, req>>,
         held[r] \cup {x} \subseteq held'[r] => HoldsItsRows(r)', ChecksHold(r)'
  PROVE  BillingAgrees'
<1>1. TypeOK /\ LocksExclude
  BY DEF BillingAgrees, LocksCoverChecks
<1>2. LocksExclude' /\ held' \in [Slots -> SUBSET Lockable] /\ held'[r] = held[r] \cup {x}
      /\ \A q \in Slots \ {r} : held'[q] = held[q]
  BY <1>1, LockKeepsOthers
<1>3. \A q \in Slots \ {r} : pc'[q] = pc[q] /\ req'[q] = req[q]
  BY <1>1 DEF Goto, TypeOK
<1>4. TypeOK'
  BY <1>1, <1>2 DEF TypeOK, Goto, tables
<1> QED
  BY <1>2, <1>3, <1>4, ReadingKeeps

\* The arrival of a request keeps the invariant.
LEMMA ArriveKeeps ==
  ASSUME BillingAgrees, NEW r \in Slots, Arrive(r)
  PROVE  BillingAgrees'
<1>1. TypeOK /\ LocksExclude
  BY DEF BillingAgrees, LocksCoverChecks
<1>2. ASSUME NEW e \in InvoiceCreate \cup PaymentCreate \cup CallbackPayload,
             NEW place \in {"inv_session", "pay_invoice", "cb_payment"},
             Dispatch(r, e, place), loop' \in Slots \cup {NoSlot},
             place = "inv_session" => e \in InvoiceCreate,
             place = "pay_invoice" => e \in PaymentCreate /\ e.session \in Invoiced,
             place = "cb_payment" => e \in CallbackPayload /\ e.payment \in Made
      PROVE  BillingAgrees'
  <2>1. pc'[r] = place /\ req'[r] = e
        /\ \A q \in Slots \ {r} : pc'[q] = pc[q] /\ req'[q] = req[q] /\ held'[q] = held[q]
    BY <1>1, <1>2 DEF Dispatch, Goto, TypeOK
  <2>2. TypeOK' /\ LocksExclude'
    BY <1>1, <1>2 DEF TypeOK, Dispatch, Goto, Places, tables, LocksExclude
  <2>3. HoldsItsRows(r)'
    BY <2>1 DEF HoldsItsRows
  <2>4. Invoiced' = Invoiced /\ Made' = Made
    BY <1>2 DEF Dispatch, tables, Invoiced, Made
  <2>5. ChecksHold(r)'
    BY <1>2, <2>1, <2>4 DEF ChecksHold
  <2> QED
    BY <1>2, <2>1, <2>2, <2>3, <2>5, ReadingKeeps DEF Dispatch
<1>3. CASE \E e \in InvoiceRequests : PostInvoice(r, e)
  BY <1>1, <1>2, <1>3, BillingAssumption DEF PostInvoice, TypeOK
<1>4. CASE \E e \in PaymentRequests : PostPayment(r, e)
  BY <1>1, <1>2, <1>4, BillingAssumption DEF PostPayment, TypeOK
<1>5. CASE \E e \in Callbacks : ProviderCallback(r, e)
  BY <1>1, <1>2, <1>5, BillingAssumption DEF ProviderCallback, TypeOK
<1> QED
  BY <1>3, <1>4, <1>5 DEF Arrive

\* Closing the database session of a request keeps the invariant.
LEMMA CloseKeeps ==
  ASSUME BillingAgrees, NEW r \in Slots, Close(r)
  PROVE  BillingAgrees'
BY EndKeeps DEF Close

\* A lost connection keeps the invariant.
LEMMA ConnectionLostKeeps ==
  ASSUME BillingAgrees, NEW r \in Slots, ConnectionLost(r)
  PROVE  BillingAgrees'
BY EndKeeps DEF ConnectionLost

\* A check-out of the session does not touch the sessions that create_invoice
\* has locked.
LEMMA SessionLeavesKeeps ==
  ASSUME BillingAgrees, NEW s \in Sessions, SessionLeaves(s)
  PROVE  BillingAgrees'
<1>1. Invoiced' = Invoiced /\ Made' = Made /\ \A t : PaymentsOf(t)' = PaymentsOf(t)
  BY DEF SessionLeaves, Invoiced, Made, PaymentsOf
<1>2. TypeOK' /\ LocksExclude'
  BY DEF SessionLeaves, BillingAgrees, LocksCoverChecks, TypeOK, LocksExclude
<1>3. \A q \in Slots : HoldsItsRows(q)' /\ ChecksHold(q)'
  <2> TAKE q \in Slots
  <2>1. HoldsItsRows(q) /\ ChecksHold(q)
    BY DEF BillingAgrees, LocksCoverChecks
  <2>2. HoldsItsRows(q)'
    BY <2>1 DEF HoldsItsRows, SessionLeaves
  <2>3. pc[q] \in {"inv_invite", "inv_write"} => req[q].session # s
    BY <2>1 DEF HoldsItsRows, SessionLeaves
  <2>4. ChecksHold(q)'
    BY <1>1, <2>1, <2>3 DEF ChecksHold, SessionLeaves
  <2> QED
    BY <2>2, <2>4
<1>4. TablesFit' /\ PaidInvoiceIsBacked' /\ OnePendingPayment' /\ InviteServesOneInvoice'
  BY <1>1 DEF BillingAgrees, TablesFit, PaidInvoiceIsBacked, OnePendingPayment,
    InviteServesOneInvoice, Received, SessionLeaves
<1> QED
  BY <1>2, <1>3, <1>4 DEF BillingAgrees, LocksCoverChecks

\* The tables that the checks read are unchanged by a step that only locks.
LEMMA TablesRead ==
  ASSUME UNCHANGED tables
  PROVE  Invoiced' = Invoiced /\ Made' = Made /\ \A s : PaymentsOf(s)' = PaymentsOf(s)
BY DEF tables, Invoiced, Made, PaymentsOf

\* create_invoice's check of the session keeps the invariant.
LEMMA LockSessionKeeps ==
  ASSUME BillingAgrees, NEW r \in Slots, LockSession(r)
  PROVE  BillingAgrees'
<1> DEFINE s == req[r].session
           x == <<"session", s>>
           place == IF req[r].code = NoInvite THEN "inv_write" ELSE "inv_invite"
<1>1. req[r] \in InvoiceCreate
  BY DEF BillingAgrees, ChecksHold, LockSession
<1>2. x \in Lockable
  BY <1>1 DEF InvoiceCreate, Lockable
<1>3. CASE LeaveLocked(r, x)
  BY <1>2, <1>3, LeaveLockedKeeps DEF LockSession
<1>4. CASE s \notin Invoiced /\ s \in parked /\ Lock(x, r) /\ Goto(r, place)
           /\ UNCHANGED <<tables, loop, req>>
  <2>1. pc'[r] = place /\ req'[r] = req[r]
    BY <1>4 DEF BillingAgrees, TypeOK, Goto
  <2>2. held[r] \cup {x} \subseteq held'[r] => HoldsItsRows(r)'
    BY <2>1 DEF HoldsItsRows
  <2>3. req[r].code = NoInvite => req[r].code \notin redeemed
    BY BillingAssumption DEF BillingAgrees, TypeOK
  <2>4. ChecksHold(r)'
    BY <1>1, <1>4, <2>1, <2>3, TablesRead DEF ChecksHold, tables
  <2>5. place \in Places
    BY DEF Places
  <2> QED
    BY <1>2, <1>4, <2>2, <2>4, <2>5, AdvanceKeeps DEF LockSession
<1> QED
  BY <1>3, <1>4 DEF LockSession

\* create_invoice's check of the guest invite keeps the invariant.
LEMMA LockInviteKeeps ==
  ASSUME BillingAgrees, NEW r \in Slots, LockInvite(r)
  PROVE  BillingAgrees'
<1> DEFINE x == <<"invite", req[r].code>>
<1>1. /\ req[r] \in InvoiceCreate /\ req[r].session \in parked \ Invoiced
      /\ req[r].code # NoInvite
      /\ <<"session", req[r].session>> \in held[r]
  BY DEF BillingAgrees, ChecksHold, LocksCoverChecks, HoldsItsRows, LockInvite
<1>2. x \in Lockable
  BY <1>1 DEF InvoiceCreate, Lockable
<1>3. CASE LeaveLocked(r, x)
  BY <1>2, <1>3, LeaveLockedKeeps DEF LockInvite
<1>4. CASE req[r].code \notin redeemed /\ Lock(x, r) /\ Goto(r, "inv_write")
           /\ UNCHANGED <<tables, loop, req>>
  <2>1. pc'[r] = "inv_write" /\ req'[r] = req[r]
    BY <1>4 DEF BillingAgrees, TypeOK, Goto
  <2>2. held[r] \cup {x} \subseteq held'[r] => HoldsItsRows(r)'
    BY <1>1, <2>1 DEF HoldsItsRows
  <2>3. ChecksHold(r)'
    BY <1>1, <1>4, <2>1, TablesRead DEF ChecksHold, tables
  <2>4. "inv_write" \in Places
    BY DEF Places
  <2> QED
    BY <1>2, <1>4, <2>2, <2>3, <2>4, AdvanceKeeps DEF LockInvite
<1> QED
  BY <1>3, <1>4 DEF LockInvite

\* Refusing an invoice after its checks keeps the invariant.
LEMMA RefuseInvoiceKeeps ==
  ASSUME BillingAgrees, NEW r \in Slots, RefuseInvoice(r)
  PROVE  BillingAgrees'
<1> DEFINE x == <<"session", req[r].session>>
<1>1. req[r] \in InvoiceCreate /\ x \in held[r] /\ LocksExclude
  BY DEF BillingAgrees, LocksCoverChecks, HoldsItsRows, ChecksHold, RefuseInvoice
<1>2. x \in Lockable /\ Free(x, r)
  BY <1>1 DEF InvoiceCreate, Lockable, Free, LocksExclude
<1> QED
  BY <1>2, LeaveLockedKeeps DEF RefuseInvoice

\* create_payment's checks of the invoice keep the invariant.
LEMMA LockInvoiceKeeps ==
  ASSUME BillingAgrees, NEW r \in Slots, LockInvoice(r)
  PROVE  BillingAgrees'
<1> DEFINE x == <<"invoice", req[r].session>>
<1>1. req[r] \in PaymentCreate /\ req[r].session \in Invoiced
  BY DEF BillingAgrees, ChecksHold, LockInvoice
<1>2. x \in Lockable
  BY <1>1 DEF PaymentCreate, Lockable
<1>3. CASE LeaveLocked(r, x)
  BY <1>2, <1>3, LeaveLockedKeeps DEF LockInvoice
<1>4. CASE ~NoNewPayment(req[r]) /\ Lock(x, r) /\ Goto(r, "pay_write")
           /\ UNCHANGED <<tables, loop, req>>
  <2>1. pc'[r] = "pay_write" /\ req'[r] = req[r]
    BY <1>4 DEF BillingAgrees, TypeOK, Goto
  <2>2. held[r] \cup {x} \subseteq held'[r] => HoldsItsRows(r)'
    BY <2>1 DEF HoldsItsRows
  <2>3. \A p \in PaymentsOf(req[r].session) : payments[p].status # "PENDING"
    BY <1>4 DEF NoNewPayment
  <2>4. PaymentsOf(req[r].session)' = PaymentsOf(req[r].session)
    BY <1>4, <2>1 DEF PaymentsOf, Made, tables
  <2>5. ChecksHold(r)'
    BY <1>1, <1>4, <2>1, <2>3, <2>4, TablesRead DEF ChecksHold, tables
  <2>6. "pay_write" \in Places
    BY DEF Places
  <2> QED
    BY <1>2, <1>4, <2>2, <2>5, <2>6, AdvanceKeeps DEF LockInvoice
<1> QED
  BY <1>3, <1>4 DEF LockInvoice

\* apply_callback's checks of the payment keep the invariant.
LEMMA LockPaymentKeeps ==
  ASSUME BillingAgrees, NEW r \in Slots, LockPayment(r)
  PROVE  BillingAgrees'
<1> DEFINE p == req[r].payment
           x == <<"payment", p>>
           place == IF payments[p].status = "PAID" THEN "cb_refund" ELSE "cb_settle"
<1>1. req[r] \in CallbackPayload /\ p \in Made
  BY DEF BillingAgrees, ChecksHold, LockPayment
<1>2. x \in Lockable
  BY <1>1 DEF CallbackPayload, Lockable
<1>3. CASE LeaveLocked(r, x)
  BY <1>2, <1>3, LeaveLockedKeeps DEF LockPayment
<1>4. CASE ~NothingToSettle(req[r]) /\ Lock(x, r) /\ Goto(r, place)
           /\ UNCHANGED <<tables, loop, req>>
  <2>1. pc'[r] = place /\ req'[r] = req[r]
    BY <1>4 DEF BillingAgrees, TypeOK, Goto
  <2>2. held[r] \cup {x} \subseteq held'[r] => HoldsItsRows(r)'
    BY <2>1 DEF HoldsItsRows
  <2>3. payments[p].status # "REFUNDED"
    BY <1>4 DEF NothingToSettle
  <2>4. ChecksHold(r)'
    BY <1>1, <1>4, <2>1, <2>3, TablesRead DEF ChecksHold, tables
  <2>5. place \in Places
    BY DEF Places
  <2> QED
    BY <1>2, <1>4, <2>2, <2>4, <2>5, AdvanceKeeps DEF LockPayment
<1> QED
  BY <1>3, <1>4 DEF LockPayment

\* Inserting the invoice and redeeming its invite keeps the invariant.
LEMMA WriteInvoiceKeeps ==
  ASSUME BillingAgrees, NEW r \in Slots, WriteInvoice(r)
  PROVE  BillingAgrees'
<1> DEFINE e == req[r]
<1>1. /\ TypeOK /\ LocksExclude
      /\ \A q \in Slots : HoldsItsRows(q) /\ ChecksHold(q)
  BY DEF BillingAgrees, LocksCoverChecks
<1>2. /\ e \in InvoiceCreate /\ e.session \in Sessions \ Invoiced
      /\ e.code \in (Invites \ redeemed) \cup {NoInvite}
      /\ <<"session", e.session>> \in held[r]
      /\ e.code # NoInvite => <<"invite", e.code>> \in held[r]
  BY <1>1 DEF WriteInvoice, ChecksHold, HoldsItsRows, InvoiceCreate
<1>3. PICK total \in Amounts :
        invoices' = [invoices EXCEPT ![e.session] =
          [status |-> "OPEN", code |-> e.code, total |-> total]]
  BY DEF WriteInvoice
<1>4. /\ invoices'[e.session] = [status |-> "OPEN", code |-> e.code, total |-> total]
      /\ \A s \in Sessions \ {e.session} : invoices'[s] = invoices[s]
  BY <1>1, <1>2, <1>3 DEF TypeOK
<1>5. redeemed' = redeemed \cup ({e.code} \ {NoInvite}) /\ UNCHANGED <<parked, payments>>
      /\ End(r)
  BY DEF WriteInvoice
<1>6. /\ LocksExclude'
      /\ held'[r] = {} /\ pc'[r] = "idle"
      /\ \A q \in Slots \ {r} : pc'[q] = pc[q] /\ req'[q] = req[q] /\ held'[q] = held[q]
  BY <1>1, <1>5, EndKeepsOthers
<1>7. TypeOK'
  <2>1. invoices' \in [Sessions -> Invoice]
    BY <1>1, <1>2, <1>3 DEF TypeOK, Invoice, InvoiceCreate
  <2>2. redeemed' \subseteq Invites
    BY <1>1, <1>2, <1>5 DEF TypeOK
  <2> QED
    BY <1>1, <1>5, <2>1, <2>2, EndType DEF TypeOK
<1>8. Invoiced' = Invoiced \cup {e.session} /\ Made' = Made
      /\ \A s : PaymentsOf(s)' = PaymentsOf(s)
  BY <1>2, <1>4, <1>5 DEF Invoiced, Made, PaymentsOf
<1>9. \A q \in Slots : HoldsItsRows(q)' /\ ChecksHold(q)'
  <2> TAKE q \in Slots
  <2>1. CASE q = r
    BY <1>6, <2>1 DEF HoldsItsRows, ChecksHold
  <2>2. CASE q # r
    <3>1. pc'[q] = pc[q] /\ req'[q] = req[q] /\ held'[q] = held[q]
          /\ held[q] \cap held[r] = {}
      BY <1>1, <1>6, <2>2 DEF LocksExclude
    <3>2. HoldsItsRows(q)'
      BY <1>1, <3>1 DEF HoldsItsRows
    <3>3. pc[q] \in {"inv_invite", "inv_write"} => req[q].session # e.session
      BY <1>1, <1>2, <3>1 DEF HoldsItsRows
    <3>4. pc[q] = "inv_write" => req[q].code \notin redeemed'
      <4>1. CASE pc[q] = "inv_write"
        <5>1. req[q].code \notin redeemed
          BY <1>1, <4>1 DEF ChecksHold
        <5>2. req[q].code # NoInvite => <<"invite", req[q].code>> \in held[q]
          BY <1>1, <4>1 DEF HoldsItsRows
        <5>3. req[q].code \notin {e.code} \ {NoInvite}
          BY <1>2, <3>1, <5>2
        <5> QED
          BY <1>5, <5>1, <5>3
      <4> QED
        BY <4>1
    <3>5. ChecksHold(q)
      BY <1>1
    <3>6. ChecksHold(q)'
      BY <1>5, <1>8, <3>1, <3>3, <3>4, <3>5 DEF ChecksHold
    <3> QED
      BY <3>2, <3>6
  <2> QED
    BY <2>1, <2>2
<1>10. TablesFit'
  <2>1. \A s \in Invoiced' : invoices'[s].code \in redeemed' \cup {NoInvite}
    BY <1>2, <1>4, <1>5, <1>8 DEF BillingAgrees, TablesFit, Invoiced
  <2>2. \A p \in Made : payments[p].session \in Invoiced
                        /\ payments[p].session # e.session
    BY <1>2 DEF BillingAgrees, TablesFit
  <2>3. \A p \in Made : invoices'[payments[p].session] = invoices[payments[p].session]
    BY <1>4, <2>2 DEF Invoiced
  <2>4. \A p \in Made' : payments'[p].status = "PAID" => Received(p)'
    BY <1>5, <1>8, <2>3 DEF BillingAgrees, TablesFit, Received
  <2> QED
    BY <1>5, <1>8, <2>1, <2>2, <2>4 DEF TablesFit
<1>11. PaidInvoiceIsBacked'
  <2> SUFFICES ASSUME NEW s \in Sessions, invoices'[s].status = "PAID"
               PROVE  \E p \in PaymentsOf(s)' : payments'[p].status = "PAID" /\ Received(p)'
    BY DEF PaidInvoiceIsBacked
  <2>1. s # e.session /\ invoices'[s] = invoices[s]
    BY <1>4
  <2>2. PICK p \in PaymentsOf(s) : payments[p].status = "PAID" /\ Received(p)
    BY <2>1 DEF BillingAgrees, PaidInvoiceIsBacked
  <2>3. payments[p].session = s
    BY DEF PaymentsOf
  <2> QED
    BY <1>5, <1>8, <2>1, <2>2, <2>3 DEF Received
<1>12. OnePendingPayment'
  BY <1>5, <1>8 DEF BillingAgrees, OnePendingPayment
<1>13. InviteServesOneInvoice'
  <2>1. \A s \in Invoiced : invoices[s].code \in Invites => invoices[s].code # e.code
    BY <1>2, BillingAssumption DEF BillingAgrees, TablesFit
  <2>2. \A s \in Invoiced : s \in Sessions /\ s # e.session /\ invoices'[s] = invoices[s]
    BY <1>2, <1>4 DEF Invoiced
  <2>3. \A s, t \in Invoiced :
          invoices[s].code \in Invites /\ invoices[s].code = invoices[t].code => s = t
    BY DEF BillingAgrees, InviteServesOneInvoice
  <2> QED
    BY <1>4, <1>8, <2>1, <2>2, <2>3 DEF InviteServesOneInvoice
<1> QED
  BY <1>6, <1>7, <1>9, <1>10, <1>11, <1>12, <1>13 DEF BillingAgrees, LocksCoverChecks

\* Inserting a payment, and paying the invoice in cash, keeps the invariant.
LEMMA WritePaymentKeeps ==
  ASSUME BillingAgrees, NEW r \in Slots, WritePayment(r)
  PROVE  BillingAgrees'
<1> DEFINE e == req[r]
           cash == e.method = "CASH"
<1>1. /\ TypeOK /\ LocksExclude
      /\ \A q \in Slots : HoldsItsRows(q) /\ ChecksHold(q)
  BY DEF BillingAgrees, LocksCoverChecks
<1>2. /\ e \in PaymentCreate /\ e.session \in Invoiced /\ e.session \in Sessions
      /\ <<"invoice", e.session>> \in held[r]
      /\ \A p \in PaymentsOf(e.session) : payments[p].status # "PENDING"
  BY <1>1 DEF WritePayment, ChecksHold, HoldsItsRows, Invoiced
<1>3. PICK new \in Payments \ Made :
        payments' = [payments EXCEPT ![new] =
          [status |-> IF cash THEN "PAID" ELSE "PENDING", session |-> e.session,
           key |-> e.key, method |-> e.method, report |-> NoReport]]
  BY DEF WritePayment
<1>4. /\ payments'[new].status = IF cash THEN "PAID" ELSE "PENDING"
      /\ payments'[new].session = e.session /\ payments'[new].method = e.method
      /\ \A p \in Payments \ {new} : payments'[p] = payments[p]
  BY <1>1, <1>3 DEF TypeOK
<1>5. /\ UNCHANGED <<parked, redeemed>> /\ End(r)
      /\ invoices' = IF cash THEN [invoices EXCEPT ![e.session].status = "PAID"] ELSE invoices
  BY DEF WritePayment
<1>6. \A s \in Sessions :
        /\ invoices'[s].code = invoices[s].code /\ invoices'[s].total = invoices[s].total
        /\ invoices'[s].status = IF cash /\ s = e.session THEN "PAID" ELSE invoices[s].status
  BY <1>1, <1>5 DEF TypeOK, Invoice
<1>7. /\ LocksExclude'
      /\ held'[r] = {} /\ pc'[r] = "idle"
      /\ \A q \in Slots \ {r} : pc'[q] = pc[q] /\ req'[q] = req[q] /\ held'[q] = held[q]
  BY <1>1, <1>5, EndKeepsOthers
<1>8. TypeOK'
  <2>1. payments' \in [Payments -> Payment]
    BY <1>1, <1>2, <1>3 DEF TypeOK, Payment, PaymentCreate, ProviderStatus
  <2>2. invoices' \in [Sessions -> Invoice]
    BY <1>1, <1>2, <1>5 DEF TypeOK, Invoice
  <2> QED
    BY <1>1, <1>5, <2>1, <2>2, EndType DEF TypeOK
<1>9. /\ Invoiced' = Invoiced /\ Made' = Made \cup {new}
      /\ \A s : PaymentsOf(s)' = IF s = e.session THEN PaymentsOf(s) \cup {new}
                                                  ELSE PaymentsOf(s)
  <2>1. Invoiced' = Invoiced
    BY <1>2, <1>6 DEF Invoiced
  <2>2. Made' = Made \cup {new}
    BY <1>4 DEF Made
  <2> QED
    BY <1>3, <1>4, <2>1, <2>2 DEF PaymentsOf, Made
<1>10. \A q \in Slots : HoldsItsRows(q)' /\ ChecksHold(q)'
  <2> TAKE q \in Slots
  <2>1. CASE q = r
    BY <1>7, <2>1 DEF HoldsItsRows, ChecksHold
  <2>2. CASE q # r
    <3>1. /\ pc'[q] = pc[q] /\ req'[q] = req[q] /\ held'[q] = held[q]
          /\ held[q] \cap held[r] = {}
      BY <1>1, <1>7, <2>2 DEF LocksExclude
    <3>2. HoldsItsRows(q)'
      BY <1>1, <3>1 DEF HoldsItsRows
    <3>3. pc[q] = "pay_write" => req[q].session # e.session
      BY <1>1, <1>2, <3>1 DEF HoldsItsRows
    <3>4. \A p \in Made : p # new /\ payments'[p] = payments[p]
      BY <1>3, <1>4 DEF Made
    <3>5. pc[q] = "pay_write" =>
            \A p \in PaymentsOf(req[q].session)' : payments'[p].status # "PENDING"
      <4>1. CASE pc[q] = "pay_write"
        <5>1. PaymentsOf(req[q].session)' = PaymentsOf(req[q].session)
          BY <1>9, <3>1, <3>3, <4>1 DEF PaymentsOf, Made
        <5>2. \A p \in PaymentsOf(req[q].session) : payments[p].status # "PENDING"
          BY <1>1, <4>1 DEF ChecksHold
        <5>3. PaymentsOf(req[q].session) \subseteq Made
          BY DEF PaymentsOf
        <5> QED
          BY <3>4, <5>1, <5>2, <5>3
      <4> QED
        BY <4>1
    <3>6. ChecksHold(q)
      BY <1>1
    <3>7. ChecksHold(q)'
      BY <1>5, <1>9, <3>1, <3>4, <3>5, <3>6 DEF ChecksHold
    <3> QED
      BY <3>2, <3>7
  <2> QED
    BY <2>1, <2>2
<1>11. \A p \in Made : p # new /\ payments'[p] = payments[p] /\ payments[p].session \in Sessions
  BY <1>1, <1>3, <1>4 DEF Made, TypeOK, Payment
<1>12. \A p \in Made : Received(p) => Received(p)'
  BY <1>6, <1>11 DEF Received
<1>13. payments'[new].status = "PAID" => Received(new)'
  BY <1>4 DEF Received
<1>14. TablesFit'
  <2>1. \A s \in Invoiced' : invoices'[s].code \in redeemed' \cup {NoInvite}
    BY <1>5, <1>6, <1>9 DEF BillingAgrees, TablesFit, Invoiced
  <2>2. \A p \in Made' : payments'[p].session \in Invoiced'
    BY <1>2, <1>4, <1>9, <1>11 DEF BillingAgrees, TablesFit
  <2>3. \A p \in Made' : payments'[p].status = "PAID" => Received(p)'
    BY <1>9, <1>11, <1>12, <1>13 DEF BillingAgrees, TablesFit
  <2> QED
    BY <2>1, <2>2, <2>3 DEF TablesFit
<1>15. PaidInvoiceIsBacked'
  <2> SUFFICES ASSUME NEW s \in Sessions, invoices'[s].status = "PAID"
               PROVE  \E p \in PaymentsOf(s)' : payments'[p].status = "PAID" /\ Received(p)'
    BY DEF PaidInvoiceIsBacked
  <2>1. CASE cash /\ s = e.session
    BY <1>4, <1>9, <1>13, <2>1
  <2>2. CASE ~(cash /\ s = e.session)
    <3>1. PICK p \in PaymentsOf(s) : payments[p].status = "PAID" /\ Received(p)
      BY <1>6, <2>2 DEF BillingAgrees, PaidInvoiceIsBacked
    <3>2. p \in Made /\ p \in PaymentsOf(s)'
      BY <1>9, <3>1 DEF PaymentsOf
    <3> QED
      BY <1>11, <1>12, <3>1, <3>2
  <2> QED
    BY <2>1, <2>2
<1>16. OnePendingPayment'
  <2>1. \A p \in Made : payments[p].status = "PENDING" => payments[p].session # e.session
    BY <1>2 DEF PaymentsOf
  <2>2. \A p, q \in Made :
          /\ payments[p].status = "PENDING" /\ payments[q].status = "PENDING"
          /\ payments[p].session = payments[q].session
          => p = q
    BY DEF BillingAgrees, OnePendingPayment
  <2> QED
    BY <1>4, <1>9, <1>11, <2>1, <2>2 DEF OnePendingPayment
<1>17. InviteServesOneInvoice'
  BY <1>6, <1>9 DEF BillingAgrees, InviteServesOneInvoice, Invoiced
<1> QED
  BY <1>7, <1>8, <1>10, <1>14, <1>15, <1>16, <1>17 DEF BillingAgrees, LocksCoverChecks

\* Writing a callback to its payment and its invoice keeps the invariant: the
\* new status is no PENDING, PAID only with the full amount, and the invoice
\* becomes PAID with the payment or keeps a status that this payment did not back.
LEMMA SettleKeeps ==
  ASSUME BillingAgrees, NEW r \in Slots, NEW paymentStatus \in ProviderStatus,
         NEW invoiceStatus \in {"OPEN", "PAID", "REFUNDED"},
         pc[r] \in {"cb_refund", "cb_settle"}, Settle(r, paymentStatus, invoiceStatus),
         paymentStatus = "PAID" =>
           ReportOf(req[r]) = [status |-> "PAID",
                               amount |-> invoices[payments[req[r].payment].session].total],
         invoiceStatus = "PAID" =>
           \/ paymentStatus = "PAID"
           \/ /\ invoices[payments[req[r].payment].session].status = "PAID"
              /\ payments[req[r].payment].status # "PAID"
  PROVE  BillingAgrees'
<1>1. /\ TypeOK /\ LocksExclude
      /\ \A q \in Slots : HoldsItsRows(q) /\ ChecksHold(q)
  BY DEF BillingAgrees, LocksCoverChecks
<1>p. PICK p \in Payments : p = req[r].payment
  BY <1>1 DEF ChecksHold, Made
<1>s. PICK s \in Sessions : s = payments[p].session
  BY <1>1 DEF TypeOK, Payment
<1>2. /\ req[r] \in CallbackPayload /\ p \in Made /\ p \in Payments /\ s \in Sessions
      /\ s \in Invoiced /\ <<"payment", p>> \in held[r] /\ payments[p].session = s
  BY <1>1, <1>p, <1>s DEF ChecksHold, HoldsItsRows, Made, BillingAgrees, TablesFit
<1>3. /\ payments' = [payments EXCEPT ![p].status = paymentStatus,
                                      ![p].report = ReportOf(req[r])]
      /\ invoices' = [invoices EXCEPT ![s].status = invoiceStatus]
      /\ End(r) /\ UNCHANGED <<parked, redeemed>>
  BY <1>p, <1>s DEF Settle
<1>4. /\ payments'[p].status = paymentStatus /\ payments'[p].report = ReportOf(req[r])
      /\ payments'[p].session = s
      /\ \A q \in Payments \ {p} : payments'[q] = payments[q]
  BY <1>1, <1>2, <1>3, <1>s DEF TypeOK, Payment
<1>5. \A t \in Sessions :
        /\ invoices'[t].code = invoices[t].code /\ invoices'[t].total = invoices[t].total
        /\ invoices'[t].status = IF t = s THEN invoiceStatus ELSE invoices[t].status
  BY <1>1, <1>2, <1>3 DEF TypeOK, Invoice
<1>6. /\ LocksExclude'
      /\ held'[r] = {} /\ pc'[r] = "idle"
      /\ \A q \in Slots \ {r} : pc'[q] = pc[q] /\ req'[q] = req[q] /\ held'[q] = held[q]
  BY <1>1, <1>3, EndKeepsOthers
<1>7. TypeOK'
  <2>1. ReportOf(req[r]) \in Report
    BY <1>2 DEF ReportOf, CallbackPayload, Report
  <2>2. payments' \in [Payments -> Payment]
    <3>1. [payments[p] EXCEPT !.status = paymentStatus, !.report = ReportOf(req[r])] \in Payment
      BY <1>1, <2>1 DEF TypeOK, Payment
    <3>2. payments' = [payments EXCEPT ![p] =
            [payments[p] EXCEPT !.status = paymentStatus, !.report = ReportOf(req[r])]]
      BY <1>1, <1>3 DEF TypeOK
    <3> QED
      BY <1>1, <3>1, <3>2 DEF TypeOK
  <2>3. invoices' \in [Sessions -> Invoice]
    BY <1>1, <1>2, <1>3 DEF TypeOK, Invoice
  <2> QED
    BY <1>1, <1>3, <2>2, <2>3, EndType DEF TypeOK
<1>8. /\ Invoiced' = Invoiced /\ Made' = Made
      /\ \A t : PaymentsOf(t)' = PaymentsOf(t)
  <2>1. Invoiced' = Invoiced
    BY <1>2, <1>5 DEF Invoiced
  <2>2. Made' = Made
    BY <1>2, <1>4 DEF Made, ProviderStatus
  <2>3. \A q \in Made : payments'[q].session = payments[q].session
    BY <1>2, <1>4 DEF Made
  <2> QED
    BY <2>1, <2>2, <2>3 DEF PaymentsOf
<1>9. \A q \in Slots : HoldsItsRows(q)' /\ ChecksHold(q)'
  <2> TAKE q \in Slots
  <2>1. CASE q = r
    BY <1>6, <2>1 DEF HoldsItsRows, ChecksHold
  <2>2. CASE q # r
    <3>1. /\ pc'[q] = pc[q] /\ req'[q] = req[q] /\ held'[q] = held[q]
          /\ held[q] \cap held[r] = {}
      BY <1>1, <1>6, <2>2 DEF LocksExclude
    <3>2. HoldsItsRows(q)'
      BY <1>1, <3>1 DEF HoldsItsRows
    <3>3. pc[q] \in {"cb_refund", "cb_settle"} =>
            payments'[req[q].payment].status = payments[req[q].payment].status
      <4>1. CASE pc[q] \in {"cb_refund", "cb_settle"}
        <5>1. req[q].payment \in Payments /\ req[q].payment # p
          BY <1>1, <1>2, <3>1, <4>1 DEF HoldsItsRows, ChecksHold, Made
        <5> QED
          BY <1>4, <5>1
      <4> QED
        BY <4>1
    <3>4. \A t \in Made : payments'[t].status = "PENDING" => payments[t].status = "PENDING"
      BY <1>4 DEF Made, ProviderStatus
    <3>5. pc[q] = "pay_write" =>
            \A t \in PaymentsOf(req[q].session)' : payments'[t].status # "PENDING"
      <4>1. CASE pc[q] = "pay_write"
        <5>1. PaymentsOf(req[q].session)' = PaymentsOf(req[q].session)
          <6>1. \A u \in Made : payments'[u].session = payments[u].session
            BY <1>2, <1>4 DEF Made
          <6> QED
            BY <1>8, <3>1, <6>1 DEF PaymentsOf
        <5>2. \A t \in PaymentsOf(req[q].session) : payments[t].status # "PENDING"
          BY <1>1, <4>1 DEF ChecksHold
        <5>3. PaymentsOf(req[q].session) \subseteq Made
          BY DEF PaymentsOf
        <5> QED
          BY <3>4, <5>1, <5>2, <5>3
      <4> QED
        BY <4>1
    <3>6. ChecksHold(q)
      BY <1>1
    <3>7. ChecksHold(q)'
      BY <1>3, <1>8, <3>1, <3>3, <3>5, <3>6 DEF ChecksHold
    <3> QED
      BY <3>2, <3>7
  <2> QED
    BY <2>1, <2>2
<1>10. \A q \in Made \ {p} : /\ payments'[q] = payments[q]
                             /\ Received(q) => Received(q)'
  <2>1. \A q \in Made : payments[q].session \in Sessions
    BY <1>1 DEF Made, TypeOK, Payment
  <2> QED
    BY <1>4, <1>5, <2>1 DEF Received, Made
<1>11. payments'[p].status = "PAID" => Received(p)'
  <2>1. CASE paymentStatus = "PAID"
    <3>1. payments'[p].report = [status |-> "PAID", amount |-> invoices[s].total]
      BY <1>4, <1>p, <1>s, <2>1
    <3>2. payments'[p].report = [status |-> "PAID",
                                 amount |-> invoices'[payments'[p].session].total]
      BY <1>2, <1>4, <1>5, <3>1
    <3> QED
      BY <3>2 DEF Received
  <2> QED
    BY <1>4, <2>1
<1>12. TablesFit'
  <2>1. \A t \in Invoiced' : invoices'[t].code \in redeemed' \cup {NoInvite}
    BY <1>3, <1>5, <1>8 DEF BillingAgrees, TablesFit, Invoiced
  <2>2. \A q \in Made' : payments'[q].session \in Invoiced'
    BY <1>2, <1>4, <1>8, <1>10 DEF BillingAgrees, TablesFit
  <2>3. \A q \in Made' : payments'[q].status = "PAID" => Received(q)'
    <3>1. \A q \in Made : payments[q].status = "PAID" => Received(q)
      BY DEF BillingAgrees, TablesFit
    <3>2. ASSUME NEW q \in Made \ {p}, payments'[q].status = "PAID"
          PROVE  Received(q)'
      BY <1>10, <3>1, <3>2
    <3> QED
      BY <1>8, <1>11, <3>2
  <2> QED
    BY <2>1, <2>2, <2>3 DEF TablesFit
<1>13. PaidInvoiceIsBacked'
  <2> SUFFICES ASSUME NEW t \in Sessions, invoices'[t].status = "PAID"
               PROVE  \E q \in PaymentsOf(t)' : payments'[q].status = "PAID" /\ Received(q)'
    BY DEF PaidInvoiceIsBacked
  <2>1. CASE t = s /\ paymentStatus = "PAID"
    <3>1. p \in PaymentsOf(t)'
      BY <1>2, <1>4, <1>8, <2>1 DEF PaymentsOf
    <3> QED
      BY <1>4, <1>11, <2>1, <3>1
  <2>2. CASE ~(t = s /\ paymentStatus = "PAID")
    <3>1. invoices[t].status = "PAID" /\ (t = s => payments[p].status # "PAID")
      BY <1>5, <1>p, <1>s, <2>2
    <3>2. PICK q \in PaymentsOf(t) : payments[q].status = "PAID" /\ Received(q)
      BY <3>1 DEF BillingAgrees, PaidInvoiceIsBacked
    <3>3. q \in Made \ {p} /\ q \in PaymentsOf(t)'
      <4>1. q \in Made /\ payments[q].session = t
        BY DEF PaymentsOf
      <4>2. q # p
        BY <1>2, <3>1, <3>2, <4>1
      <4>3. payments'[q].session = t
        BY <1>10, <4>1, <4>2
      <4> QED
        BY <1>8, <4>1, <4>2, <4>3 DEF PaymentsOf
    <3> QED
      BY <1>10, <3>2, <3>3
  <2> QED
    BY <2>1, <2>2
<1>14. OnePendingPayment'
  <2>1. \A q \in Made : /\ payments'[q].status = "PENDING" => payments[q].status = "PENDING"
                        /\ payments'[q].session = payments[q].session
    BY <1>2, <1>4, <1>10 DEF ProviderStatus
  <2> QED
    BY <1>8, <2>1 DEF BillingAgrees, OnePendingPayment
<1>15. InviteServesOneInvoice'
  BY <1>5, <1>8 DEF BillingAgrees, InviteServesOneInvoice, Invoiced
<1> QED
  BY <1>6, <1>7, <1>9, <1>12, <1>13, <1>14, <1>15 DEF BillingAgrees, LocksCoverChecks

\* Refunding a paid payment keeps the invariant.
LEMMA RefundKeeps ==
  ASSUME BillingAgrees, NEW r \in Slots, Refund(r)
  PROVE  BillingAgrees'
BY SettleKeeps DEF Refund, ProviderStatus

\* Settling an open payment keeps the invariant: the payment was not PAID before,
\* and it becomes PAID only when the amount is the invoice's.
LEMMA SettlePaymentKeeps ==
  ASSUME BillingAgrees, NEW r \in Slots, SettlePayment(r)
  PROVE  BillingAgrees'
<1> DEFINE e == req[r]
           s == payments[e.payment].session
           status == IF Settled(e) = "PAID" THEN "PAID" ELSE invoices[s].status
<1>1. /\ TypeOK /\ ChecksHold(r) /\ pc[r] = "cb_settle"
      /\ Settle(r, Settled(e), status)
  BY DEF BillingAgrees, SettlePayment
<1>2. e \in CallbackPayload /\ e.payment \in Made /\ payments[e.payment].status # "PAID"
  BY <1>1 DEF ChecksHold
<1>3. s \in Invoiced
  BY <1>2 DEF BillingAgrees, TablesFit
<1>4. status \in {"OPEN", "PAID", "REFUNDED"}
  BY <1>1, <1>3 DEF Invoiced, TypeOK, Invoice
<1>5. Settled(e) \in ProviderStatus
  BY <1>2 DEF Settled, CallbackPayload, ProviderStatus
<1>6. Settled(e) = "PAID" => ReportOf(e) = [status |-> "PAID", amount |-> invoices[s].total]
  BY DEF Settled, ReportOf
<1>7. status = "PAID" => \/ Settled(e) = "PAID"
                         \/ invoices[s].status = "PAID" /\ payments[e.payment].status # "PAID"
  BY <1>2
<1>8. HIDE DEF status
<1> QED
  BY <1>1, <1>4, <1>5, <1>6, <1>7, SettleKeeps

\* The empty tables agree.
LEMMA InitiallyAgrees == Init => BillingAgrees
<1> SUFFICES ASSUME Init PROVE BillingAgrees
  OBVIOUS
<1>1. TypeOK
  BY Placeholders DEF Init, TypeOK, Places
<1>2. Invoiced = {} /\ Made = {}
  BY Placeholders DEF Init, Invoiced, Made
<1>3. LocksCoverChecks /\ \A r \in Slots : ChecksHold(r)
  BY DEF Init, LocksCoverChecks, LocksExclude, HoldsItsRows, ChecksHold
<1>4. PaidInvoiceIsBacked
  BY <1>2 DEF PaidInvoiceIsBacked, Invoiced
<1>5. TablesFit /\ OnePendingPayment /\ InviteServesOneInvoice
  BY <1>2 DEF TablesFit, OnePendingPayment, InviteServesOneInvoice
<1> QED
  BY <1>1, <1>3, <1>4, <1>5 DEF BillingAgrees

\* Every step keeps the invariant.
LEMMA NextKeeps == BillingAgrees /\ [Next]_vars => BillingAgrees'
<1> SUFFICES ASSUME BillingAgrees, [Next]_vars PROVE BillingAgrees'
  OBVIOUS
<1>1. ASSUME NEW r \in Slots, Arrive(r) PROVE BillingAgrees'
  BY <1>1, ArriveKeeps
<1>2. ASSUME NEW r \in Slots, Step(r) PROVE BillingAgrees'
  BY <1>2, LockSessionKeeps, LockInviteKeeps, WriteInvoiceKeeps, LockInvoiceKeeps,
    WritePaymentKeeps, LockPaymentKeeps, RefundKeeps, SettlePaymentKeeps, CloseKeeps DEF Step
<1>3. ASSUME NEW r \in Slots, RefuseInvoice(r) \/ ConnectionLost(r) PROVE BillingAgrees'
  BY <1>3, RefuseInvoiceKeeps, ConnectionLostKeeps
<1>4. ASSUME NEW s \in Sessions, SessionLeaves(s) PROVE BillingAgrees'
  BY <1>4, SessionLeavesKeeps
<1>5. CASE UNCHANGED vars
  <2>1. Invoiced' = Invoiced /\ Made' = Made /\ \A s : PaymentsOf(s)' = PaymentsOf(s)
    BY <1>5, TablesRead DEF vars
  <2>2. TypeOK' /\ LocksCoverChecks'
    BY <1>5 DEF vars, tables, BillingAgrees, TypeOK, LocksCoverChecks, LocksExclude,
      HoldsItsRows
  <2>3. \A r \in Slots : ChecksHold(r)'
    BY <1>5, <2>1 DEF vars, tables, BillingAgrees, ChecksHold
  <2>4. TablesFit' /\ PaidInvoiceIsBacked' /\ OnePendingPayment' /\ InviteServesOneInvoice'
    BY <1>5, <2>1 DEF vars, tables, BillingAgrees, TablesFit, PaidInvoiceIsBacked,
      OnePendingPayment, InviteServesOneInvoice, Received
  <2> QED
    BY <2>2, <2>3, <2>4 DEF BillingAgrees
<1> QED
  BY <1>1, <1>2, <1>3, <1>4, <1>5 DEF Next

\* The invariant of billing: requests hold the rows they checked, what they
\* checked is still true, and invoices, payments and invites fit together.
THEOREM BillingAlwaysAgrees == Spec => []BillingAgrees
<1>1. Init => BillingAgrees
  BY InitiallyAgrees
<1>2. BillingAgrees /\ [Next]_vars => BillingAgrees'
  BY NextKeeps
<1> QED
  BY <1>1, <1>2, PTL DEF Spec

\* An invoice is PAID only while a payment of the full amount backs it.
THEOREM PaidMeansReceived == Spec => []PaidInvoiceIsBacked
<1>1. BillingAgrees => PaidInvoiceIsBacked
  BY DEF BillingAgrees
<1> QED
  BY <1>1, BillingAlwaysAgrees, PTL

\* Concurrent payment requests never leave an invoice two PENDING payments.
THEOREM OneQrCodeAtATime == Spec => []OnePendingPayment
<1>1. BillingAgrees => OnePendingPayment
  BY DEF BillingAgrees
<1> QED
  BY <1>1, BillingAlwaysAgrees, PTL

\* A guest invite is redeemed by one invoice.
THEOREM InvitesServeOnce == Spec => []InviteServesOneInvoice
<1>1. BillingAgrees => InviteServesOneInvoice
  BY DEF BillingAgrees
<1> QED
  BY <1>1, BillingAlwaysAgrees, PTL

\* Which steps write payments and invoices.
LEMMA OnlyWritesChange ==
  ASSUME [Next]_vars,
         \A r \in Slots : ~WriteInvoice(r) /\ ~WritePayment(r) /\ ~Refund(r) /\ ~SettlePayment(r)
  PROVE  UNCHANGED <<invoices, payments>>
BY DEF Next, vars, tables, Arrive, PostInvoice, PostPayment, ProviderCallback, Dispatch,
  Step, LockSession, LockInvite, LockInvoice, LockPayment, Close, RefuseInvoice,
  LeaveLocked, ConnectionLost, SessionLeaves

\* Money that was received stays received: a PAID payment can only be refunded,
\* and a refunded payment never changes again.
THEOREM SettledIsFinal == Spec => PaymentsAreFinal
<1> DEFINE Final ==
      \A p \in Payments :
        /\ payments[p].status = "PAID" => payments'[p].status \in {"PAID", "REFUNDED"}
        /\ payments[p].status = "REFUNDED" => payments'[p] = payments[p]
<1>1. BillingAgrees /\ [Next]_vars => Final
  <2> SUFFICES ASSUME BillingAgrees, [Next]_vars PROVE Final
    OBVIOUS
  <2>1. payments \in [Payments -> Payment] /\ \A r \in Slots : ChecksHold(r)
    BY DEF BillingAgrees, TypeOK
  <2>2. ASSUME NEW r \in Slots, WritePayment(r) PROVE Final
    BY <2>1, <2>2 DEF WritePayment, Made
  <2>3. ASSUME NEW r \in Slots, NEW i, Settle(r, "REFUNDED", i), pc[r] = "cb_refund" PROVE Final
    <3>1. req[r].payment \in Payments /\ payments[req[r].payment].status = "PAID"
      BY <2>1, <2>3 DEF ChecksHold, Made
    <3>2. payments'[req[r].payment].status = "REFUNDED"
      BY <2>1, <2>3, <3>1 DEF Settle, Payment
    <3>3. \A p \in Payments \ {req[r].payment} : payments'[p] = payments[p]
      BY <2>1, <2>3 DEF Settle
    <3> QED
      BY <3>1, <3>2, <3>3
  <2>4. ASSUME NEW r \in Slots, NEW status, NEW i, Settle(r, status, i), pc[r] = "cb_settle"
        PROVE  Final
    <3>1. payments[req[r].payment].status \notin {"PAID", "REFUNDED"}
      BY <2>1, <2>4 DEF ChecksHold
    <3>2. \A p \in Payments \ {req[r].payment} : payments'[p] = payments[p]
      BY <2>1, <2>4 DEF Settle
    <3> QED
      BY <3>1, <3>2
  <2>5. ASSUME NEW r \in Slots, WriteInvoice(r) PROVE Final
    BY <2>5 DEF WriteInvoice
  <2> QED
    BY <2>2, <2>3, <2>4, <2>5, OnlyWritesChange DEF Refund, SettlePayment
<1> QED
  BY <1>1, BillingAlwaysAgrees, PTL DEF Spec, PaymentsAreFinal

\* An invoice is only made for a session that is PARKED at that moment.
THEOREM NoInvoiceAfterLeaving == Spec => InvoicedWhileParked
<1> DEFINE Timely == \A s \in Sessions : s \notin Invoiced /\ s \in Invoiced' => s \in parked
<1>1. BillingAgrees /\ [Next]_vars => Timely
  <2> SUFFICES ASSUME BillingAgrees, [Next]_vars PROVE Timely
    OBVIOUS
  <2>1. /\ invoices \in [Sessions -> Invoice] /\ payments \in [Payments -> Payment]
        /\ \A r \in Slots : ChecksHold(r)
    BY DEF BillingAgrees, TypeOK
  <2>2. ASSUME NEW r \in Slots, WriteInvoice(r) PROVE Timely
    <3>1. req[r].session \in parked
      BY <2>1, <2>2 DEF ChecksHold, WriteInvoice
    <3>2. \A s \in Sessions \ {req[r].session} : invoices'[s] = invoices[s]
      BY <2>1, <2>2 DEF WriteInvoice
    <3> QED
      BY <3>1, <3>2 DEF Invoiced
  <2>3. ASSUME NEW r \in Slots, WritePayment(r) PROVE Timely
    <3>1. req[r].session \in Invoiced
      BY <2>1, <2>3 DEF ChecksHold, WritePayment
    <3>2. \A s \in Sessions \ {req[r].session} : invoices'[s] = invoices[s]
      BY <2>1, <2>3 DEF WritePayment
    <3> QED
      BY <3>1, <3>2 DEF Invoiced
  <2>4. ASSUME NEW r \in Slots, NEW status, NEW i, Settle(r, status, i),
               pc[r] \in {"cb_refund", "cb_settle"}
        PROVE  Timely
    <3>1. req[r].payment \in Made
      BY <2>1, <2>4 DEF ChecksHold
    <3>2. payments[req[r].payment].session \in Invoiced
      BY <3>1 DEF BillingAgrees, TablesFit
    <3>3. \A s \in Sessions \ {payments[req[r].payment].session} : invoices'[s] = invoices[s]
      BY <2>1, <2>4 DEF Settle
    <3> QED
      BY <3>2, <3>3 DEF Invoiced
  <2> QED
    BY <2>2, <2>3, <2>4, OnlyWritesChange DEF Refund, SettlePayment, Invoiced
<1> QED
  BY <1>1, BillingAlwaysAgrees, PTL DEF Spec, InvoicedWhileParked
=============================================================================
