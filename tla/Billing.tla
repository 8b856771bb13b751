------------------------------ MODULE Billing ------------------------------
(***************************************************************************)
(* Invoices and payments of parking sessions: create_invoice,              *)
(* create_payment and the callback of the (mock) VietQR provider, with the *)
(* row locks they take and the event loop they share.                      *)
(*                                                                         *)
(* POST /invoices and POST /payments run on a thread of the pool, the      *)
(* callback on the event loop itself.  A handler that commits gives its    *)
(* locks back at once; one that returns or raises without a commit keeps   *)
(* them until get_db closes the session, which the event loop has to start.*)
(***************************************************************************)
EXTENDS Integers

CONSTANTS
  Slots,            \* requests served at the same time
  Sessions,         \* parking_transactions; the invoice of s is its one invoice
  Invites,          \* guest_invites
  Payments,         \* ids of the payments rows (bounds the payments)
  InvoiceRequests,  \* bodies of POST /invoices
  PaymentRequests,  \* bodies and keys of POST /payments
  Callbacks,        \* bodies of POST /payments/callback
  Keys,             \* Idempotency-Key header values
  Amounts,          \* VND amounts
  NoInvite, NoSlot, NoRequest, NoReport

ProviderStatus == {"PAID", "FAILED", "PROCESSING", "REFUNDED"}

InvoiceCreate == [session : Sessions, code : Invites \cup {NoInvite}]
PaymentCreate == [session : Sessions, key : Keys, method : {"CASH", "VIETQR_MOCK"}]
CallbackPayload == [payment : Payments, status : ProviderStatus, amount : Amounts]

Invoice == [status : {"NONE", "OPEN", "PAID", "REFUNDED"}, code : Invites \cup {NoInvite},
            total : Amounts]

Report == [status : ProviderStatus, amount : Amounts]

Payment == [status : {"NONE", "PENDING"} \cup ProviderStatus, session : Sessions,
            key : Keys, method : {"CASH", "VIETQR_MOCK"}, report : Report \cup {NoReport}]

NoInvoice == CHOOSE i \in Invoice : i.status = "NONE"
NoPayment == CHOOSE p \in Payment : p.status = "NONE"

ASSUME BillingAssumption ==
  /\ Sessions # {} /\ Keys # {} /\ Amounts # {}
  /\ InvoiceRequests \subseteq InvoiceCreate
  /\ PaymentRequests \subseteq PaymentCreate
  /\ Callbacks \subseteq CallbackPayload
  /\ NoInvite \notin Invites /\ NoSlot \notin Slots /\ NoReport \notin Report
  /\ NoRequest \notin InvoiceCreate \cup PaymentCreate \cup CallbackPayload

VARIABLES
  parked,    \* sessions whose status is PARKED
  invoices,  \* committed invoice of each session
  payments,  \* committed payments
  redeemed,  \* invites with a redeemed_at
  held,      \* rows that each slot has locked
  loop,      \* the callback that runs on the event loop
  pc, req

tables == <<parked, invoices, payments, redeemed>>
vars == <<tables, held, loop, pc, req>>

Lockable == ({"session", "invoice"} \X Sessions) \cup ({"invite"} \X Invites)
              \cup ({"payment"} \X Payments)

Places == {"idle", "inv_session", "inv_invite", "inv_write", "pay_invoice", "pay_write",
           "cb_payment", "cb_refund", "cb_settle", "closing"}

Invoiced == {s \in Sessions : invoices[s].status # "NONE"}

Made == {p \in Payments : payments[p].status # "NONE"}

PaymentsOf(s) == {p \in Made : payments[p].session = s}
-----------------------------------------------------------------------------
(* Locks, the end of a request, and the event loop.                        *)

Free(x, r) == \A q \in Slots \ {r} : x \notin held[q]

Lock(x, r) == held' = [held EXCEPT ![r] = @ \cup {x}]

Goto(r, place) == pc' = [pc EXCEPT ![r] = place]

LeaveLoop(r) == loop' = IF loop = r THEN NoSlot ELSE loop

\* Commit, or rollback by a lost connection: nothing is locked any more.
End(r) ==
  /\ held' = [held EXCEPT ![r] = {}]
  /\ LeaveLoop(r)
  /\ Goto(r, "idle")
  /\ req' = [req EXCEPT ![r] = NoRequest]

\* The handler returns or raises without a commit: row x and the rows it has
\* locked stay locked until the session is closed.
LeaveLocked(r, x) ==
  /\ Lock(x, r)
  /\ LeaveLoop(r)
  /\ Goto(r, "closing")
  /\ UNCHANGED <<tables, req>>

\* get_db's exit, started by the event loop: rollback and close.
Close(r) ==
  /\ pc[r] = "closing"
  /\ loop = NoSlot
  /\ End(r)
  /\ UNCHANGED tables

ConnectionLost(r) ==
  /\ pc[r] # "idle"
  /\ End(r)
  /\ UNCHANGED tables

\* The session is completed or turned PAYMENT_PENDING by a check-out.
SessionLeaves(s) ==
  /\ s \in parked
  /\ \A r \in Slots : <<"session", s>> \notin held[r]
  /\ parked' = parked \ {s}
  /\ UNCHANGED <<invoices, payments, redeemed, held, loop, pc, req>>

\* A request arrives and is dispatched by the event loop.
Dispatch(r, e, place) ==
  /\ pc[r] = "idle"
  /\ loop = NoSlot
  /\ req' = [req EXCEPT ![r] = e]
  /\ Goto(r, place)
  /\ UNCHANGED <<tables, held>>
-----------------------------------------------------------------------------
(* create_invoice.                                                         *)

PostInvoice(r, e) == Dispatch(r, e, "inv_session") /\ UNCHANGED loop

\* Mutant: the session is read without FOR UPDATE.
LockSessionUnlocked(r) ==
  /\ pc[r] = "inv_session"
  /\ req[r].session \notin Invoiced /\ req[r].session \in parked
  /\ Goto(r, IF req[r].code = NoInvite THEN "inv_write" ELSE "inv_invite")
  /\ UNCHANGED <<tables, held, loop, req>>

\* The session is locked; an invoice it has already is returned (or refused, if
\* its terms differ); a session that is not PARKED gets none.
LockSession(r) ==
  LET s == req[r].session
      x == <<"session", s>>
  IN /\ pc[r] = "inv_session"
     /\ Free(x, r)
     /\ \/ /\ s \in Invoiced \/ s \notin parked
           /\ LeaveLocked(r, x)
        \/ /\ s \notin Invoiced /\ s \in parked
           /\ Lock(x, r)
           /\ Goto(r, IF req[r].code = NoInvite THEN "inv_write" ELSE "inv_invite")
           /\ UNCHANGED <<tables, loop, req>>

\* Mutant: the invite is read without FOR UPDATE.
LockInviteUnlocked(r) ==
  /\ pc[r] = "inv_invite"
  /\ req[r].code \notin redeemed
  /\ Goto(r, "inv_write")
  /\ UNCHANGED <<tables, held, loop, req>>

\* The guest invite is locked and must not have been redeemed.
LockInvite(r) ==
  LET x == <<"invite", req[r].code>>
  IN /\ pc[r] = "inv_invite"
     /\ Free(x, r)
     /\ \/ /\ req[r].code \in redeemed
           /\ LeaveLocked(r, x)
        \/ /\ req[r].code \notin redeemed
           /\ Lock(x, r)
           /\ Goto(r, "inv_write")
           /\ UNCHANGED <<tables, loop, req>>

\* The fee is calculated, the invoice inserted, the invite redeemed; commit.
WriteInvoice(r) ==
  LET e == req[r]
  IN /\ pc[r] = "inv_write"
     /\ \E total \in Amounts :
          invoices' = [invoices EXCEPT ![e.session] =
            [status |-> "OPEN", code |-> e.code, total |-> total]]
     /\ redeemed' = redeemed \cup ({e.code} \ {NoInvite})
     /\ End(r)
     /\ UNCHANGED <<parked, payments>>

\* Price snapshot, validity window or check-out time are refused.
RefuseInvoice(r) ==
  /\ pc[r] = "inv_write"
  /\ LeaveLocked(r, <<"session", req[r].session>>)
-----------------------------------------------------------------------------
(* create_payment.                                                         *)

PostPayment(r, e) ==
  /\ e.session \in Invoiced
  /\ Dispatch(r, e, "pay_invoice")
  /\ UNCHANGED loop

\* A known key, a paid invoice or an active payment: no new payment is made.
NoNewPayment(e) ==
  \/ \E p \in PaymentsOf(e.session) : payments[p].key = e.key
  \/ invoices[e.session].status = "PAID"
  \/ \E p \in PaymentsOf(e.session) : payments[p].status \in {"PENDING", "PROCESSING"}

\* Mutant: the invoice is read without FOR UPDATE.
LockInvoiceUnlocked(r) ==
  /\ pc[r] = "pay_invoice"
  /\ ~NoNewPayment(req[r])
  /\ Goto(r, "pay_write")
  /\ UNCHANGED <<tables, held, loop, req>>

\* The invoice is locked; a known key is answered with its payment.
LockInvoice(r) ==
  LET x == <<"invoice", req[r].session>>
  IN /\ pc[r] = "pay_invoice"
     /\ Free(x, r)
     /\ \/ /\ NoNewPayment(req[r])
           /\ LeaveLocked(r, x)
        \/ /\ ~NoNewPayment(req[r])
           /\ Lock(x, r)
           /\ Goto(r, "pay_write")
           /\ UNCHANGED <<tables, loop, req>>

\* Bound: the ids of the payments.
WritePayment(r) ==
  LET e == req[r]
      cash == e.method = "CASH"
  IN /\ pc[r] = "pay_write"
     /\ \E p \in Payments \ Made :
          payments' = [payments EXCEPT ![p] =
            [status |-> IF cash THEN "PAID" ELSE "PENDING", session |-> e.session,
             key |-> e.key, method |-> e.method, report |-> NoReport]]
     /\ invoices' = IF cash THEN [invoices EXCEPT ![e.session].status = "PAID"] ELSE invoices
     /\ End(r)
     /\ UNCHANGED <<parked, redeemed>>
-----------------------------------------------------------------------------
(* apply_callback, on the event loop.                                      *)

\* The provider's reference is known once the payment is committed.
ProviderCallback(r, e) ==
  /\ e.payment \in Made
  /\ payments[e.payment].method = "VIETQR_MOCK"
  /\ Dispatch(r, e, "cb_payment")
  /\ loop' = r

ReportOf(e) == [status |-> e.status, amount |-> e.amount]

\* Mutant: only the callback that was applied last is recognised as a repetition.
NothingToSettleUnlessNew(e) == payments[e.payment].report = ReportOf(e)

\* The last callback again, a final payment, or a refund of another amount.
NothingToSettle(e) ==
  LET p == payments[e.payment]
  IN \/ p.report = ReportOf(e)
     \/ p.status = "PAID" /\ (e.status = "REFUNDED" => e.amount # invoices[p.session].total)
     \/ p.status = "REFUNDED"

\* Mutant: the payment is read without FOR UPDATE.
LockPaymentUnlocked(r) ==
  /\ pc[r] = "cb_payment"
  /\ ~NothingToSettle(req[r])
  /\ Goto(r, IF payments[req[r].payment].status = "PAID" THEN "cb_refund" ELSE "cb_settle")
  /\ UNCHANGED <<tables, held, loop, req>>

\* The payment is locked; payment.amount_vnd is the total of its invoice.
LockPayment(r) ==
  LET e == req[r]
      x == <<"payment", e.payment>>
  IN /\ pc[r] = "cb_payment"
     /\ Free(x, r)
     /\ \/ /\ NothingToSettle(e)
           /\ LeaveLocked(r, x)
        \/ /\ ~NothingToSettle(e)
           /\ Lock(x, r)
           /\ Goto(r, IF payments[e.payment].status = "PAID" THEN "cb_refund" ELSE "cb_settle")
           /\ UNCHANGED <<tables, loop, req>>

\* The payment and its invoice once the callback is written; commit.
Settle(r, paymentStatus, invoiceStatus) ==
  LET e == req[r]
      s == payments[e.payment].session
  IN /\ Free(<<"invoice", s>>, r)
     /\ payments' = [payments EXCEPT ![e.payment].status = paymentStatus,
                                     ![e.payment].report = ReportOf(e)]
     /\ invoices' = [invoices EXCEPT ![s].status = invoiceStatus]
     /\ End(r)
     /\ UNCHANGED <<parked, redeemed>>

\* A paid payment is refunded in full.
Refund(r) == pc[r] = "cb_refund" /\ Settle(r, "REFUNDED", "REFUNDED")

\* Mutant: the amount that was received is not compared with the invoice.
SettledAnyAmount(e) == e.status

\* A callback of another amount fails the payment whatever it reports.
Settled(e) == IF e.amount # invoices[payments[e.payment].session].total THEN "FAILED"
                                                                       ELSE e.status

\* An open payment takes the status of the callback, and pays the invoice.
SettlePayment(r) ==
  LET e == req[r]
      invoice == invoices[payments[e.payment].session].status
  IN /\ pc[r] = "cb_settle"
     /\ Settle(r, Settled(e), IF Settled(e) = "PAID" THEN "PAID" ELSE invoice)
-----------------------------------------------------------------------------
Init ==
  /\ parked = Sessions
  /\ invoices = [s \in Sessions |-> NoInvoice]
  /\ payments = [p \in Payments |-> NoPayment]
  /\ redeemed = {}
  /\ held = [r \in Slots |-> {}]
  /\ loop = NoSlot
  /\ pc = [r \in Slots |-> "idle"]
  /\ req = [r \in Slots |-> NoRequest]

Arrive(r) ==
  \/ \E e \in InvoiceRequests : PostInvoice(r, e)
  \/ \E e \in PaymentRequests : PostPayment(r, e)
  \/ \E e \in Callbacks : ProviderCallback(r, e)

Step(r) ==
  \/ LockSession(r) \/ LockInvite(r) \/ WriteInvoice(r)
  \/ LockInvoice(r) \/ WritePayment(r)
  \/ LockPayment(r) \/ Refund(r) \/ SettlePayment(r)
  \/ Close(r)

Next ==
  \/ \E r \in Slots : Arrive(r) \/ Step(r) \/ RefuseInvoice(r) \/ ConnectionLost(r)
  \/ \E s \in Sessions : SessionLeaves(s)

Spec == Init /\ [][Next]_vars

\* Threads and the event loop run on; row locks are granted to their waiters.
FairSpec == Spec /\ \A r \in Slots : SF_vars(Step(r))
-----------------------------------------------------------------------------
(* Properties.                                                             *)

TypeOK ==
  /\ parked \subseteq Sessions
  /\ invoices \in [Sessions -> Invoice]
  /\ payments \in [Payments -> Payment]
  /\ redeemed \subseteq Invites
  /\ held \in [Slots -> SUBSET Lockable]
  /\ loop \in Slots \cup {NoSlot}
  /\ pc \in [Slots -> Places]
  /\ req \in [Slots -> InvoiceCreate \cup PaymentCreate \cup CallbackPayload \cup {NoRequest}]

\* The amount of the invoice was taken in cash, or reported by the provider.
Received(p) ==
  \/ payments[p].method = "CASH"
  \/ payments[p].report = [status |-> "PAID", amount |-> invoices[payments[p].session].total]

\* An invoice counts as PAID only while the full amount is there: a CASH payment,
\* or a VietQR payment whose provider reported the total and has not refunded it,
\* however late, repeated and reordered the callbacks come.
PaidInvoiceIsBacked ==
  \A s \in Sessions : invoices[s].status = "PAID" =>
    \E p \in PaymentsOf(s) : payments[p].status = "PAID" /\ Received(p)

\* An invoice has at most one payment that the provider has not answered yet:
\* two POST /payments at the same time do not both show a QR code.
OnePendingPayment ==
  \A p, q \in Made :
    /\ payments[p].status = "PENDING" /\ payments[q].status = "PENDING"
    /\ payments[p].session = payments[q].session
    => p = q

\* A guest invite gives its free minutes to one invoice, also when two invoices
\* are created with it at the same time.
InviteServesOneInvoice ==
  \A s, t \in Invoiced : invoices[s].code \in Invites /\ invoices[s].code = invoices[t].code
                           => s = t

\* Row locks exclude each other, and every request that is between its check and
\* its commit holds the rows that it has checked.
LocksExclude == \A q, r \in Slots : q # r => held[q] \cap held[r] = {}

HoldsItsRows(r) ==
  /\ pc[r] \in {"inv_invite", "inv_write"} => <<"session", req[r].session>> \in held[r]
  /\ pc[r] = "inv_write" /\ req[r].code # NoInvite => <<"invite", req[r].code>> \in held[r]
  /\ pc[r] = "pay_write" => <<"invoice", req[r].session>> \in held[r]
  /\ pc[r] \in {"cb_refund", "cb_settle"} => <<"payment", req[r].payment>> \in held[r]

LocksCoverChecks == LocksExclude /\ \A r \in Slots : HoldsItsRows(r)

\* What a request has checked is still true when it writes.
ChecksHold(r) ==
  /\ pc[r] \in {"inv_session", "inv_invite", "inv_write"} => req[r] \in InvoiceCreate
  /\ pc[r] \in {"pay_invoice", "pay_write"} =>
       req[r] \in PaymentCreate /\ req[r].session \in Invoiced
  /\ pc[r] \in {"cb_payment", "cb_refund", "cb_settle"} =>
       req[r] \in CallbackPayload /\ req[r].payment \in Made
  /\ pc[r] \in {"inv_invite", "inv_write"} => req[r].session \in parked \ Invoiced
  /\ pc[r] = "inv_invite" => req[r].code # NoInvite
  /\ pc[r] = "inv_write" => req[r].code \notin redeemed
  /\ pc[r] = "pay_write" =>
       \A p \in PaymentsOf(req[r].session) : payments[p].status # "PENDING"
  /\ pc[r] = "cb_refund" => payments[req[r].payment].status = "PAID"
  /\ pc[r] = "cb_settle" => payments[req[r].payment].status \notin {"PAID", "REFUNDED"}

\* Invoices and payments fit together.
TablesFit ==
  /\ \A s \in Invoiced : invoices[s].code \in redeemed \cup {NoInvite}
  /\ \A p \in Made : payments[p].session \in Invoiced
  /\ \A p \in Made : payments[p].status = "PAID" => Received(p)

\* The inductive invariant behind the theorems.
BillingAgrees ==
  /\ TypeOK
  /\ LocksCoverChecks
  /\ \A r \in Slots : ChecksHold(r)
  /\ TablesFit
  /\ PaidInvoiceIsBacked
  /\ OnePendingPayment
  /\ InviteServesOneInvoice

\* Money that was received is neither lost nor taken back by a stray callback: a
\* PAID payment can only be refunded, a REFUNDED one never changes.
PaymentsAreFinal ==
  [][\A p \in Payments :
       /\ payments[p].status = "PAID" => payments'[p].status \in {"PAID", "REFUNDED"}
       /\ payments[p].status = "REFUNDED" => payments'[p] = payments[p]]_vars

\* An invoice is made only while its session is PARKED: the check-out of the
\* session cannot come between the check and the insert.
InvoicedWhileParked ==
  [][\A s \in Sessions : s \notin Invoiced /\ s \in Invoiced' => s \in parked]_vars

\* Every callback that occupies the event loop gives it back.
LoopComesFree == \A r \in Slots : loop = r ~> loop # r
=============================================================================
