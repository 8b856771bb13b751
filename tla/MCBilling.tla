----------------------------- MODULE MCBilling -----------------------------
(***************************************************************************)
(* Small instances of Billing for TLC.                                     *)
(***************************************************************************)
EXTENDS Billing, TLC

CONSTANTS s1, s2, g, p1, p2, k1, k2

Body(s, code) == [session |-> s, code |-> code]
Pay(s, k, method) == [session |-> s, key |-> k, method |-> method]
Call(p, status, amount) == [payment |-> p, status |-> status, amount |-> amount]

MCSessions == {s1, s2}
MCPayments == {p1, p2}
MCKeys == {k1, k2}
MCInvoiceRequests == {Body(s1, g), Body(s2, g), Body(s1, NoInvite)}
MCPaymentRequests == {Pay(s1, k1, "VIETQR_MOCK"), Pay(s1, k2, "CASH")}
MCCallbacks == [payment : MCPayments, status : ProviderStatus, amount : Amounts]

OneInvoiceRequest == {Body(s1, NoInvite)}
OnePaymentRequest == {Pay(s1, k1, "VIETQR_MOCK")}
PaidCallbacks == {Call(p1, "PAID", 1)}

Symmetry == Permutations(Slots) \cup Permutations(MCPayments)
=============================================================================
