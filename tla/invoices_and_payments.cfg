SPECIFICATION Spec
CONSTANTS
  s1 = s1
  s2 = s2
  g = g
  p1 = p1
  p2 = p2
  k1 = k1
  k2 = k2
  NoInvite = NoInvite
  NoSlot = NoSlot
  NoRequest = NoRequest
  NoReport = NoReport
  Slots = {r1, r2}
  Invites = {g}
  Amounts = {1, 2}
  Sessions <- MCSessions
  Payments <- MCPayments
  Keys <- MCKeys
  InvoiceRequests <- MCInvoiceRequests
  PaymentRequests <- MCPaymentRequests
  Callbacks <- MCCallbacks
SYMMETRY Symmetry
INVARIANTS
  BillingAgrees
  PaidInvoiceIsBacked
  OnePendingPayment
  InviteServesOneInvoice
PROPERTIES
  PaymentsAreFinal
  InvoicedWhileParked
