\* Requests, events and failures in every order; refunds recorded as the code means to.
SPECIFICATION Spec
CONSTANTS
  Payments = {p1}
  Amount = 2
  RefundAmounts = {0, 1}
  PolicyRefund = 1
  MaxRetries = 2
  Requests = {w1, w2}
  NoPayment = NoPayment
  IdsAreUuid = TRUE
SYMMETRY Symmetric
CHECK_DEADLOCK FALSE
INVARIANT PaidIsConfirmed
PROPERTY KeepsLedger
