\* The retry job with the webhook; every delivered event is handled.
SPECIFICATION FairRetrySpec
CONSTANTS
  Payments = {p1}
  Amount = 2
  RefundAmounts = {0, 1}
  PolicyRefund = 1
  MaxRetries = 2
  Requests = {w1}
  NoPayment = NoPayment
  IdsAreUuid = FALSE
CHECK_DEADLOCK FALSE
INVARIANT TypeOK
PROPERTY ChargeIsRecorded
