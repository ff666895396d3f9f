\* Every handler and job, under the fairness of the clock and the scheduler.
SPECIFICATION FairSpec
CONSTANTS
  Sessions = {s1}
  Holds = {h1}
  Bookings = {b1, b2, b3}
  Requests = {w1, w2}
  Slots <- OneSlot
  Staff = {}
  NoSession = NoSession
  NoHold = NoHold
  NoBooking = NoBooking
  NoSlot = NoSlot
  NoStaff = NoStaff
  AutoConfirm = TRUE
  WrittenStatus = {"CANCELLED"}
CHECK_DEADLOCK FALSE
INVARIANT BookingsPerHoldBounded
PROPERTY HoldsEnd
