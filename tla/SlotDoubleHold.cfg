SPECIFICATION Spec
CONSTANTS
  Sessions = {s1, s2}
  Holds = {h1, h2}
  Bookings = {b1}
  Requests = {w1, w2}
  Slots <- OneSlot
  Staff = {}
  NoSession = NoSession
  NoHold = NoHold
  NoBooking = NoBooking
  NoSlot = NoSlot
  NoStaff = NoStaff
  AutoConfirm = TRUE
  WrittenStatus = {"CANCELLED"}
SYMMETRY Symmetric
CHECK_DEADLOCK FALSE
INVARIANT NoDoubleHold
