\* One request at a time, a service without staff, overlapping slots.
SPECIFICATION DeskSpec
CONSTANTS
  Sessions = {s1, s2}
  Holds = {h1, h2}
  Bookings = {b1, b2}
  Requests = {w1}
  Slots <- TwoSlots
  Staff = {}
  NoSession = NoSession
  NoHold = NoHold
  NoBooking = NoBooking
  NoSlot = NoSlot
  NoStaff = NoStaff
  AutoConfirm = TRUE
  WrittenStatus = {"IN_PROGRESS", "CANCELLED"}
SYMMETRY Symmetric
CHECK_DEADLOCK FALSE
INVARIANTS Exclusive PaysForItsOwn
