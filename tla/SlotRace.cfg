\* Two requests interleaved statement by statement, with the jobs; two sessions, one slot.
SPECIFICATION WidgetSpec
CONSTANTS
  Sessions = {s1, s2}
  Holds = {h1, h2, h3}
  Bookings = {b1}
  Requests = {w1, w2}
  Slots <- OneSlot
  Staff = {}
  NoSession = NoSession
  NoHold = NoHold
  NoBooking = NoBooking
  NoSlot = NoSlot
  NoStaff = NoStaff
  AutoConfirm = TRUE
  WrittenStatus = {"PENDING", "CONFIRMED", "CANCELLED"}
SYMMETRY Symmetric
CHECK_DEADLOCK FALSE
INVARIANTS TypeOK CompletionIsAtomic OverlappingHoldsBounded
PROPERTY ConvertedIsFinal
