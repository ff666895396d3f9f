\* Two requests interleaved with each other and with the settling job.
SPECIFICATION FairSpec
CONSTANTS
  Requests = {w1, w2}
  MaxMoves = 1
CHECK_DEADLOCK FALSE
INVARIANTS TypeOK MovesBounded ArrivedIsCheckedIn
PROPERTIES RulesUnlessStale PastBookingsSettle
