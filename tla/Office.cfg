\* Eight components, one per behaviour.
SPECIFICATION Spec
CONSTANTS
  r1 = r1
  None = None
  PaidBookings = {b1, b2}
  DueBookings = {b1}
  InvoicesBefore = 8
  FirstLongNumber = 10
  TeamUsers = {u1, u2, u3}
  TeamFounders = {u1, u2}
  TeamRequests = {r1, r2}
  MaxTeamChanges = 3
  MaxTeamRaces = 2
  MaxInvites = 3
  MaxInviteDeaths = 2
  SessionTabs = {r1, r2}
  MaxSessionPairs = 6
  MaxSessionExpiries = 5
  MaxTabPairs = 4
  MaxTabExpiries = 2
  ContractStaff = {r1, r2, r3}
  ContractVisitors = {r1, r2}
  MaxStaffSignatures = 4
  MaxPortalSignatures = 6
  UsedDiscounts = {d1}
  WrittenDiscounts = {d1, d2, d3}
  DiscountCodes = {x1, x2}
  DiscountSessions = {s1, s2}
  DiscountPrice = 1
  DiscountWorkers = {w1, w2}
  UsedLimits = {1, 2}
  WrittenLimits = {1}
  MaxDiscountTime = 1
  MaxDiscountUses = 4
  QuoteEditors = {r1, r2}
  MaxQuoteVersions = 2
  MaxQuoteItems = 2
  MaxRacedItems = 1
  QuotePrices = {1, 2}
  RacedPrices = {1}
  MaxQuoteDeaths = 2
  FreeHours = {0, 2}
  LateFees = {50, 150}
  HoursWithoutRefund = {0, 1}
  DepositAmounts = {2, 50}
  HourPrices = {3}
  FixedPrices = {1, 300}
  BookedMinutes = 30
  HighFee = 60
  LowFee = 1
  ReferralPercent = 20
  ReferralCap = 50
  HoursBefore = 3
  MaxIntents = 2
  MaxMoneyBookings = 1
CHECK_DEADLOCK FALSE
INVARIANTS NumbersAreSequential ContractsAreSigned UsesAreCounted MoneyAddsUp TeamIsKept StaysSignedIn
PROPERTY QuotesAreKept
