\* Fourteen components, one per behaviour: processes die, requests overlap.
SPECIFICATION Spec
CONSTANTS
  w1 = w1
  d1 = d1
  j1 = j1
  h1 = h1
  u1 = u1
  u2 = u2
  k1 = k1
  k2 = k2
  Bad = Bad
  NoEvent = NoEvent
  NoSub = NoSub
  None = None
  BreakerCallers = {w1, w2}
  BreakerThreshold = 2
  MaxBreakerFailures = 6
  MaxBreakerDeaths = 1
  HookDeliveries = {d1, d2}
  HookThreshold = 2
  HookAttempts = 2
  HookTries = 2
  MaxHookEnables = 1
  FlowStages = 3
  FlowTries = 1
  WaitClients = {c1, c2}
  WaitDays = {1, 2}
  WaitHandlers = {h1, h2}
  MaxWaitEntries = 2
  StripeWorkers = {w1, w2}
  StripeSubs = {s1, s2}
  StripePlans = {"STARTER", "TEAM"}
  FreePlan = "STARTER"
  MaxStripeEvents = 3
  MaxStripeDeaths = 1
  StripeAccounts = {a1, a2}
  MaxStripeChanges = 3
  MailAttempts = 4
  InboxEvents = {e1, e2}
  InboxOfStripe = {e1}
  InboxSuccesses = {e1}
  InboxFailures = {e2}
  InboxWorkers = {w1, w2}
  InboxRetries = 2
  SyncProvider = "XERO"
  SyncRequests = {r1}
  SyncBatch = 1
  MaxSyncDocs = 1
  SyncRetries = 1
  RemindHorizon = 4
  InvoiceLead = 1
  RemindScope <- RemindScopes
  ImportJobs = {1, 2}
  ClientFiles <- TwiceAndBad
  ServiceFiles <- AlsoGood
  ImportKeys = {k1, k2}
  ImportBatch = 2
  ImportAttempts = 2
  DigestNotes = {1, 2}
  DigestFrequencies = {"HOURLY", "DAILY"}
  DigestDay = 2
  DigestRuns = {u1}
  DigestCap = 1
  HourlyDigestCap = 2
  MaxDigestCuts = 1
  MaxDigestTime = 2
  MaxHourlyDigests = 6
  NewsMembers <- OwnerAndAdmin
  NewsAutomations <- SmsToClients
  HoursOfDay = 3
  NightFrom = 2
  NightTo = 1
  SmsTries = 2
  MaxNews = 2
  MaxNewsTime = 4
  MaxFailingNewsTime = 7
  MaxFailingNews = 1
  PushJobs = {1, 2, 3}
  PushByListener = {1, 2}
  PushPages = {1, 2}
  PushEndpoints = {1}
  PushLimit = 1
  MaxPushFailures = 2
  PushTries = 2
  PushHour = 2
  MaxPushTime = 2
  OverlapJobs = {1, 3}
  OverlapByListener = {1}
  OverlapPages = {1}
  OverlapHour = 1
  MaxOverlapTime = 1
INVARIANTS CircuitOpens FailuresDisable StatusTellsImmediate JobsActOnce NoticesAccounted
PROPERTIES WaitlistIsFair StripeOnce
CHECK_DEADLOCK FALSE
