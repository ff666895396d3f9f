\* Six components, one per behaviour.
SPECIFICATION Spec
CONSTANTS
  y1 = y1
  None = None
  DayLength = 6
  DayNoon = 3
  SlotLength = 2
  SlotBefore = 0
  SlotAfter = 1
  DayStaff = {m1, m2}
  MovesStaff = {m1}
  MaxDayBusy = 2
  PushTimes = {0, 1, 2}
  MaxPushJobs = 5
  MaxPushFaults = 3
  MovedCalendars = {1, 2}
  MovedTimes = {0, 1}
  MaxMovedJobs = 3
  SyncRequests = {r1, r2, r3}
  SyncLimit = 4
  MaxAccepted = 36
  MirrorEvents = {e1, e2}
  MirrorTimes = {0, 1}
  MaxMirrorChanges = 4
  MaxMirrorDeaths = 2
  OverlapEvents = {e1}
  OverlapSyncs = {y1, y2}
  MaxOverlapChanges = 3
  PaidSteps = {"GUEST_COUNT"}
  FreeSteps = {"STAFF_SELECTION"}
  PreviewSteps = {}
  BackSteps = {"STAFF_SELECTION", "ADD_ONS"}
  WizardSlots = {s1, s2}
  BackSlots = {s1}
  BasePrice = 2
  AddOnPrice = 1
  MaxCalls = 2
  PickerDates = {1, 2}
  PickerHours = {h1}
  MaxPickerFetches = 2
  MaxPickerPicks = 3
  MaxPickerChanges = 2
CHECK_DEADLOCK FALSE
INVARIANTS OfferedCanBeHeld   ShownIsHeld ListIsKey
 
