----------------------------- MODULE MCSchedule -----------------------------
(***************************************************************************)
(* Where times are offered, chosen and kept elsewhere, on small instances: *)
(* the slots of a day, a booking's events at Google, the copy of Google's  *)
(* events, the limit on syncs by hand, the booking wizard and its date and *)
(* time step.                                                              *)
(*                                                                         *)
(* The six components share no state.  A behaviour therefore lets one of   *)
(* them run, in the circumstances that `under' names, and leaves the       *)
(* others as they are initially: every property is of one component.       *)
(***************************************************************************)
EXTENDS Naturals, Sequences, FiniteSets

CONSTANTS y1, None   \* model values

CONSTANTS                       \* of the slots of a day, a booking's events at Google, the limit on syncs
                                \* by hand, the copy of Google's events, the wizard, and its date and time step
  DayLength, DayNoon, SlotLength, SlotBefore, SlotAfter, DayStaff, MovesStaff, MaxDayBusy,
  PushTimes, MaxPushJobs, MaxPushFaults, MovedCalendars, MovedTimes, MaxMovedJobs,
  SyncRequests, SyncLimit, MaxAccepted,
  MirrorEvents, MirrorTimes, MaxMirrorChanges, MaxMirrorDeaths,
  OverlapEvents, OverlapSyncs, MaxOverlapChanges,
  PaidSteps, FreeSteps, PreviewSteps, BackSteps, WizardSlots, BackSlots, BasePrice, AddOnPrice, MaxCalls,
  PickerDates, PickerHours, MaxPickerFetches, MaxPickerPicks, MaxPickerChanges

VARIABLES
  under,
  dayRules, dayBlocked, dayBusy, dayPage,
  pushActive, pushBooking, pushJobs, pushHand, pushGoogle, pushRows,
  pushNext, pushFaults,
  mirrorGoogle, mirrorChanged, mirrorNow, mirrorOldest, mirrorToken,
  mirrorRows, mirrorDeaths, mirrorSync,
  limitKey, limitRead, limitAt, limitAccepted,
  wizardFlow, wizardSrv, wizardHeld, wizardWasHeld, wizardTaken,
  wizardBookings, wizardPage, wizardView, wizardPatches, wizardReserves,
  wizardPays, wizardUi, wizardCharged,
  pickerFree, pickerSelected, pickerSlots, pickerPrevKey, pickerLoading,
  pickerError, pickerFetches, pickerNext, pickerEffect, pickerChosen,
  pickerPicks, pickerChanges

dayVars    == <<dayRules, dayBlocked, dayBusy, dayPage>>
pushVars   == <<pushActive, pushBooking, pushJobs, pushHand, pushGoogle,
                pushRows, pushNext, pushFaults>>
mirrorVars == <<mirrorGoogle, mirrorChanged, mirrorNow, mirrorOldest,
                mirrorToken, mirrorRows, mirrorDeaths, mirrorSync>>
limitVars  == <<limitKey, limitRead, limitAt, limitAccepted>>
wizardVars == <<wizardFlow, wizardSrv, wizardHeld, wizardWasHeld,
                wizardTaken, wizardBookings, wizardPage, wizardView,
                wizardPatches, wizardReserves, wizardPays, wizardUi,
                wizardCharged>>
pickerVars == <<pickerFree, pickerSelected, pickerSlots, pickerPrevKey,
                pickerLoading, pickerError, pickerFetches, pickerNext,
                pickerEffect, pickerChosen, pickerPicks, pickerChanges>>
vars == <<under, dayVars, pushVars, mirrorVars, limitVars, wizardVars,
          pickerVars>>

Rule(from, to, own) == [from |-> from, to |-> to, venue |-> None, own |-> own]
Windows1 == {Rule(0, DayLength, FALSE)}
Windows3 == {Rule(0, DayNoon, FALSE), Rule(DayNoon, DayLength, FALSE), Rule(1, DayLength, TRUE)}

(* One rule; or the buffers the other way round, and rules of the tenant     *)
(* and of the service that staff add and remove while clients choose from a  *)
(* page that is new.                                                         *)
Day(Moving) == INSTANCE Availability WITH
  DayEnd <- DayLength, Duration <- SlotLength, Before <- IF Moving THEN SlotAfter ELSE SlotBefore,
  After <- IF Moving THEN SlotBefore ELSE SlotAfter, Venues <- {},
  Staff <- IF Moving THEN MovesStaff ELSE DayStaff, None <- None,
  Windows <- IF Moving THEN Windows3 ELSE Windows1,
  FirstRules <- IF Moving THEN Windows3 ELSE Windows1,
  RulesMove <- Moving, Fresh <- Moving, MaxBusy <- MaxDayBusy,
  rules <- dayRules, blocked <- dayBlocked, busy <- dayBusy, page <- dayPage

(* One calendar, of whose steps Faults fail; or several, that the owner      *)
(* disconnects while the client acts in the portal.                          *)
Push(Two, Faults) == INSTANCE CalendarPush WITH
  Connections <- IF Two THEN MovedCalendars ELSE {1}, Times <- IF Two THEN MovedTimes ELSE PushTimes,
  MaxJobs <- IF Two THEN MaxMovedJobs ELSE MaxPushJobs, MaxFaults <- Faults,
  MovesPending <- Two, Portal <- Two, Disconnects <- Two,
  active <- pushActive, booking <- pushBooking, jobs <- pushJobs,
  hand <- pushHand, google <- pushGoogle, rows <- pushRows,
  next <- pushNext, faults <- pushFaults

(* One sync at a time; or several.                                           *)
Mirror(Overlap, Expiring, Deaths) == INSTANCE CalendarMirror WITH
  Events <- IF Overlap THEN OverlapEvents ELSE MirrorEvents, Times <- MirrorTimes,
  Syncs <- IF Overlap THEN OverlapSyncs ELSE {y1},
  MaxChanges <- IF Overlap \/ Expiring THEN MaxOverlapChanges ELSE MaxMirrorChanges,
  Expires <- Expiring, MaxDeaths <- Deaths,
  google <- mirrorGoogle, changed <- mirrorChanged, now <- mirrorNow,
  oldest <- mirrorOldest, token <- mirrorToken, rows <- mirrorRows,
  deaths <- mirrorDeaths, sync <- mirrorSync

(* Three requests at once, of which four are allowed: fewer than 35 are      *)
(* accepted.                                                                 *)
Limit == INSTANCE ManualSync WITH
  Requests <- SyncRequests, Limit <- SyncLimit, Cap <- MaxAccepted,
  key <- limitKey, read <- limitRead, at <- limitAt, accepted <- limitAccepted

Service(has, paid, preview) == [has |-> has, paid |-> paid, preview |-> preview]
WithWayBack == {Service(BackSteps, FALSE, FALSE)}
NoWayBack   == {Service(PaidSteps, TRUE, FALSE), Service(FreeSteps, FALSE, FALSE), Service(PreviewSteps, TRUE, TRUE)}

(* A step the client can go back from; or none, and calls that may fail.     *)
Wizard(Back, Failing) == INSTANCE BookingWizard WITH
  Flows <- IF Back THEN WithWayBack ELSE NoWayBack,
  Slots <- IF Back THEN BackSlots ELSE WizardSlots, None <- None, Base <- BasePrice, AddOn <- AddOnPrice,
  Failures <- Failing, MaxInFlight <- MaxCalls,
  flow <- wizardFlow, srv <- wizardSrv, held <- wizardHeld,
  wasHeld <- wizardWasHeld, taken <- wizardTaken,
  bookings <- wizardBookings, page <- wizardPage, view <- wizardView,
  patches <- wizardPatches, reserves <- wizardReserves, pays <- wizardPays,
  ui <- wizardUi, charged <- wizardCharged

Picker == INSTANCE DatePicker WITH
  Dates <- PickerDates, Hours <- PickerHours, None <- None, MaxFetches <- MaxPickerFetches,
  MaxPicks <- MaxPickerPicks, MaxChanges <- MaxPickerChanges,
  free <- pickerFree, selected <- pickerSelected, slots <- pickerSlots,
  prevKey <- pickerPrevKey, loading <- pickerLoading, error <- pickerError,
  fetches <- pickerFetches, next <- pickerNext, effect <- pickerEffect,
  chosen <- pickerChosen, picks <- pickerPicks, changes <- pickerChanges

ASSUME ScheduleAssumption ==
  /\ Limit!ManualSyncAssumption /\ Picker!DatesAssumption
  /\ \A b \in BOOLEAN :
       /\ Day(b)!AvailabilityAssumption /\ Push(b, MaxPushFaults)!CalendarPushAssumption
       /\ Mirror(b, FALSE, MaxMirrorDeaths)!CalendarMirrorAssumption /\ Wizard(b, ~b)!WizardAssumption
  /\ PaidSteps \cup FreeSteps \cup PreviewSteps \subseteq {"STAFF_SELECTION", "GUEST_COUNT"}

-----------------------------------------------------------------------------
WizardModes == {"wizard", "wizard, calls fail", "wizard, way back"}

Init ==
  /\ under \in {"day", "day, rules move", "limit", "picker", "push", "push, steps fail", "push, calendars disconnected",
               "mirror", "mirror, tokens expire", "mirror, two syncs", "wizard", "wizard, calls fail",
               "wizard, way back"}
  /\ IF under = "day, rules move" THEN Day(TRUE)!Init ELSE Day(FALSE)!Init
  /\ IF under = "push, calendars disconnected" THEN Push(TRUE, 0)!Init ELSE Push(FALSE, 0)!Init
  /\ IF under = "mirror, two syncs" THEN Mirror(TRUE, FALSE, 1)!Init ELSE Mirror(FALSE, FALSE, 0)!Init
  /\ Limit!Init
  /\ IF under = "wizard, way back" THEN Wizard(TRUE, FALSE)!Init ELSE Wizard(FALSE, FALSE)!Init
  /\ under \notin WizardModes => wizardFlow.paid /\ ~wizardFlow.preview
  /\ Picker!Init /\ (under # "picker" => pickerFree = {})

Turn(name, action, others) == under = name /\ action /\ UNCHANGED <<under, others>>

NotDay    == <<pushVars, mirrorVars, limitVars, wizardVars, pickerVars>>
NotPush   == <<dayVars, mirrorVars, limitVars, wizardVars, pickerVars>>
NotMirror == <<dayVars, pushVars, limitVars, wizardVars, pickerVars>>
NotLimit  == <<dayVars, pushVars, mirrorVars, wizardVars, pickerVars>>
NotWizard == <<dayVars, pushVars, mirrorVars, limitVars, pickerVars>>
NotPicker == <<dayVars, pushVars, mirrorVars, limitVars, wizardVars>>

Next ==
  \/ Turn("day", Day(FALSE)!Next, NotDay)
  \/ Turn("day, rules move", Day(TRUE)!Next, NotDay)
  \/ Turn("push", Push(FALSE, 0)!Next, NotPush)
  \/ Turn("push, steps fail", Push(FALSE, MaxPushFaults)!Next, NotPush)
  \/ Turn("push, calendars disconnected", Push(TRUE, 0)!Next, NotPush)
  \/ Turn("mirror", Mirror(FALSE, FALSE, 0)!Next, NotMirror)
  \/ Turn("mirror, tokens expire", Mirror(FALSE, TRUE, MaxMirrorDeaths)!Next, NotMirror)
  \/ Turn("mirror, two syncs", Mirror(TRUE, FALSE, 1)!Next, NotMirror)
  \/ Turn("limit", Limit!Next, NotLimit)
  \/ Turn("wizard", Wizard(FALSE, FALSE)!Next, NotWizard)
  \/ Turn("wizard, calls fail", Wizard(FALSE, TRUE)!Next, NotWizard)
  \/ Turn("wizard, way back", Wizard(TRUE, FALSE)!Next, NotWizard)
  \/ Turn("picker", Picker!Next, NotPicker)

Spec == Init /\ [][Next]_vars

-----------------------------------------------------------------------------
(* A slot that is offered for a member or for none can be held at that       *)
(* moment, and between two that are taken the service's buffers lie          *)
(* (AvailabilityService.getAvailableSlots, ReservationService.reserveSlot).  *)
OfferedCanBeHeld ==
  under = "day" => Day(FALSE)!TypeOK /\ Day(FALSE)!OfferedCanBeHeld /\ Day(FALSE)!BuffersKept

(* While clients choose from a new page, no slot is held over an event of an *)
(* external calendar or on a blocked date, whatever becomes of the rules;    *)
(* and the slots offered at once do not meet.                                *)
HeldWhereOpen ==
  /\ [](under = "day, rules move" => Day(TRUE)!TypeOK /\ Day(TRUE)!OfferedApart)
  /\ [][under = "day, rules move" => Day(TRUE)!ClearOfEvents /\ Day(TRUE)!OnOpenDate]_vars

(* Once the jobs are done Google has one event of a confirmed booking, at    *)
(* its time, and none of another; also where steps fail none is missing; and *)
(* no event of a connected calendar lacks its row (EventPushHandler).        *)
(* Requests for a sync by hand that read the counter at once write each      *)
(* other's counts away, yet only so many are accepted while it lives         *)
(* (CalendarService.manualSync).                                   *)
PushedOnce ==
  /\ under = "push" => Push(FALSE, 0)!TypeOK /\ Push(FALSE, 0)!MirrorsBooking
  /\ under = "push, steps fail" => Push(FALSE, MaxPushFaults)!TypeOK /\ Push(FALSE, MaxPushFaults)!NothingIsMissing
  /\ under = "push, calendars disconnected" => Push(TRUE, 0)!TypeOK /\ Push(TRUE, 0)!EventsHaveRows
  /\ Limit!TypeOK /\ Limit!AcceptedBounded

(* What changed at Google before the stored token was given is in the rows;  *)
(* also where syncs die and tokens are refused, what exists is; and syncs    *)
(* that overlap make no more rows of an event than there are syncs           *)
(* (CalendarService.syncInboundEvents).                                            *)
CalendarsAreRead ==
  /\ under = "mirror" => Mirror(FALSE, FALSE, 0)!TypeOK /\ Mirror(FALSE, FALSE, 0)!TokenMeansMirrored
  /\ under = "mirror, tokens expire" =>
       Mirror(FALSE, TRUE, MaxMirrorDeaths)!TypeOK /\ Mirror(FALSE, TRUE, MaxMirrorDeaths)!ExistingAreMirrored
  /\ under = "mirror, two syncs" => Mirror(TRUE, FALSE, 1)!TypeOK /\ Mirror(TRUE, FALSE, 1)!RowsBounded

(* However answers are late, lost or overtaken, the slot in a session was    *)
(* held by it; without a way back the tab is at most one step behind the     *)
(* row, and if no call fails the slot shown is the one that was charged.     *)
ShownIsHeld ==
  /\ under = "wizard, way back" => Wizard(TRUE, FALSE)!TypeOK /\ Wizard(TRUE, FALSE)!ShownWasHeld
  /\ under = "wizard, calls fail" => Wizard(FALSE, TRUE)!ShownWasHeld /\ Wizard(FALSE, TRUE)!ViewFollows
  /\ under = "wizard" => Wizard(FALSE, FALSE)!ShownWasHeld /\ Wizard(FALSE, FALSE)!ShownIsCharged

(* A poll that finds nothing new leaves nothing stale on the page, whatever  *)
(* order answers come in (date-time-picker-step.tsx, prevSlotsRef).          *)
ListIsKey == Picker!TypeOK /\ Picker!ListIsKey
=============================================================================
