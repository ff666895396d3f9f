------------------------------- MODULE MCNotices -------------------------------
(***************************************************************************)
(* What the application tells people, on small instances, as MCMessages     *)
(* runs it: reminders of bookings and invoices, what owner, staff and       *)
(* client hear of a booking's changes, notifications on the owner's         *)
(* screens, digests, and the imports by which a business brings its clients. *)
(***************************************************************************)
EXTENDS Naturals, Sequences, FiniteSets, TLC

CONSTANTS u1, u2, k1, k2, Bad    \* model values: runs; rows of a file

CONSTANTS                       \* of reminders: the days ahead, an invoice's lead; and per circumstance
  RemindHorizon, InvoiceLead, RemindScope

CONSTANTS                       \* of imports; files of clients, of services
  ImportJobs, ClientFiles, ServiceFiles, ImportKeys, ImportBatch, ImportAttempts

CONSTANTS                       \* of digests, at any time or by the hour
  DigestNotes, DigestFrequencies, DigestDay, DigestRuns, DigestCap, HourlyDigestCap,
  MaxDigestCuts, MaxDigestTime, MaxHourlyDigests

CONSTANTS                       \* of SMS, of notifications on screens
  NewsMembers, NewsAutomations, HoursOfDay, NightFrom, NightTo, SmsTries,
  MaxNews, MaxNewsTime, MaxFailingNews, MaxFailingNewsTime,
  PushJobs, PushByListener, PushPages, PushEndpoints, PushLimit, PushHour, MaxPushFailures, PushTries, MaxPushTime,
  OverlapJobs, OverlapByListener, OverlapPages, OverlapHour, MaxOverlapTime

VARIABLES
  under,    \* the component that runs, and in which circumstances
  remindNow, remindStart, remindDue, remindStatus, remindChanged, remindUnpaid,
  remindMoves, remindRows, remindSent, remindLost, remindRun, remindRan,
  importFile, importStatus, importStats, importRecords, importMade, importJob,
  newsNow, newsStatus, newsHeard, newsEngine, newsTold, newsFailed, newsSms,
  newsTexts, newsRows,
  screenNow, screenRows, screenPage, screenGone, screenRate, screenJob,
  screenPushed, screenDevice,
  digestNow, digestFreq, digestCreated, digestRead, digestMailed, digestRows,
  digestRun, digestRan, digestCuts, digestCut

remindVars == <<remindNow, remindStart, remindDue, remindStatus, remindChanged,
                remindUnpaid, remindMoves, remindRows, remindSent, remindLost,
                remindRun, remindRan>>
importVars == <<importFile, importStatus, importStats, importRecords, importMade,
                importJob>>
newsVars   == <<newsNow, newsStatus, newsHeard, newsEngine, newsTold, newsFailed,
                newsSms, newsTexts, newsRows>>
screenVars == <<screenNow, screenRows, screenPage, screenGone, screenRate, screenJob,
                screenPushed, screenDevice>>
digestVars == <<digestNow, digestFreq, digestCreated, digestRead, digestMailed,
                digestRows, digestRun, digestRan, digestCuts, digestCut>>
noticeVars == <<remindVars, importVars, newsVars, screenVars, digestVars>>

(* One run of each job in every hour, and a booking that is moved; or two     *)
(* that overlap, fail and die.                                               *)
RemindScopes ==
  [Hourly \in BOOLEAN |->
     IF Hourly THEN [runs |-> {u1}, day |-> 2, intervals |-> <<3, 1>>, starts |-> {3, 7}, moves |-> 1, time |-> 8]
     ELSE [runs |-> {u1, u2}, day |-> 1, intervals |-> <<1>>, starts |-> {2}, moves |-> 0, time |-> 2]]

Remind(Hourly) == INSTANCE Reminders WITH
  Runs <- RemindScope[Hourly].runs, Day <- RemindScope[Hourly].day, Intervals <- RemindScope[Hourly].intervals,
  Horizon <- RemindHorizon, Starts <- RemindScope[Hourly].starts, DueBefore <- InvoiceLead,
  MaxMoves <- RemindScope[Hourly].moves, MaxTime <- RemindScope[Hourly].time, Faults <- ~Hourly, Prompt <- Hourly,
  now <- remindNow, start <- remindStart, due <- remindDue, status <- remindStatus,
  changed <- remindChanged, unpaid <- remindUnpaid, moves <- remindMoves,
  rows <- remindRows, sent <- remindSent, lost <- remindLost, run <- remindRun,
  ran <- remindRan

(* A file may name a client twice and have a row that is no good.            *)
TwiceAndBad == {<<k1, k1, Bad>>}
AlsoGood    == {<<k1, k1, Bad>>, <<k1, k2>>}

(* Imports of clients at once, or of services one after the other, that die;  *)
(* or one that does not.                                                     *)
Import(Kind, Dying) == INSTANCE ImportRun WITH
  Jobs <- IF Dying THEN ImportJobs ELSE {1}, Type <- Kind,
  Files <- IF Kind = "CLIENTS" THEN ClientFiles ELSE ServiceFiles, Keys <- ImportKeys, Invalid <- Bad,
  Batch <- ImportBatch, Attempts <- ImportAttempts, Deaths <- Dying, AtOnce <- (Kind = "CLIENTS"),
  file <- importFile, status <- importStatus, stats <- importStats,
  records <- importRecords, made <- importMade, job <- importJob

(* Days with a night.  Few events and all that can fail of them; or as many   *)
(* as Events.                                                                *)
OwnerAndAdmin == <<"owner", "admin">>
SmsToClients  == [k \in {"CREATED", "CANCELLED", "NO_SHOW"} |-> <<>>] @@ "COMPLETED" :> <<"NOTIFICATION">>
                   @@ "CONFIRMED" :> <<"EMAIL", "SMS">> @@ "RESCHEDULED" :> <<"EMAIL">>

News(Failing, Events) == INSTANCE EventNews WITH
  Members <- NewsMembers, Automations <- NewsAutomations,
  DayHours <- HoursOfDay, QuietStart <- NightFrom, QuietEnd <- NightTo, Tries <- SmsTries, Faults <- Failing,
  MaxEvents <- Events, MaxTime <- IF Failing THEN MaxFailingNewsTime ELSE MaxNewsTime,
  now <- newsNow, status <- newsStatus, heard <- newsHeard, engine <- newsEngine,
  told <- newsTold, failed <- newsFailed, sms <- newsSms, texts <- newsTexts,
  rows <- newsRows

(* Three deliveries one after the other to two browsers; or two at once, and  *)
(* whatever may fail.                                                        *)
Screen(Overlap) == INSTANCE PushDelivery WITH
  Jobs <- IF Overlap THEN OverlapJobs ELSE PushJobs,
  ByListener <- IF Overlap THEN OverlapByListener ELSE PushByListener,
  Pages <- IF Overlap THEN OverlapPages ELSE PushPages, Endpoints <- PushEndpoints, Limit <- PushLimit,
  Hour <- IF Overlap THEN OverlapHour ELSE PushHour, MaxFailures <- MaxPushFailures, Tries <- PushTries, Faults <- Overlap,
  AtOnce <- Overlap, UserActs <- Overlap, MaxTime <- IF Overlap THEN MaxOverlapTime ELSE MaxPushTime,
  now <- screenNow, rows <- screenRows, page <- screenPage, gone <- screenGone,
  rate <- screenRate, job <- screenJob, pushed <- screenPushed, device <- screenDevice

(* The jobs run in every hour; or at any time, and once something fails.      *)
Digest(Hourly) == INSTANCE NotificationDigest WITH
  Notes <- DigestNotes, Frequencies <- DigestFrequencies, Day <- DigestDay,
  Cap <- IF Hourly THEN HourlyDigestCap ELSE DigestCap, Runs <- DigestRuns, Changes <- ~Hourly, Prompt <- Hourly,
  MaxCuts <- IF Hourly THEN 0 ELSE MaxDigestCuts, MaxTime <- IF Hourly THEN MaxHourlyDigests ELSE MaxDigestTime,
  now <- digestNow, freq <- digestFreq, created <- digestCreated, isRead <- digestRead,
  mailed <- digestMailed, digests <- digestRows, run <- digestRun, ran <- digestRan,
  cuts <- digestCuts, cut <- digestCut

NoticesAssumed ==
  /\ \A b \in BOOLEAN : /\ Remind(b)!RemindersAssumption /\ (\A n \in {1, MaxNews, MaxFailingNews} : News(b, n)!NewsAssumption)
                        /\ Screen(b)!PushAssumption /\ Digest(b)!DigestAssumption
  /\ \A k \in {"CLIENTS", "SERVICES"} : Import(k, TRUE)!ImportAssumption

-----------------------------------------------------------------------------
NoticeModes == {"reminders", "reminders, hourly", "clients", "services", "news", "news, steps fail",
                "screens", "screens, at once", "digests", "digests, hourly"}

Turn(name, action, others) == under = name /\ action /\ UNCHANGED <<under, others>>

NoticesInit ==
  /\ IF under = "reminders, hourly" THEN Remind(TRUE)!Init ELSE Remind(FALSE)!Init
  /\ IF under = "clients, nobody dies" THEN Import("CLIENTS", FALSE)!Init ELSE Import("SERVICES", TRUE)!Init
  /\ under # "services" => \A j \in DOMAIN importFile : importFile[j] \in ClientFiles
  /\ IF under = "news" THEN News(FALSE, MaxNews)!Init ELSE News(TRUE, MaxFailingNews)!Init
  /\ under \notin {"news", "news, steps fail", "news, one event"} => newsNow = 0 /\ newsStatus = "NONE"
  /\ IF under = "screens" THEN Screen(FALSE)!Init ELSE Screen(TRUE)!Init
  /\ IF under = "digests, hourly" THEN Digest(TRUE)!Init ELSE Digest(FALSE)!Init
  /\ under \notin {"digests", "digests, hourly"} => digestFreq = CHOOSE f \in DigestFrequencies : TRUE

NotRemind == <<importVars, newsVars, screenVars, digestVars>>
NotImport == <<remindVars, newsVars, screenVars, digestVars>>
NotNews   == <<remindVars, importVars, screenVars, digestVars>>
NotScreen == <<remindVars, importVars, newsVars, digestVars>>
NotDigest == <<remindVars, importVars, newsVars, screenVars>>

NoticesNext ==
  \/ Turn("reminders", Remind(FALSE)!Next, NotRemind)
  \/ Turn("reminders, hourly", Remind(TRUE)!Next, NotRemind)
  \/ Turn("clients", Import("CLIENTS", TRUE)!Next, NotImport)
  \/ Turn("services", Import("SERVICES", TRUE)!Next, NotImport)
  \/ Turn("news", News(FALSE, MaxNews)!Next, NotNews)
  \/ Turn("news, steps fail", News(TRUE, MaxFailingNews)!Next, NotNews)
  \/ Turn("screens", Screen(FALSE)!Next, NotScreen)
  \/ Turn("screens, at once", Screen(TRUE)!Next, NotScreen)
  \/ Turn("digests", Digest(FALSE)!Next, NotDigest)
  \/ Turn("digests, hourly", Digest(TRUE)!Next, NotDigest)

ImportTurn(action) == Turn("clients, nobody dies", action, NotImport)
NewsTurn(action)   == Turn("news, one event", action, NotNews)

LiveNotices == ImportTurn(Import("CLIENTS", FALSE)!Next) \/ NewsTurn(News(FALSE, 1)!Next)

-----------------------------------------------------------------------------
(* However the runs of a job overlap, fail and die, a client is reminded once *)
(* and a reminder's row is one e-mail; a notification is in one digest, and   *)
(* none that was due is left out of it.                                      *)
RemindedOnce ==
  /\ under = "reminders" => Remind(FALSE)!TypeOK /\ Remind(FALSE)!RemindedOnce /\ Remind(FALSE)!RowsAccounted
  /\ under = "reminders, hourly" =>
       Remind(TRUE)!TypeOK /\ Remind(TRUE)!RemindedOnce /\ Remind(TRUE)!RowsAccounted /\ Remind(TRUE)!NoneMissed

DigestedOnce ==
  /\ under = "digests" => Digest(FALSE)!TypeOK /\ Digest(FALSE)!MailedOnce /\ Digest(FALSE)!NoneLeftOut
  /\ under = "digests, hourly" => Digest(TRUE)!TypeOK /\ Digest(TRUE)!MailedOnce /\ Digest(TRUE)!NoneLeftOut

(* An import that is completed counts and records every row of its file, and  *)
(* an attempt that repeats another doubles nothing.                          *)
ImportedWhole(k) ==
  /\ Import(k, TRUE)!TypeOK /\ Import(k, TRUE)!CompletedIsWhole
  /\ Import(k, TRUE)!ImportedIsThere /\ Import(k, TRUE)!NoneDoubled

ImportedOnce ==
  /\ under = "clients" => ImportedWhole("CLIENTS")
  /\ under = "services" => ImportedWhole("SERVICES")

(* What fails costs only what comes after it in its own try; an SMS on record *)
(* was sent, and what waits for the morning waits once.                      *)
TextsAccounted(b, n) ==
  /\ News(b, n)!TypeOK /\ News(b, n)!FailuresAreIsolated
  /\ News(b, n)!TextsAreAccounted /\ News(b, n)!WaitsForMorning

ChangesAreTold ==
  /\ under = "news" => TextsAccounted(FALSE, MaxNews)
  /\ under = "news, steps fail" => TextsAccounted(TRUE, MaxFailingNews)

(* The owner's screens keep within the limit of an hour, and a telephone that *)
(* is broken is off.                                                         *)
ScreensAccounted ==
  /\ under = "screens" => Screen(FALSE)!TypeOK /\ Screen(FALSE)!WithinLimit /\ Screen(FALSE)!BrokenIsOff
  /\ under = "screens, at once" => Screen(TRUE)!TypeOK /\ Screen(TRUE)!BrokenIsOff

(* The owner is not woken, and a telephone that was switched off as broken is *)
(* not tried until it registers anew.                                        *)
OwnerIsSpared ==
  /\ under = "news" => News(FALSE, MaxNews)!NotWoken
  /\ under = "news, steps fail" => News(TRUE, MaxFailingNews)!NotWoken
  /\ under = "screens" => Screen(FALSE)!OffUntilRegistered

(* While nothing fails an import that has begun ends, and the owner hears of   *)
(* every change.                                                             *)
NoticesEnd ==
  /\ under = "clients, nobody dies" => Import("CLIENTS", FALSE)!ImportsEnd
  /\ under = "news, one event" => News(FALSE, 1)!OwnerIsTold
=============================================================================
