----------------------------- MODULE MCMessages -----------------------------
(***************************************************************************)
(* What the application does by itself and in answer to other services, on *)
(* small instances: the circuit breaker before Stripe and Resend, the      *)
(* webhooks it sends, workflow executions, the waitlist, e-mail through    *)
(* Inngest and Resend, the inbox of the payment providers' webhooks, the   *)
(* tenant's subscription and Stripe account, and the accounting service;   *)
(* and the five components of MCNotices.                                   *)
(*                                                                         *)
(* The components share no state.  A behaviour therefore lets one of  *)
(* them run, in the circumstances that `under' names, and leaves the       *)
(* others as they are initially: every property is of one component.       *)
(***************************************************************************)
EXTENDS MCNotices

CONSTANTS w1, d1, j1, h1, NoEvent, NoSub, None    \* model values

CONSTANTS                       \* of the circuit breaker, of webhooks, ...
  BreakerCallers, BreakerThreshold, MaxBreakerFailures, MaxBreakerDeaths,
  HookDeliveries, HookThreshold, HookAttempts, HookTries, MaxHookEnables,
  FlowStages, FlowTries,
  WaitClients, WaitDays, WaitHandlers, MaxWaitEntries,
  StripeWorkers, StripeSubs, StripePlans, FreePlan, MaxStripeEvents, MaxStripeDeaths,
  StripeAccounts, MaxStripeChanges,
  MailAttempts,
  InboxEvents, InboxOfStripe, InboxSuccesses, InboxFailures, InboxWorkers, InboxRetries,
  SyncProvider, SyncRequests, SyncBatch, MaxSyncDocs, SyncRetries

VARIABLES
  breakerCount, breakerTtl, breakerState, breakerCaller, breakerStreak,
  breakerUnopened, breakerDeaths,
  hookEndpoint, hookStatus, hookAttempts, hookEvent, hookAt, hookSeen,
  hookTries, hookEnables, hookInRow, hookCut,
  flowPlan, flowStatus, flowResults, flowStage, flowFailed, flowJob,
  flowTries, flowAt, flowEntry, flowCopy, flowRan,
  waitEntries, waitMade, waitJoin, waitHand, waitMailed,
  mailStatus, mailMessageId, mailEvent, mailAt, mailAttempts, mailAccepted,
  mailFate, mailNews,
  inboxOwed, inboxRow, inboxDead, inboxTries, inboxDone, inboxPayment,
  inboxWorker, inboxJob,
  subStripe, subEvents, subUnacked, subLogged, subTenant, subWork, subRefused,
  subDeaths,
  connectAccount, connectOnboarded, connectStripe, connectChanges,
  connectNews, connectWorker,
  syncStatus, syncStored, syncExpired, syncSynced, syncRows, syncPosted, syncJob

breakerVars == <<breakerCount, breakerTtl, breakerState, breakerCaller,
                 breakerStreak, breakerUnopened, breakerDeaths>>
hookVars    == <<hookEndpoint, hookStatus, hookAttempts, hookEvent, hookAt,
                 hookSeen, hookTries, hookEnables, hookInRow, hookCut>>
flowVars    == <<flowPlan, flowStatus, flowResults, flowStage, flowFailed,
                 flowJob, flowTries, flowAt, flowEntry, flowCopy, flowRan>>
waitVars    == <<waitEntries, waitMade, waitJoin, waitHand, waitMailed>>
mailVars    == <<mailStatus, mailMessageId, mailEvent, mailAt, mailAttempts,
                 mailAccepted, mailFate, mailNews>>
inboxVars   == <<inboxOwed, inboxRow, inboxDead, inboxTries, inboxDone,
                 inboxPayment, inboxWorker, inboxJob>>
subVars     == <<subStripe, subEvents, subUnacked, subLogged, subTenant, subWork,
                 subRefused, subDeaths>>
connectVars == <<connectAccount, connectOnboarded, connectStripe, connectChanges,
                 connectNews, connectWorker>>
syncVars    == <<syncStatus, syncStored, syncExpired, syncSynced, syncRows,
                 syncPosted, syncJob>>
vars == <<under, breakerVars, hookVars, flowVars, waitVars, mailVars,
          inboxVars, subVars, connectVars, syncVars, noticeVars>>

(* Callers that interleave, of which some die.                               *)
Breaker == INSTANCE CircuitBreaker WITH
  Callers <- BreakerCallers, Threshold <- BreakerThreshold,
  MaxFailures <- MaxBreakerFailures, MaxDeaths <- MaxBreakerDeaths,
  count <- breakerCount, ttl <- breakerTtl, state <- breakerState,
  caller <- breakerCaller, streak <- breakerStreak,
  unopened <- breakerUnopened, deaths <- breakerDeaths

(* Deliveries at once that die, or one that nothing dies at; the endpoint is *)
(* disabled after HookThreshold failures.                                    *)
Hook(Alone) == INSTANCE WebhookDelivery WITH
  Deliveries <- IF Alone THEN {d1} ELSE HookDeliveries, Threshold <- HookThreshold,
  MaxAttempts <- HookAttempts, Tries <- HookTries, MaxEnables <- MaxHookEnables, Deaths <- ~Alone,
  endpoint <- hookEndpoint, status <- hookStatus, attempts <- hookAttempts,
  event <- hookEvent, at <- hookAt, seen <- hookSeen, tries <- hookTries,
  enables <- hookEnables, inRow <- hookInRow, cut <- hookCut

(* Stages of which any are delayed, and some may be optional; or two, and    *)
(* nothing dies.                                                             *)
Flow(Dying) == INSTANCE WorkflowExecution WITH
  N <- IF Dying THEN FlowStages ELSE 2, Tries <- FlowTries, Deaths <- Dying,
  plan <- flowPlan, status <- flowStatus, results <- flowResults,
  stage <- flowStage, failed <- flowFailed, job <- flowJob,
  tries <- flowTries, at <- flowAt, entry <- flowEntry, copy <- flowCopy,
  ran <- flowRan

(* One request to join at a time, two cancellations; or one cancellation at  *)
(* a time, and nobody gives up waiting.                                      *)
Wait(Alone) == INSTANCE Waitlist WITH
  Clients <- WaitClients, Days <- WaitDays, Users <- {}, Joins <- {j1},
  Handlers <- IF Alone THEN {h1} ELSE WaitHandlers, MaxEntries <- MaxWaitEntries,
  Removals <- ~Alone,
  entries <- waitEntries, made <- waitMade, join <- waitJoin,
  hand <- waitHand, mailed <- waitMailed

(* Processes die, or none does.                                              *)
Email(Dying) == INSTANCE EmailDelivery WITH
  MaxAttempts <- MailAttempts, Deaths <- Dying,
  status <- mailStatus, messageId <- mailMessageId, event <- mailEvent,
  at <- mailAt, attempts <- mailAttempts, accepted <- mailAccepted,
  fate <- mailFate, news <- mailNews

(* Events of one payment that Stripe and PayPal tell of.                     *)
Inbox == INSTANCE WebhookInbox WITH
  Events <- InboxEvents,
  Gateway <- [e \in InboxEvents |-> IF e \in InboxOfStripe THEN "STRIPE" ELSE "PAYPAL"],
  Kind <- [e \in InboxEvents |-> IF e \in InboxSuccesses THEN "succeeded"
                                 ELSE IF e \in InboxFailures THEN "failed" ELSE "refunded"],
  Workers <- InboxWorkers, NoEvent <- NoEvent, MaxRetries <- InboxRetries,
  owed <- inboxOwed, row <- inboxRow, dead <- inboxDead, tries <- inboxTries,
  done <- inboxDone, payment <- inboxPayment, worker <- inboxWorker,
  job <- inboxJob

(* Subscriptions one after the other and all that Stripe says of them, in  *)
(* order; or requests at once and in any order, of which some die.         *)
Subscription(Ordered) == INSTANCE SubscriptionState WITH
  Subs <- StripeSubs, NoSub <- NoSub, Tiers <- StripePlans, Free <- FreePlan,
  InOrder <- Ordered, ByPortal <- Ordered,
  Workers <- IF Ordered THEN {w1} ELSE StripeWorkers,
  MaxEvents <- MaxStripeEvents, MaxDeaths <- IF Ordered THEN 0 ELSE MaxStripeDeaths,
  stripe <- subStripe, events <- subEvents, unacked <- subUnacked,
  logged <- subLogged, tenant <- subTenant, work <- subWork,
  refused <- subRefused, deaths <- subDeaths

(* Requests and events one at a time, or at once.                            *)
Connect(Alone) == INSTANCE ConnectAccount WITH
  Accounts <- StripeAccounts, None <- None,
  Workers <- IF Alone THEN {w1} ELSE StripeWorkers,
  MaxChanges <- MaxStripeChanges,
  account <- connectAccount, onboarded <- connectOnboarded,
  stripe <- connectStripe, changes <- connectChanges, news <- connectNews,
  worker <- connectWorker

(* A job that throws is run again.  The tokens are sent as they are stored;  *)
(* or as if they were decrypted first, so that the service takes them.       *)
Sync(Decrypting) == INSTANCE AccountingSync WITH
  Provider <- SyncProvider, Decrypts <- Decrypting, Requests <- SyncRequests,
  Batch <- SyncBatch, MaxDocs <- MaxSyncDocs, Retries <- SyncRetries,
  status <- syncStatus, stored <- syncStored, expired <- syncExpired,
  synced <- syncSynced, rows <- syncRows, posted <- syncPosted, job <- syncJob

ASSUME MessagesAssumption ==
  /\ Breaker!BreakerAssumption
  /\ \A b \in BOOLEAN :
       /\ Hook(b)!WebhookAssumption /\ Flow(b)!WorkflowAssumption /\ Wait(b)!WaitlistAssumption
       /\ Email(b)!EmailAssumption /\ Subscription(b)!SubscriptionStateAssumption
       /\ Connect(b)!ConnectAssumption /\ Sync(b)!AccountingAssumption
  /\ Inbox!InboxAssumption /\ NoticesAssumed

-----------------------------------------------------------------------------
Optional == {n \in DOMAIN flowPlan : flowPlan[n].optional}
Delayed  == {n \in DOMAIN flowPlan : flowPlan[n].delayed}

Start ==
  /\ NoticesInit
  /\ Breaker!Init /\ Email(TRUE)!Init /\ Inbox!Init /\ Sync(FALSE)!Init
  /\ IF under = "webhooks, nobody dies" THEN Hook(TRUE)!Init ELSE Hook(FALSE)!Init
  /\ IF under = "workflow, nobody dies" THEN Flow(FALSE)!Init ELSE Flow(TRUE)!Init
  /\ Optional \in (IF under = "workflow" THEN {{}, {1}} ELSE {{}})
  /\ under \notin {"workflow", "workflow, nobody dies"} => Delayed = {}
  /\ IF under = "waitlist, one by one" THEN Wait(TRUE)!Init ELSE Wait(FALSE)!Init
  /\ IF under = "subscription" THEN Subscription(FALSE)!Init ELSE Subscription(TRUE)!Init
  /\ IF under \in {"account", "account, kept"} THEN Connect(FALSE)!Init ELSE Connect(TRUE)!Init

Init ==
  /\ under \in {"breaker", "webhooks", "workflow", "waitlist", "mail", "inbox",
               "subscription", "account", "account, kept", "accounting",
               "accounting, tokens decrypted"} \cup NoticeModes
  /\ Start

NotBreaker == <<hookVars, flowVars, waitVars, mailVars, inboxVars, subVars, connectVars, syncVars, noticeVars>>
NotHook    == <<breakerVars, flowVars, waitVars, mailVars, inboxVars, subVars, connectVars, syncVars, noticeVars>>
NotFlow    == <<breakerVars, hookVars, waitVars, mailVars, inboxVars, subVars, connectVars, syncVars, noticeVars>>
NotWait    == <<breakerVars, hookVars, flowVars, mailVars, inboxVars, subVars, connectVars, syncVars, noticeVars>>
NotMail    == <<breakerVars, hookVars, flowVars, waitVars, inboxVars, subVars, connectVars, syncVars, noticeVars>>
NotInbox   == <<breakerVars, hookVars, flowVars, waitVars, mailVars, subVars, connectVars, syncVars, noticeVars>>
NotSub     == <<breakerVars, hookVars, flowVars, waitVars, mailVars, inboxVars, connectVars, syncVars, noticeVars>>
NotConnect == <<breakerVars, hookVars, flowVars, waitVars, mailVars, inboxVars, subVars, syncVars, noticeVars>>
NotSync    == <<breakerVars, hookVars, flowVars, waitVars, mailVars, inboxVars, subVars, connectVars, noticeVars>>

NotNotice  == <<breakerVars, hookVars, flowVars, waitVars, mailVars, inboxVars, subVars, connectVars, syncVars>>

Next ==
  \/ NoticesNext /\ UNCHANGED NotNotice
  \/ Turn("breaker", Breaker!Next, NotBreaker)
  \/ Turn("webhooks", Hook(FALSE)!Next, NotHook)
  \/ Turn("workflow", Flow(TRUE)!Next, NotFlow)
  \/ Turn("waitlist", Wait(FALSE)!Next, NotWait)
  \/ Turn("mail", Email(TRUE)!Next, NotMail)
  \/ Turn("inbox", Inbox!Next, NotInbox)
  \/ Turn("subscription", Subscription(FALSE)!Next, NotSub)
  \/ Turn("account", Connect(FALSE)!Next, NotConnect)
  \/ Turn("account, kept", Connect(FALSE)!Requests \/ Connect(FALSE)!Changes, NotConnect)
  \/ Turn("accounting", Sync(FALSE)!Works \/ Sync(FALSE)!Owner, NotSync)
  \/ Turn("accounting, tokens decrypted",
          Sync(TRUE)!Works \/ Sync(TRUE)!OneKind \/ Sync(TRUE)!disconnect \/ Sync(TRUE)!Failures, NotSync)

Spec == Init /\ [][Next]_vars

-----------------------------------------------------------------------------
(* Ten components again, without deaths,   under the fairness of their       *)
(* specifications.                                                           *)

HookTurn(action)    == Turn("webhooks, nobody dies", action, NotHook)
FlowTurn(action)    == Turn("workflow, nobody dies", action, NotFlow)
WaitTurn(action)    == Turn("waitlist, one by one", action, NotWait)
MailTurn(action)    == Turn("mail, nobody dies", action, NotMail)
InboxTurn(action)   == Turn("inbox, nobody dies", action, NotInbox)
SubTurn(action)     == Turn("subscription, in order", action, NotSub)
ConnectTurn(action) == Turn("account, one by one", action, NotConnect)
SyncTurn(b, action) ==
  Turn(IF b THEN "accounting, tokens decrypted" ELSE "accounting", action, NotSync)

LiveInit ==
  /\ under \in {"webhooks, nobody dies", "workflow, nobody dies", "waitlist, one by one", "mail, nobody dies", "inbox, nobody dies", "subscription, in order",
               "account, one by one", "accounting",
               "accounting, tokens decrypted", "clients, nobody dies", "news, one event"}
  /\ Start

LiveNext ==
  \/ LiveNotices /\ UNCHANGED NotNotice
  \/ HookTurn(Hook(TRUE)!Next)
  \/ FlowTurn(Flow(FALSE)!Next)
  \/ WaitTurn(Wait(TRUE)!Next)
  \/ MailTurn(Email(FALSE)!Next)
  \/ InboxTurn(Inbox!Controller)
  \/ SubTurn(Subscription(TRUE)!Next)
  \/ ConnectTurn(Connect(TRUE)!Requests \/ Connect(TRUE)!Changes)
  \/ \E b \in BOOLEAN :
       SyncTurn(b, Sync(b)!Works \/ Sync(b)!OneKind \/ Sync(b)!disconnect \/ Sync(b)!Failures)

(* Handlers and orchestrators go on while their processes live.              *)
ListenerFairness ==
  /\ WF_vars(HookTurn(Hook(TRUE)!Step(d1) \/ (~hookEndpoint.exists /\ Hook(TRUE)!StatementFails(d1))))
  /\ WF_vars(FlowTurn(Flow(FALSE)!Orchestrate))
  /\ \A n \in 1 .. 2 : WF_vars(FlowTurn(Flow(FALSE)!Handle(n)))
  /\ WF_vars(WaitTurn(Wait(TRUE)!Handler(h1)))

(* Inngest runs what is waiting, a handler goes on; Resend does not refuse   *)
(* for ever.                                                                 *)
MailFairness ==
  /\ WF_vars(MailTurn(Email(FALSE)!Dispatch)) /\ WF_vars(MailTurn(Email(FALSE)!Handler))
  /\ SF_vars(MailTurn(Email(FALSE)!ResendAccepts))

(* A provider repeats what was not answered with 200.                        *)
InboxFairness ==
  /\ \A w \in InboxWorkers : WF_vars(InboxTurn(Inbox!Proceeds(w)))
  /\ \A e \in InboxEvents : WF_vars(InboxTurn(\E w \in InboxWorkers : Inbox!Deliver(w, e)))

SubFairness ==
  WF_vars(SubTurn(Subscription(TRUE)!Step(w1) \/ \E e \in Subscription(TRUE)!Ids : Subscription(TRUE)!Receive(w1, e)))

ConnectFairness ==
  /\ WF_vars(ConnectTurn(Connect(TRUE)!Claim(w1)))
  /\ WF_vars(ConnectTurn(Connect(TRUE)!StatusAsk(w1)))
  /\ WF_vars(ConnectTurn(Connect(TRUE)!StatusSet(w1)))
  /\ WF_vars(ConnectTurn(Connect(TRUE)!EventAsk(w1)))
  /\ WF_vars(ConnectTurn(Connect(TRUE)!EventSet(w1)))
  /\ WF_vars(ConnectTurn(\E a \in StripeAccounts : Connect(TRUE)!CreateAtStripe(w1, a)))
  /\ \A a \in StripeAccounts : SF_vars(ConnectTurn(Connect(TRUE)!EventRead(w1, a)))

SyncFairness ==
  \A b \in BOOLEAN :
    /\ \A j \in Sync(b)!Jobs : WF_vars(SyncTurn(b, Sync(b)!Steps(j)))
    /\ \A r \in SyncRequests : WF_vars(SyncTurn(b, Sync(b)!Lists(r)))

(* Inngest runs imports and jobs, the engine goes on, and time passes.       *)
NoticeFairness ==
  /\ WF_vars(ImportTurn(Import("CLIENTS", FALSE)!Step(1)) /\ UNCHANGED NotNotice)
  /\ WF_vars(NewsTurn(News(FALSE, 1)!Tick) /\ UNCHANGED NotNotice)
  /\ WF_vars(NewsTurn(News(FALSE, 1)!Job(1)) /\ UNCHANGED NotNotice)

LiveSpec ==
  /\ LiveInit /\ [][LiveNext]_vars
  /\ ListenerFairness /\ MailFairness /\ InboxFairness /\ SubFairness /\ ConnectFairness /\ SyncFairness
  /\ NoticeFairness

-----------------------------------------------------------------------------
(* A service that is down is called a bounded number of times before its     *)
(* circuit opens, the first time and each time after, and a counter that     *)
(* nothing would expire is one somebody died at.                             *)
CircuitOpens == Breaker!TypeOK /\ Breaker!CallsBounded /\ Breaker!CounterHasTtl

(* Handlers that count their failures at once lose none of them: an endpoint *)
(* that is active has not failed Threshold times in a row, except for what   *)
(* dying handlers cut short (WebhookDispatchProcessor).                      *)
FailuresDisable == under = "webhooks" => Hook(FALSE)!TypeOK /\ Hook(FALSE)!FailuresDisable

(* Whoever writes at once and whoever dies, an execution's status tells how  *)
(* its immediate stages went, none of which ran after a required one failed  *)
(* (StageOrchestratorService, ExecutionService).                             *)
StatusTellsImmediate ==
  under = "workflow" =>
    Flow(TRUE)!TypeOK /\ Flow(TRUE)!StatusTellsImmediate /\ Flow(TRUE)!FailureStopsImmediate

(* However joining, leaving and cancellations interleave, who is notified    *)
(* about a day has waited longest of those who asked for that day, and       *)
(* nobody waits twice (WaitlistService, WaitlistEventListener); the owner is  *)
(* not woken by night (SmsProcessor), nor a dead telephone called.           *)
WaitlistIsFair ==
  /\ [][OwnerIsSpared]_vars
  /\ [](under = "waitlist" => Wait(FALSE)!TypeOK /\ Wait(FALSE)!OneActivePerClient)
  /\ [][under = "waitlist" => Wait(FALSE)!OldestOfDay]_vars

(* However often a payment provider delivers an event, at once, again or     *)
(* across deaths, it is handled once, and what is marked processed was       *)
(* handled or is a dead letter (StripeWebhookController,                     *)
(* PayPalWebhookController); however often Inngest runs a job and wherever    *)
(* an attempt died, an e-mail reaches its recipient once and its row says    *)
(* nothing of it that has not happened (CommunicationsProcessor, Resend's    *)
(* webhook), and an attempt posts a row to the accounting service at most    *)
(* once (AccountingSyncProcessor).                                           *)
JobsActOnce ==
  /\ Inbox!TypeOK /\ Inbox!HandledOnce /\ Inbox!ProcessedIsAccounted
  /\ Email(TRUE)!TypeOK /\ Email(TRUE)!SentAtMostOnce /\ Email(TRUE)!StatusIsNews
  /\ Sync(TRUE)!TypeOK /\ Sync(TRUE)!OncePerAttempt

(* A client is reminded once and a notification is in one digest; an import  *)
(* that is completed accounts for each of its rows; and what is told of a    *)
(* booking's changes is accounted for (reminder, follow-up and digest jobs,  *)
(* ImportProcessor, WorkflowEngineService, SmsProcessor,                     *)
(* PushNotificationProcessor).                                               *)
NoticesAccounted == RemindedOnce /\ DigestedOnce /\ ImportedOnce /\ ChangesAreTold /\ ScreensAccounted

(* No event of a subscription is handled twice, by however many requests at  *)
(* once, in whatever order and if one dies (SubscriptionsController); of two *)
(* Stripe accounts created at once the tenant keeps one (createAccount); and *)
(* while none is given up, a tenant is charged through an account that       *)
(* Stripe has enabled (handleAccountUpdate).                                 *)
StripeOnce ==
  /\ [](under = "subscription" => Subscription(FALSE)!TypeOK)
  /\ [](under \in {"account", "account, kept"} => Connect(FALSE)!TypeOK)
  /\ [](under = "account, kept" => Connect(FALSE)!OnboardedIsReal)
  /\ [][under = "subscription" => Subscription(FALSE)!StartsOnce]_vars
  /\ [][Connect(FALSE)!Replaced]_vars

-----------------------------------------------------------------------------
(* Every job that Inngest is given ends, whatever Resend, the receiver of a  *)
(* webhook, the accounting service, the database and the owner do meanwhile: *)
(* while no process dies, a dispatched e-mail is sent or FAILED, a delivery  *)
(* does not stay PENDING, a sync and an import come to an end, and the owner  *)
(* has been told of each change.                                             *)
JobsEnd ==
  /\ NoticesEnd
  /\ under = "mail, nobody dies" => Email(FALSE)!Settles
  /\ under = "webhooks, nobody dies" => Hook(TRUE)!NoneStaysPending
  /\ under = "accounting" => Sync(FALSE)!SyncsEnd
  /\ under = "accounting, tokens decrypted" => Sync(TRUE)!SyncsEnd

(* While no process dies, every event is handled: a payment provider's, or   *)
(* it is put aside for review; a booking's by its workflow, which completes; *)
(* and a cancellation by the waitlist, if somebody waits.                    *)
NoEventForgotten ==
  /\ under = "inbox, nobody dies" => Inbox!NoneForgotten
  /\ under = "workflow, nobody dies" => Flow(FALSE)!IsCompleted
  /\ under = "waitlist, one by one" => Wait(TRUE)!SlotReachesSomeone

(* When Stripe's events are handled in order, one by one, the tenant's row   *)
(* catches up with the subscription and stays so, a grace period ends with   *)
(* the debt, and the flag that payments rely on comes to say what Stripe     *)
(* says of the account (SubscriptionsService, handleAccountUpdate).          *)
StripeCatchesUp ==
  /\ under = "subscription, in order" => Subscription(TRUE)!CatchesUp
  /\ [](under = "subscription, in order" => Subscription(TRUE)!GraceIsPastDue)
  /\ under = "account, one by one" => Connect(TRUE)!FlagAgrees
=============================================================================
