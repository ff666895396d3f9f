------------------------- MODULE SubscriptionState -------------------------
(***************************************************************************)
(* The subscription a tenant pays the platform for, as Stripe holds it and   *)
(* as the tenant's row repeats it.                                           *)
(*                                                                         *)
(* Stripe announces every change by an event and sends an event until it is  *)
(* acknowledged.  The endpoint looks for the event's log row, inserts it,    *)
(* runs the handler and acknowledges.  A handler is two statements: find the *)
(* tenant, write the row.                                                    *)
(***************************************************************************)
EXTENDS Naturals, FiniteSets

CONSTANTS
  Subs,        \* subscriptions Stripe may create for the tenant
  NoSub,       \* the row of a tenant without a subscription
  Tiers,       \* plans
  Free,        \* the plan of a tenant that never bought one
  Workers,     \* requests of Stripe that can be under way at once
  InOrder,     \* whether Stripe waits for the answer before it sends the next event
  ByPortal,    \* whether owners use checkout only when they have no subscription
  MaxEvents,   \* bound: events Stripe emits
  MaxDeaths    \* bound: requests that die between two statements

SubscriptionStateAssumption ==
  /\ {InOrder, ByPortal} \subseteq BOOLEAN /\ {MaxEvents, MaxDeaths} \subseteq Nat
  /\ Free \in Tiers /\ NoSub \notin Subs
  /\ IsFiniteSet(Subs) /\ IsFiniteSet(Workers)

VARIABLES
  stripe,    \* per subscription: [status, tier]
  events,    \* what Stripe has emitted, by number
  unacked,   \* numbers of the events that were not acknowledged
  logged,    \* numbers of the events with a row in paymentWebhookLog
  tenant,    \* the tenant's row
  work,      \* per request: [at, ev]
  refused,   \* plans whose checkout was refused to a tenant without a subscription
  deaths     \* how many requests have died

vars == <<stripe, events, unacked, logged, tenant, work, refused, deaths>>

Live  == {s \in Subs : stripe[s].status \in {"trialing", "active", "past_due"}}
Idle  == [at |-> "idle", ev |-> 0]
Event == [kind: {"failed", "paid", "deleted", "updated"}, sub: Subs,
          status: {"trialing", "active", "past_due", "canceled"}, tier: Tiers]
Ids   == DOMAIN events
Quiet == unacked = {}

TypeOK ==
  /\ stripe \in [Subs -> [status: {"none", "trialing", "active", "past_due", "canceled"}, tier: Tiers]]
  /\ Ids \in {1 .. n : n \in 0 .. MaxEvents} /\ \A i \in Ids : events[i] \in Event
  /\ unacked \subseteq Ids /\ logged \subseteq Ids /\ refused \subseteq Tiers
  /\ tenant \in [status: {"ACTIVE", "PAST_DUE", "TRIALING", "CANCELED"}, sub: Subs \cup {NoSub},
                 tier: Tiers, grace: BOOLEAN]
  /\ work \in [Workers -> [at: {"idle", "log", "find", "write"}, ev: 0 .. MaxEvents]]
  /\ deaths \in 0 .. MaxDeaths

Init ==
  /\ stripe = [s \in Subs |-> [status |-> "none", tier |-> Free]]
  /\ events = <<>> /\ unacked = {} /\ logged = {} /\ refused = {} /\ deaths = 0
  /\ tenant = [status |-> "ACTIVE", sub |-> NoSub, tier |-> Free, grace |-> FALSE]
  /\ work = [w \in Workers |-> Idle]

-----------------------------------------------------------------------------
(* Stripe.  Every change of a subscription is followed by its events.         *)
Say(s, kind) == [kind |-> kind, sub |-> s, status |-> stripe'[s].status, tier |-> stripe'[s].tier]

Emit(s, kinds) ==      \* kinds: one or two kinds, in the order of a sequence
  LET n == Cardinality(Ids)  k == Cardinality(DOMAIN kinds) IN
  /\ n + k <= MaxEvents
  /\ events' = [i \in 1 .. n + k |-> IF i <= n THEN events[i] ELSE Say(s, kinds[i - n])]
  /\ unacked' = unacked \cup (n + 1 .. n + k)

Turn(s, from, to, kinds) ==
  /\ stripe[s].status \in from
  /\ stripe' = [stripe EXCEPT ![s].status = to]
  /\ Emit(s, kinds)
  /\ UNCHANGED <<logged, tenant, work, refused, deaths>>

TrialEnds(s) == Turn(s, {"trialing"}, "active", <<"updated", "paid">>)
Declines(s)  == Turn(s, {"trialing", "active"}, "past_due", <<"failed", "updated">>)
Recovers(s)  == Turn(s, {"past_due"}, "active", <<"paid", "updated">>)
Cancels(s)   == Turn(s, {"trialing", "active", "past_due"}, "canceled", <<"deleted">>)

(* createCheckoutSession: the plan the row shows is refused, whatever the     *)
(* state of the subscription; the subscription starts with a trial.           *)
createCheckoutSession(s, t) ==
  /\ stripe[s].status = "none"
  /\ ByPortal => Live = {}
  /\ IF tenant.tier = t
     THEN /\ refused' = IF Live = {} THEN refused \cup {t} ELSE refused
          /\ UNCHANGED <<stripe, events, unacked>>
     ELSE /\ stripe' = [stripe EXCEPT ![s] = [status |-> "trialing", tier |-> t]]
          /\ Emit(s, <<"updated">>)
          /\ UNCHANGED refused
  /\ UNCHANGED <<logged, tenant, work, deaths>>

-----------------------------------------------------------------------------
Goto(w, at, e) == work' = [work EXCEPT ![w] = [at |-> at, ev |-> e]]
Handled(w) ==
  /\ work' = [work EXCEPT ![w] = Idle]
  /\ unacked' = unacked \ {work[w].ev}

(* handleWebhook: an event with a log row is acknowledged and skipped.        *)
Receive(w, e) ==
  /\ work[w].at = "idle" /\ e \in unacked
  /\ InOrder => \A i \in unacked : i >= e
  /\ IF e \in logged
     THEN unacked' = unacked \ {e} /\ UNCHANGED work
     ELSE Goto(w, "log", e) /\ UNCHANGED unacked
  /\ UNCHANGED <<stripe, events, logged, tenant, refused, deaths>>

(* Broken: the row's event number is not unique.                             *)
LogAgain(w) ==
  /\ work[w].at = "log"
  /\ Goto(w, "find", work[w].ev)
  /\ logged' = logged \cup {work[w].ev}
  /\ UNCHANGED <<stripe, events, unacked, tenant, refused, deaths>>

(* The row's event number is unique: a second insert throws and Stripe gets   *)
(* an error.                                                                 *)
Log(w) ==
  LET e == work[w].ev IN
  /\ work[w].at = "log"
  /\ IF e \in logged THEN Goto(w, "idle", 0) ELSE Goto(w, "find", e)
  /\ logged' = logged \cup {e}
  /\ UNCHANGED <<stripe, events, unacked, tenant, refused, deaths>>

(* An update names its tenant; the others are found by the subscription the   *)
(* row holds, and are dropped when it holds another.                          *)
Find(w) ==
  LET e == events[work[w].ev] IN
  /\ work[w].at = "find"
  /\ IF e.kind = "updated" \/ tenant.sub = e.sub
     THEN Goto(w, "write", work[w].ev) /\ UNCHANGED unacked
     ELSE Handled(w)
  /\ UNCHANGED <<stripe, events, logged, tenant, refused, deaths>>

StatusOf(stripeStatus) ==
  CASE stripeStatus = "active"   -> "ACTIVE"
    [] stripeStatus = "past_due" -> "PAST_DUE"
    [] stripeStatus = "trialing" -> "TRIALING"
    [] OTHER                     -> tenant.status

handleInvoicePaymentFailed(e) == [tenant EXCEPT !.status = "PAST_DUE", !.grace = TRUE]

handleInvoicePaid(e) == [tenant EXCEPT !.status = "ACTIVE", !.grace = FALSE]

handleSubscriptionDeleted(e) == [tenant EXCEPT !.status = "CANCELED", !.sub = NoSub, !.grace = FALSE]

(* Broken: the plan is not written.                                          *)
handleSubscriptionUpdatedNoTier(e) ==
  [tenant EXCEPT !.sub = e.sub, !.status = StatusOf(e.status), !.grace = @ /\ e.status # "active"]

handleSubscriptionUpdated(e) ==
  [tenant EXCEPT !.sub = e.sub, !.tier = e.tier, !.status = StatusOf(e.status),
                 !.grace = @ /\ e.status # "active"]

Write(w) ==
  LET e == events[work[w].ev] IN
  /\ work[w].at = "write"
  /\ tenant' = CASE e.kind = "failed"  -> handleInvoicePaymentFailed(e)
                 [] e.kind = "paid"    -> handleInvoicePaid(e)
                 [] e.kind = "deleted" -> handleSubscriptionDeleted(e)
                 [] e.kind = "updated" -> handleSubscriptionUpdated(e)
  /\ Handled(w)
  /\ UNCHANGED <<stripe, events, logged, refused, deaths>>

(* A handler that throws is logged as such, goes to webhookDeadLetter, which  *)
(* nothing reads, and is acknowledged; a request that dies is not.            *)
Throw(w) ==
  /\ work[w].at \in {"find", "write"} /\ deaths < MaxDeaths
  /\ deaths' = deaths + 1
  /\ Handled(w)
  /\ UNCHANGED <<stripe, events, logged, tenant, refused>>

Die(w) ==
  /\ work[w].at # "idle" /\ deaths < MaxDeaths
  /\ deaths' = deaths + 1
  /\ work' = [work EXCEPT ![w] = Idle]
  /\ UNCHANGED <<stripe, events, unacked, logged, tenant, refused>>

-----------------------------------------------------------------------------
Step(w) == Log(w) \/ Find(w) \/ Write(w)

Next ==
  \/ \E s \in Subs : TrialEnds(s) \/ Declines(s) \/ Recovers(s) \/ Cancels(s)
  \/ \E s \in Subs, t \in Tiers : createCheckoutSession(s, t)
  \/ \E w \in Workers : Step(w) \/ Throw(w) \/ Die(w) \/ \E e \in Ids : Receive(w, e)

Spec == Init /\ [][Next]_vars

(* Stripe sends an event until it is acknowledged; a request that runs goes   *)
(* on.                                                                       *)
FairSpec ==
  /\ Spec
  /\ \A w \in Workers : WF_vars(Step(w) \/ \E e \in Ids : Receive(w, e))

-----------------------------------------------------------------------------
(* What the row says of the subscription it holds is what Stripe says.        *)
Mirror ==
  /\ tenant.sub # NoSub =>
       /\ tenant.status = StatusOf(stripe[tenant.sub].status)
       /\ tenant.tier = stripe[tenant.sub].tier
       /\ stripe[tenant.sub].status # "canceled"
  /\ Live # {} => tenant.sub \in Live

(* A tenant whose subscriptions are all cancelled is shown as cancelled       *)
(* (handleSubscriptionDeleted), whatever the order in which Stripe's events    *)
(* arrive.                                                                   *)
CanceledIsShown ==
  Quiet /\ Live = {} /\ (\E s \in Subs : stripe[s].status = "canceled") => tenant.status = "CANCELED"

(* No event is handled twice, however often it is sent, by however many        *)
(* requests at once, and if requests die (handleWebhook, the unique number of   *)
(* paymentWebhookLog).                                                        *)
StartsOnce ==
  \A w \in Workers : work'[w].at = "find" /\ work[w].at # "find" => work'[w].ev \notin logged

HandledOnce == [][StartsOnce]_vars

(* The date a grace period ends stands only beside a payment that failed      *)
(* (handleInvoicePaymentFailed, handleInvoicePaid, handleSubscriptionUpdated). *)
GraceIsPastDue == tenant.grace => tenant.status = "PAST_DUE"

(* The row catches up with Stripe and stays so, when Stripe sends one event    *)
(* at a time and no request dies.                                             *)
CatchesUp == <>[]Mirror

(* A tenant has one subscription at a time.                                  *)
OneSubscription == Cardinality(Live) <= 1

(* FeatureEntitlementGuard: what a tenant may use follows from the plan alone. *)
Entitled == tenant.tier # Free

(* A tenant whose subscription is cancelled loses what the plan gave.         *)
CanceledLosesAccess == Quiet /\ tenant.status = "CANCELED" => ~Entitled

(* Checkout refuses a plan only to who has it.                                *)
RefusedHasPlan == refused = {}
=============================================================================
