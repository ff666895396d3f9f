--------------------------- MODULE ConnectAccount ---------------------------
(***************************************************************************)
(* A tenant's Stripe account: connecting it, asking Stripe what it may do,     *)
(* and Stripe's news of it.  The tenant's row keeps the account and whether    *)
(* charges are enabled, from which payments decide whether to charge.          *)
(***************************************************************************)
EXTENDS Naturals, FiniteSets

CONSTANTS
  Accounts,    \* accounts Stripe may make
  None,
  Workers,     \* requests and events the API serves at a time
  MaxChanges   \* bound: how often Stripe changes its mind

ConnectAssumption == None \notin Accounts /\ MaxChanges \in Nat

VARIABLES
  account, onboarded,   \* the tenant's row
  stripe,               \* Stripe's view of each account: [made, charges, ever]
  changes,              \* changes of charges so far
  news,                 \* events under way: [kind, a]
  worker                \* [at, a, flag]: the account and the flag read, or Stripe's answer

vars == <<account, onboarded, stripe, changes, news, worker>>

Idle == [at |-> "idle", a |-> None, flag |-> FALSE]

TypeOK ==
  /\ account \in Accounts \cup {None} /\ onboarded \in BOOLEAN
  /\ stripe \in [Accounts -> [made : BOOLEAN, charges : BOOLEAN, ever : BOOLEAN]]
  /\ changes \in 0 .. MaxChanges
  /\ news \subseteq [kind : {"updated", "deauthorized"}, a : Accounts]
  /\ worker \in [Workers -> [at : {"idle", "create", "claim", "ask.status", "set.status", "ask.event", "set.event", "clear"},
                            a : Accounts \cup {None}, flag : BOOLEAN]]

Init ==
  /\ account = None /\ onboarded = FALSE
  /\ stripe = [a \in Accounts |-> [made |-> FALSE, charges |-> FALSE, ever |-> FALSE]]
  /\ changes = 0 /\ news = {}
  /\ worker = [w \in Workers |-> Idle]

Put(w, local) == worker' = [worker EXCEPT ![w] = local]

-----------------------------------------------------------------------------
(* createAccount                                                             *)
CreateRead(w) ==
  /\ worker[w] = Idle /\ account = None
  /\ Put(w, [Idle EXCEPT !.at = "create"])
  /\ UNCHANGED <<account, onboarded, stripe, changes, news>>

CreateAtStripe(w, a) ==
  /\ worker[w].at = "create" /\ ~stripe[a].made
  /\ stripe' = [stripe EXCEPT ![a].made = TRUE]
  /\ Put(w, [Idle EXCEPT !.at = "claim", !.a = a])
  /\ UNCHANGED <<account, onboarded, changes, news>>

(* updateMany ... WHERE payment_provider_account_id IS NULL: the later of two   *)
(* accounts is left over.                                                    *)
Claim(w) ==
  /\ worker[w].at = "claim"
  /\ account' = IF account = None THEN worker[w].a ELSE account
  /\ Put(w, Idle)
  /\ UNCHANGED <<onboarded, stripe, changes, news>>

-----------------------------------------------------------------------------
(* getStatus, of the settings page: it only ever sets the flag.                *)
StatusRead(w) ==
  /\ worker[w] = Idle /\ account # None
  /\ Put(w, [at |-> "ask.status", a |-> account, flag |-> onboarded])
  /\ UNCHANGED <<account, onboarded, stripe, changes, news>>

StatusAsk(w) ==
  LET answer == stripe[worker[w].a].charges IN
  /\ worker[w].at = "ask.status"
  /\ Put(w, IF answer /\ ~worker[w].flag THEN [worker[w] EXCEPT !.at = "set.status"] ELSE Idle)
  /\ UNCHANGED <<account, onboarded, stripe, changes, news>>

(* By the tenant's id, whatever account it has by now.                         *)
StatusSet(w) ==
  /\ worker[w].at = "set.status"
  /\ onboarded' = TRUE
  /\ Put(w, Idle)
  /\ UNCHANGED <<account, stripe, changes, news>>

-----------------------------------------------------------------------------
(* account.updated: the tenant that has the account, then Stripe's answer.      *)
EventRead(w, a) ==
  LET event == [kind |-> "updated", a |-> a] IN
  /\ worker[w] = Idle /\ event \in news
  /\ news' = news \ {event}
  /\ Put(w, IF account = a THEN [at |-> "ask.event", a |-> a, flag |-> onboarded] ELSE Idle)
  /\ UNCHANGED <<account, onboarded, stripe, changes>>

EventAsk(w) ==
  LET answer == stripe[worker[w].a].charges IN
  /\ worker[w].at = "ask.event"
  /\ Put(w, IF answer # worker[w].flag THEN [worker[w] EXCEPT !.at = "set.event", !.flag = answer] ELSE Idle)
  /\ UNCHANGED <<account, onboarded, stripe, changes, news>>

EventSet(w) ==
  /\ worker[w].at = "set.event"
  /\ onboarded' = worker[w].flag
  /\ Put(w, Idle)
  /\ UNCHANGED <<account, stripe, changes, news>>

(* account.application.deauthorized                                          *)
ClearRead(w, a) ==
  LET event == [kind |-> "deauthorized", a |-> a] IN
  /\ worker[w] = Idle /\ event \in news
  /\ news' = news \ {event}
  /\ Put(w, IF account = a THEN [Idle EXCEPT !.at = "clear", !.a = a] ELSE Idle)
  /\ UNCHANGED <<account, onboarded, stripe, changes>>

Clear(w) ==
  /\ worker[w].at = "clear"
  /\ account' = None /\ onboarded' = FALSE
  /\ Put(w, Idle)
  /\ UNCHANGED <<stripe, changes, news>>

-----------------------------------------------------------------------------
(* Stripe enables and disables charges, also of an account left over.           *)
StripeChanges(a) ==
  /\ stripe[a].made /\ changes < MaxChanges
  /\ stripe' = [stripe EXCEPT ![a].charges = ~@, ![a].ever = TRUE]
  /\ changes' = changes + 1
  /\ news' = news \cup {[kind |-> "updated", a |-> a]}
  /\ UNCHANGED <<account, onboarded, worker>>

Deauthorize(a) ==
  /\ stripe[a].made /\ changes < MaxChanges
  /\ changes' = changes + 1
  /\ news' = news \cup {[kind |-> "deauthorized", a |-> a]}
  /\ UNCHANGED <<account, onboarded, stripe, worker>>

-----------------------------------------------------------------------------
Requests ==
  \E w \in Workers :
    \/ CreateRead(w) \/ Claim(w) \/ StatusRead(w) \/ StatusAsk(w) \/ StatusSet(w)
    \/ EventAsk(w) \/ EventSet(w) \/ Clear(w)
    \/ \E a \in Accounts : CreateAtStripe(w, a) \/ EventRead(w, a) \/ ClearRead(w, a)

Changes == \E a \in Accounts : StripeChanges(a)

Next == Requests \/ Changes \/ \E a \in Accounts : Deauthorize(a)
Spec == Init /\ [][Next]_vars

KeptSpec == Init /\ [][Requests \/ Changes]_vars    \* nobody disconnects

FairSpec ==
  /\ KeptSpec
  /\ \A w \in Workers :
       /\ WF_vars(Claim(w)) /\ WF_vars(StatusAsk(w)) /\ WF_vars(StatusSet(w))
       /\ WF_vars(EventAsk(w)) /\ WF_vars(EventSet(w))
       /\ WF_vars(\E a \in Accounts : CreateAtStripe(w, a))
  /\ \A a \in Accounts : SF_vars(\E w \in Workers : EventRead(w, a))

-----------------------------------------------------------------------------
(* An account is replaced only after it was given up: of two that are created   *)
(* at once the tenant keeps one (createAccount).                              *)
Replaced == account' # account => account = None \/ account' = None
OneAccount == [][Replaced]_vars

(* A tenant that is charged through has an account, whose charges Stripe has    *)
(* enabled (getStatus, handleAccountUpdate, handleAccountDeauthorized).        *)
OnboardedIsReal == onboarded => account # None /\ stripe[account].ever

(* In the end the flag says what Stripe says of the account                    *)
(* (handleAccountUpdate).                                                    *)
FlagAgrees == <>[](account # None => onboarded = stripe[account].charges)
=============================================================================
