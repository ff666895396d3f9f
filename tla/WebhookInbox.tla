---------------------------- MODULE WebhookInbox ----------------------------
(***************************************************************************)
(* The inbox of the payment providers' webhooks: a row of                     *)
(* payment_webhook_logs per event, a dead letter for what could not be         *)
(* handled, the providers' redeliveries, and the job that goes through the     *)
(* rows that failed.                                                         *)
(*                                                                         *)
(* Stripe's controller inserts the row and lets the unique event_id decide;    *)
(* PayPal's and Adyen's look for it first.                                    *)
(***************************************************************************)
EXTENDS Naturals, FiniteSets

CONSTANTS
  Events,       \* events of one payment
  Gateway,      \* "STRIPE" or "PAYPAL", of each
  Kind,         \* "succeeded", "failed" or "refunded", of each
  Workers,      \* deliveries the API serves at a time
  NoEvent,
  MaxRetries    \* ProcessWebhookRetriesHandler.MAX_RETRIES

InboxAssumption ==
  /\ Gateway \in [Events -> {"STRIPE", "PAYPAL"}] /\ Kind \in [Events -> {"succeeded", "failed", "refunded"}]
  /\ NoEvent \notin Events /\ MaxRetries \in Nat

VARIABLES
  owed,        \* events without an answer of 200: the provider delivers them again
  row,         \* payment_webhook_logs: [made, processed, error, retries]
  dead,        \* rows of webhook_dead_letters of each event
  tries,       \* how often each event was handed to its handler
  done,        \* ... and its handler committed
  payment,     \* the status of the payment
  worker,      \* [at, e] of each delivery under way
  job          \* rows the retry job has read and not yet come to, with retry_count

vars == <<owed, row, dead, tries, done, payment, worker, job>>

Idle == [at |-> "idle", e |-> NoEvent]

TypeOK ==
  /\ owed \subseteq Events
  /\ row \in [Events -> [made : BOOLEAN, processed : BOOLEAN, error : BOOLEAN, retries : 0 .. MaxRetries]]
  /\ dead \in [Events -> Nat] /\ tries \in [Events -> Nat] /\ done \in [Events -> Nat]
  /\ payment \in {"PENDING", "SUCCEEDED", "FAILED", "REFUNDED"}
  /\ worker \in [Workers -> [at : {"idle", "find", "insert", "route", "mark", "error", "dead"}, e : Events \cup {NoEvent}]]
  /\ job \subseteq [e : Events, retries : 0 .. MaxRetries]

Init ==
  /\ owed = Events
  /\ row = [e \in Events |-> [made |-> FALSE, processed |-> FALSE, error |-> FALSE, retries |-> 0]]
  /\ dead = [e \in Events |-> 0] /\ tries = dead /\ done = dead
  /\ payment = "PENDING"
  /\ worker = [w \in Workers |-> Idle]
  /\ job = {}

Goto(w, point) == worker' = [worker EXCEPT ![w].at = point]
End(w)         == worker' = [worker EXCEPT ![w] = Idle]
Answered(w)    == owed' = owed \ {worker[w].e} /\ End(w)

-----------------------------------------------------------------------------
Deliver(w, e) ==
  /\ worker[w] = Idle /\ e \in owed
  /\ worker' = [worker EXCEPT ![w] = [at |-> IF Gateway[e] = "STRIPE" THEN "insert" ELSE "find", e |-> e]]
  /\ UNCHANGED <<owed, row, dead, tries, done, payment, job>>

FindLog(w) ==
  /\ worker[w].at = "find"
  /\ IF row[worker[w].e].made THEN Answered(w) ELSE Goto(w, "insert") /\ UNCHANGED owed
  /\ UNCHANGED <<row, dead, tries, done, payment, job>>

(* Broken: no unique constraint stops the second row.                        *)
LogAnyway(w) ==
  LET e == worker[w].e IN
  /\ worker[w].at = "insert"
  /\ row' = [row EXCEPT ![e].made = TRUE]
  /\ Goto(w, "route")
  /\ UNCHANGED <<owed, dead, tries, done, payment, job>>

(* The unique constraint answers Stripe's second delivery with 200 and         *)
(* PayPal's with an error.                                                   *)
logWebhookEvent(w) ==
  LET e == worker[w].e IN
  /\ worker[w].at = "insert"
  /\ IF row[e].made
     THEN (IF Gateway[e] = "STRIPE" THEN Answered(w) ELSE End(w) /\ UNCHANGED owed) /\ UNCHANGED row
     ELSE /\ row' = [row EXCEPT ![e].made = TRUE]
          /\ Goto(w, "route") /\ UNCHANGED owed
  /\ UNCHANGED <<dead, tries, done, payment, job>>

(* handlePaymentSuccess, handlePaymentFailure, and a refund: PayPal's is        *)
(* written, Stripe's has been already.                                       *)
Effect(e) ==
  CASE Kind[e] = "succeeded" -> "SUCCEEDED"
    [] Kind[e] = "failed"    -> IF payment = "PENDING" THEN "FAILED" ELSE payment
    [] OTHER                 -> IF Gateway[e] = "PAYPAL" THEN "REFUNDED" ELSE payment

routeEvent(w) ==
  LET e == worker[w].e IN
  /\ worker[w].at = "route"
  /\ tries' = [tries EXCEPT ![e] = @ + 1]
  /\ \/ done' = [done EXCEPT ![e] = @ + 1] /\ payment' = Effect(e) /\ Goto(w, "mark")
     \/ Goto(w, "error") /\ UNCHANGED <<done, payment>>
  /\ UNCHANGED <<owed, row, dead, job>>

(* The row may fail to be marked although the handler committed.              *)
MarkProcessed(w) ==
  /\ worker[w].at = "mark"
  /\ \/ row' = [row EXCEPT ![worker[w].e].processed = TRUE] /\ Answered(w)
     \/ Goto(w, "error") /\ UNCHANGED <<owed, row>>
  /\ UNCHANGED <<dead, tries, done, payment, job>>

WriteError(w) ==
  /\ worker[w].at = "error"
  /\ row' = [row EXCEPT ![worker[w].e].error = TRUE]
  /\ Goto(w, "dead")
  /\ UNCHANGED <<owed, dead, tries, done, payment, job>>

(* Broken: the error is kept in the row alone.                               *)
WriteNoDeadLetter(w) ==
  /\ worker[w].at = "dead"
  /\ Answered(w)
  /\ UNCHANGED <<row, dead, tries, done, payment, job>>

WriteDeadLetter(w) ==
  /\ worker[w].at = "dead"
  /\ dead' = [dead EXCEPT ![worker[w].e] = @ + 1]
  /\ Answered(w)
  /\ UNCHANGED <<row, tries, done, payment, job>>

(* The process or its database goes away: no answer.                          *)
Dies(w) ==
  /\ worker[w] # Idle
  /\ End(w)
  /\ UNCHANGED <<owed, row, dead, tries, done, payment, job>>

-----------------------------------------------------------------------------
(* process-webhook-retries                                                   *)
Failed(e) == row[e].made /\ ~row[e].processed /\ row[e].error /\ row[e].retries < MaxRetries /\ dead[e] = 0

JobRead ==
  /\ job = {} /\ \E e \in Events : Failed(e)
  /\ job' = {[e |-> e, retries |-> row[e].retries] : e \in {e \in Events : Failed(e)}}
  /\ UNCHANGED <<owed, row, dead, tries, done, payment, worker>>

incrementRetryCount(item) ==
  /\ item.retries + 1 < MaxRetries
  /\ row' = [row EXCEPT ![item.e].retries = @ + 1]
  /\ job' = job \ {item}
  /\ UNCHANGED <<owed, dead, tries, done, payment, worker>>

moveToDeadLetter(item) ==
  /\ item.retries + 1 >= MaxRetries
  /\ dead' = [dead EXCEPT ![item.e] = @ + 1]
  /\ row' = [row EXCEPT ![item.e].retries = @ + 1, ![item.e].processed = TRUE]
  /\ job' = job \ {item}
  /\ UNCHANGED <<owed, tries, done, payment, worker>>

JobDies ==
  /\ job # {} /\ job' = {}
  /\ UNCHANGED <<owed, row, dead, tries, done, payment, worker>>

-----------------------------------------------------------------------------
Proceeds(w) ==
  \/ FindLog(w) \/ logWebhookEvent(w) \/ routeEvent(w)
  \/ MarkProcessed(w) \/ WriteError(w) \/ WriteDeadLetter(w)

Controller == \E w \in Workers : Proceeds(w) \/ \E e \in Events : Deliver(w, e)

Job ==
  \/ JobRead \/ JobDies
  \/ \E item \in job : incrementRetryCount(item) \/ moveToDeadLetter(item)

Next == Controller \/ Job \/ \E w \in Workers : Dies(w)
Spec == Init /\ [][Next]_vars

(* Without deaths; the provider repeats what got no answer.                   *)
ControllerSpec == Init /\ [][Controller]_vars

FairSpec ==
  /\ ControllerSpec
  /\ \A w \in Workers : WF_vars(Proceeds(w))
  /\ \A e \in Events : WF_vars(\E w \in Workers : Deliver(w, e))

-----------------------------------------------------------------------------
(* No event is given to its handler twice, however often it is delivered, at   *)
(* once or again (handleWebhook).                                            *)
HandledOnce == \A e \in Events : tries[e] <= 1

(* A row that says processed was handled, or is in the dead letters            *)
(* (routeEvent, moveToDeadLetter).                                            *)
ProcessedIsAccounted ==
  \A e \in Events : row[e].processed => done[e] > 0 \/ dead[e] > 0

(* While nothing dies every event is handled or put aside for review           *)
(* (handleWebhook).                                                          *)
NoneForgotten == \A e \in Events : <>(done[e] > 0 \/ dead[e] > 0)

(* An event that needs no further delivery was handled, is being handled, or   *)
(* is put aside: a duplicate is "safe to skip" (handleWebhook).               *)
SkippedIsSafe ==
  \A e \in Events : e \in owed \/ done[e] > 0 \/ dead[e] > 0 \/ \E w \in Workers : worker[w].e = e

(* What is given up was tried MAX_RETRIES times                               *)
(* (ProcessWebhookRetriesHandler).                                            *)
GivenUpAfterTries == \A e \in Events : row[e].retries = MaxRetries => tries[e] >= MaxRetries

(* A refund that is recorded stays recorded: events out of order do not invert *)
(* it (handlePaymentFailure's comment).                                       *)
RefundStays == [][payment = "REFUNDED" => payment' = "REFUNDED"]_vars
=============================================================================
