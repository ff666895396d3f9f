-------------------------- MODULE PaymentLifecycle --------------------------
(***************************************************************************)
(* The payments of one booking: payments.service.ts, the Stripe webhook    *)
(* controller, the cancellations that refund, and the retry job.           *)
(*                                                                         *)
(* Stripe is the other party: it charges and refunds when asked, and tells *)
(* the webhook afterwards, once per event or several times, in any order.  *)
(* The webhook's idempotency is a row of payment_webhook_logs, inserted    *)
(* (unique event_id) before the event is handled.  Handlers that lock the  *)
(* payment row see no other such handler until they commit; the booking    *)
(* row is not locked.  Requests run interleaved, one statement or one call *)
(* to Stripe at a time.                                                    *)
(***************************************************************************)
EXTENDS Naturals

CONSTANTS
  Payments,        \* rows of payments, each with its Stripe PaymentIntent
  Amount,          \* what each charges, in cents
  RefundAmounts,   \* what admins ask to refund; 0 is no amount: what is left
  PolicyRefund,    \* what the cancellation policy gives back
  MaxRetries,      \* RetryFailedPaymentsHandler.MAX_RETRY_ATTEMPTS
  Requests,        \* API requests in flight
  NoPayment,
  IdsAreUuid       \* payments.id is a uuid column, as processRefund's cast has it

ASSUME AmountIsCents == Amount \in Nat \ {0}
ASSUME RefundsAreCents == RefundAmounts \subseteq Nat /\ PolicyRefund \in 0..Amount
ASSUME MaxRetriesIsNat == MaxRetries \in Nat
ASSUME NoPaymentIsNone == NoPayment \notin Payments
ASSUME IdsAreUuidIsBoolean == IdsAreUuid \in BOOLEAN

VARIABLES
  booking,               \* the booking's status
  status, retries,       \* payments: status, retry_count
  intent, returned, dispute,   \* Stripe: the PaymentIntent, cents refunded, the dispute
  event,                 \* what has become of each event of Stripe
  req,                   \* the local state of each request
  job                    \* the payment the retry job is at

stripeVars == <<intent, returned, dispute>>
vars == <<booking, status, retries, stripeVars, event, req, job>>

BookingStatus == {"PENDING", "CONFIRMED", "CANCELLED"}

PaymentStatus ==
  {"PENDING", "SUCCEEDED", "FAILED", "PARTIALLY_REFUNDED", "REFUNDED", "DISPUTED"}

Kinds == {"succeeded", "failed", "canceled", "dispute.created", "dispute.closed"}

(* sent: Stripe delivers it until it gets a 200; logged: its row is in     *)
(* payment_webhook_logs and its handler starts; record, confirm: the       *)
(* success handler holds the payment's row and has found the booking not   *)
(* PENDING, or PENDING; lost: logged, and its handler failed or died.      *)
Phases == {"unsent", "sent", "logged", "record", "confirm", "done", "lost"}

Points == {"idle", "pay.open", "pay.record", "cancel.write",
           "refund.read", "refund.list", "refund.create", "refund.record"}

Request == [at : Points, p : Payments \cup {NoPayment}, amount : Nat, prior : Nat]
Idle    == [at |-> "idle", p |-> NoPayment, amount |-> 0, prior |-> 0]

JobPoints == {"idle", "retrieve", "confirm", "mark", "count", "exhaust", "stale"}
JobIdle   == [at |-> "idle", p |-> NoPayment]

TypeOK ==
  /\ booking \in BookingStatus
  /\ status \in [Payments -> PaymentStatus \cup {"NONE"}]
  /\ retries \in [Payments -> 0..MaxRetries]
  /\ intent \in [Payments -> {"none", "open", "succeeded", "canceled"}]
  /\ returned \in [Payments -> 0..Amount]
  /\ dispute \in [Payments -> {"none", "open", "won", "lost"}]
  /\ event \in [Payments \X Kinds -> Phases]
  /\ req \in [Requests -> Request]
  /\ job \in [at : JobPoints, p : Payments \cup {NoPayment}]

Init ==
  /\ booking \in {"PENDING", "CONFIRMED"}
  /\ status = [p \in Payments |-> "NONE"]
  /\ retries = [p \in Payments |-> 0]
  /\ intent = [p \in Payments |-> "none"]
  /\ returned = [p \in Payments |-> 0]
  /\ dispute = [p \in Payments |-> "none"]
  /\ event = [e \in Payments \X Kinds |-> "unsent"]
  /\ req = [w \in Requests |-> Idle]
  /\ job = JobIdle

Exists(p) == status[p] # "NONE"

(* SELECT ... FOR UPDATE and UPDATE wait for the handler that holds the row. *)
Locked(p) == event[<<p, "succeeded">>] \in {"record", "confirm"}

Send(p, kind)  == event' = [event EXCEPT ![<<p, kind>>] = IF @ = "unsent" THEN "sent" ELSE @]
Move(e, phase) == event' = [event EXCEPT ![e] = phase]

Goto(w, point) == req' = [req EXCEPT ![w].at = point]
End(w)         == req' = [req EXCEPT ![w] = Idle]

-----------------------------------------------------------------------------
(* processPaymentIntent: the booking was found payable; the intent is      *)
(* created at Stripe, then the row, and then its client gets the secret to *)
(* pay with.                                                               *)

PayRead(w, p) ==
  /\ req[w] = Idle
  /\ booking \in {"PENDING", "CONFIRMED"}
  /\ intent[p] = "none" /\ \A v \in Requests : req[v].p # p
  /\ req' = [req EXCEPT ![w] = [Idle EXCEPT !.at = "pay.open", !.p = p]]
  /\ UNCHANGED <<booking, status, retries, stripeVars, event, job>>

PayOpenIntent(w) ==
  /\ req[w].at = "pay.open"
  /\ intent' = [intent EXCEPT ![req[w].p] = "open"]
  /\ Goto(w, "pay.record")
  /\ UNCHANGED <<booking, status, retries, returned, dispute, event, job>>

PayRecord(w) ==
  /\ req[w].at = "pay.record"
  /\ status' = [status EXCEPT ![req[w].p] = "PENDING"]
  /\ End(w)
  /\ UNCHANGED <<booking, retries, stripeVars, event, job>>

-----------------------------------------------------------------------------
(* Stripe and the client.                                                  *)

ClientPays(p) ==
  /\ Exists(p) /\ intent[p] = "open"
  /\ intent' = [intent EXCEPT ![p] = "succeeded"]
  /\ Send(p, "succeeded")
  /\ UNCHANGED <<booking, status, retries, returned, dispute, req, job>>

(* The card is declined: the intent wants another payment method. *)
ClientIsDeclined(p) ==
  /\ Exists(p) /\ intent[p] = "open" /\ event[<<p, "failed">>] = "unsent"
  /\ Send(p, "failed")
  /\ UNCHANGED <<booking, status, retries, stripeVars, req, job>>

IntentIsCanceled(p) ==
  /\ Exists(p) /\ intent[p] = "open"
  /\ intent' = [intent EXCEPT ![p] = "canceled"]
  /\ Send(p, "canceled")
  /\ UNCHANGED <<booking, status, retries, returned, dispute, req, job>>

DisputeOpens(p) ==
  /\ intent[p] = "succeeded" /\ dispute[p] = "none" /\ returned[p] < Amount
  /\ dispute' = [dispute EXCEPT ![p] = "open"]
  /\ Send(p, "dispute.created")
  /\ UNCHANGED <<booking, status, retries, intent, returned, req, job>>

DisputeCloses(p, outcome) ==
  /\ dispute[p] = "open"
  /\ dispute' = [dispute EXCEPT ![p] = outcome]
  /\ Send(p, "dispute.closed")
  /\ UNCHANGED <<booking, status, retries, intent, returned, req, job>>

-----------------------------------------------------------------------------
(* The webhook: stripe-webhook.controller.ts and the handlers it calls.    *)

(* Delivering a logged event again violates the unique event_id: skipped.  *)
Deliver(e) ==
  /\ event[e] = "sent"
  /\ Move(e, "logged")
  /\ UNCHANGED <<booking, status, retries, stripeVars, req, job>>

(* The handler throws (a row of webhook_dead_letters, and a 200) or the    *)
(* process dies; no scheduled job takes the event up again.                *)
HandlerFails(e) ==
  /\ event[e] \in {"logged", "record", "confirm"}
  /\ Move(e, "lost")
  /\ UNCHANGED <<booking, status, retries, stripeVars, req, job>>

(* Broken: takes a failed payment for settled. *)
SuccessReadOnlyPending(p) ==
  LET e == <<p, "succeeded">> IN
  /\ event[e] = "logged"
  /\ Move(e, CASE status[p] # "PENDING" -> "done"
               [] status[p] = "PENDING" /\ booking = "PENDING" -> "confirm"
               [] OTHER -> "record")
  /\ UNCHANGED <<booking, status, retries, stripeVars, req, job>>

(* handlePaymentSuccess locks the payment, then reads payment and booking  *)
SuccessRead(p) ==
  LET e == <<p, "succeeded">> IN
  /\ event[e] = "logged"
  /\ Move(e, CASE ~Exists(p) \/ status[p] = "SUCCEEDED" -> "done"
               [] OTHER -> IF booking = "PENDING" THEN "confirm" ELSE "record")
  /\ UNCHANGED <<booking, status, retries, stripeVars, req, job>>

(* Broken: records the payment only. *)
SuccessRecordsOnly(p) ==
  LET e == <<p, "succeeded">> IN
  /\ event[e] \in {"record", "confirm"}
  /\ status' = [status EXCEPT ![p] = "SUCCEEDED"]
  /\ Move(e, "done")
  /\ UNCHANGED <<booking, retries, stripeVars, req, job>>

SuccessCommit(p) ==
  LET e == <<p, "succeeded">> IN
  /\ event[e] \in {"record", "confirm"}
  /\ status' = [status EXCEPT ![p] = "SUCCEEDED"]
  /\ booking' = IF event[e] = "confirm" THEN "CONFIRMED" ELSE booking
  /\ Move(e, "done")
  /\ UNCHANGED <<retries, stripeVars, req, job>>

(* Broken: late news of a failure undoes a success. *)
HandleFailureUnguarded(p, kind) ==
  /\ kind \in {"failed", "canceled"} /\ event[<<p, kind>>] = "logged" /\ ~Locked(p)
  /\ status' = [status EXCEPT ![p] = IF Exists(p) THEN "FAILED" ELSE @]
  /\ Move(<<p, kind>>, "done")
  /\ UNCHANGED <<booking, retries, stripeVars, req, job>>

(* handlePaymentFailure, and handlePaymentCancellation through it *)
HandleFailure(p, kind) ==
  /\ kind \in {"failed", "canceled"} /\ event[<<p, kind>>] = "logged" /\ ~Locked(p)
  /\ status' = [status EXCEPT ![p] = IF @ = "PENDING" THEN "FAILED" ELSE @]
  /\ Move(<<p, kind>>, "done")
  /\ UNCHANGED <<booking, retries, stripeVars, req, job>>

HandleDisputeCreated(p) ==
  LET e == <<p, "dispute.created">> IN
  /\ event[e] = "logged" /\ ~Locked(p)
  /\ status' = [status EXCEPT ![p] =
                  IF @ \in {"SUCCEEDED", "PARTIALLY_REFUNDED"} THEN "DISPUTED" ELSE @]
  /\ Move(e, "done")
  /\ UNCHANGED <<booking, retries, stripeVars, req, job>>

HandleDisputeClosed(p) ==
  LET e == <<p, "dispute.closed">> IN
  /\ event[e] = "logged" /\ ~Locked(p)
  /\ status' = [status EXCEPT ![p] =
                  IF @ # "DISPUTED" THEN @
                  ELSE IF dispute[p] = "won" THEN "SUCCEEDED" ELSE "REFUNDED"]
  /\ Move(e, "done")
  /\ UNCHANGED <<booking, retries, stripeVars, req, job>>

-----------------------------------------------------------------------------
(* Cancellation, by staff or client: read the booking and a payment that   *)
(* succeeded, write CANCELLED, then refund what the policy gives.          *)

CancelRead(w) ==
  /\ req[w] = Idle
  /\ booking \in {"PENDING", "CONFIRMED"}
  /\ \/ /\ \A p \in Payments : status[p] # "SUCCEEDED"
        /\ Goto(w, "cancel.write")
     \/ \E p \in Payments :
          /\ status[p] = "SUCCEEDED"
          /\ req' = [req EXCEPT ![w] =
                       [Idle EXCEPT !.at = "cancel.write", !.p = p, !.amount = PolicyRefund]]
  /\ UNCHANGED <<booking, status, retries, stripeVars, event, job>>

CancelWrite(w) ==
  /\ req[w].at = "cancel.write"
  /\ booking' = "CANCELLED"
  /\ IF req[w].p # NoPayment /\ PolicyRefund > 0 THEN Goto(w, "refund.read") ELSE End(w)
  /\ UNCHANGED <<status, retries, stripeVars, event, job>>

RefundBegin(w, p, amount) ==
  /\ req[w] = Idle /\ Exists(p)
  /\ req' = [req EXCEPT ![w] = [Idle EXCEPT !.at = "refund.read", !.p = p, !.amount = amount]]
  /\ UNCHANGED <<booking, status, retries, stripeVars, event, job>>

(* processRefund: four phases, the payment's row locked only in the last   *)
RefundRead(w) ==
  /\ req[w].at = "refund.read"
  /\ IF status[req[w].p] \in {"SUCCEEDED", "PARTIALLY_REFUNDED"}
     THEN Goto(w, "refund.list") ELSE End(w)
  /\ UNCHANGED <<booking, status, retries, stripeVars, event, job>>

RefundList(w) ==
  LET prior == returned[req[w].p]
      new   == IF req[w].amount = 0 THEN Amount - prior ELSE req[w].amount
  IN
  /\ req[w].at = "refund.list"
  /\ IF new = 0 \/ prior + new > Amount
     THEN End(w)
     ELSE req' = [req EXCEPT ![w].at = "refund.create", ![w].amount = new, ![w].prior = prior]
  /\ UNCHANGED <<booking, status, retries, stripeVars, event, job>>

(* Stripe refuses to return more than was paid, or what is in dispute. *)
Refundable(p, cents) == returned[p] + cents <= Amount /\ dispute[p] \notin {"open", "lost"}

RefundCreate(w) ==
  LET p == req[w].p IN
  /\ req[w].at = "refund.create"
  /\ IF Refundable(p, req[w].amount)
     THEN /\ returned' = [returned EXCEPT ![p] = @ + req[w].amount]
          /\ Goto(w, "refund.record")
     ELSE End(w) /\ UNCHANGED returned
  /\ UNCHANGED <<booking, status, retries, intent, dispute, event, job>>

(* The lock compares the column with a uuid: when ids are TEXT, as in the   *)
(* migrations, the statement fails, and with it the transaction.            *)
RefundRecord(w) ==
  LET p     == req[w].p
      total == req[w].prior + req[w].amount
  IN
  /\ req[w].at = "refund.record" /\ ~Locked(p)
  /\ status' = [status EXCEPT ![p] =
                  IF ~IdsAreUuid \/ @ = "REFUNDED" THEN @
                  ELSE IF total >= Amount THEN "REFUNDED" ELSE "PARTIALLY_REFUNDED"]
  /\ End(w)
  /\ UNCHANGED <<booking, retries, stripeVars, event, job>>

RequestDies(w) ==
  /\ req[w] # Idle
  /\ End(w)
  /\ UNCHANGED <<booking, status, retries, stripeVars, event, job>>

(* Confirmations and deadlines write the booking by id on an earlier read. *)
BookingIsWritten(to) ==
  /\ booking' = to
  /\ UNCHANGED <<status, retries, stripeVars, event, req, job>>

-----------------------------------------------------------------------------
(* retry-failed-payments: the rows of one SELECT, one after the other.      *)

(* Broken: does not look at retry_count. *)
RetryReadAny(p) ==
  /\ job = JobIdle
  /\ status[p] = "FAILED"
  /\ job' = [at |-> "retrieve", p |-> p]
  /\ UNCHANGED <<booking, status, retries, stripeVars, event, req>>

RetryRead(p) ==
  /\ job = JobIdle
  /\ status[p] = "FAILED" /\ retries[p] < MaxRetries
  /\ job' = [at |-> "retrieve", p |-> p]
  /\ UNCHANGED <<booking, status, retries, stripeVars, event, req>>

(* ... or Stripe does not answer, which counts as an attempt. *)
RetryRetrieve ==
  /\ job.at = "retrieve"
  /\ \/ job' = [job EXCEPT !.at = CASE intent[job.p] = "succeeded" -> "mark"
                                    [] intent[job.p] = "canceled"  -> "exhaust"
                                    [] OTHER                       -> "confirm"]
     \/ job' = [job EXCEPT !.at = "count"]
  /\ UNCHANGED <<booking, status, retries, stripeVars, event, req>>

(* Stripe charges the card it has, or it does not. *)
RetryConfirm ==
  LET p == job.p IN
  /\ job.at = "confirm"
  /\ \/ /\ intent[p] = "open"
        /\ intent' = [intent EXCEPT ![p] = "succeeded"]
        /\ Send(p, "succeeded")
        /\ job' = [job EXCEPT !.at = "mark"]
     \/ /\ job' = [job EXCEPT !.at = "count"]
        /\ UNCHANGED <<intent, event>>
  /\ UNCHANGED <<booking, status, retries, returned, dispute, req>>

(* Each ends with an UPDATE by id, whatever the row has become since. *)
RetryWrite ==
  LET p == job.p IN
  /\ job.at \in {"mark", "count", "exhaust"} /\ ~Locked(p)
  /\ status' = [status EXCEPT ![p] = IF job.at = "mark" THEN "SUCCEEDED" ELSE @]
  /\ retries' = [retries EXCEPT ![p] = IF job.at = "exhaust" THEN MaxRetries ELSE @ + 1]
  /\ job' = JobIdle
  /\ UNCHANGED <<booking, stripeVars, event, req>>

(* handleStalePending of detect-orphan-payments, a job that nothing           *)
(* dispatches today: rows PENDING for an hour, each then written by id.       *)
StaleRead(p) ==
  /\ job = JobIdle
  /\ status[p] = "PENDING"
  /\ job' = [at |-> "stale", p |-> p]
  /\ UNCHANGED <<booking, status, retries, stripeVars, event, req>>

markPaymentFailed ==
  /\ job.at = "stale" /\ ~Locked(job.p)
  /\ status' = [status EXCEPT ![job.p] = "FAILED"]
  /\ job' = JobIdle
  /\ UNCHANGED <<booking, retries, stripeVars, event, req>>

-----------------------------------------------------------------------------
Stripe ==
  \E p \in Payments :
    \/ ClientPays(p)
    \/ ClientIsDeclined(p)
    \/ IntentIsCanceled(p)
    \/ DisputeOpens(p)
    \/ \E outcome \in {"won", "lost"} : DisputeCloses(p, outcome)

Handle(p) ==
  \/ SuccessRead(p)
  \/ SuccessCommit(p)
  \/ \E kind \in {"failed", "canceled"} : HandleFailure(p, kind)
  \/ HandleDisputeCreated(p)
  \/ HandleDisputeClosed(p)

Webhook ==
  \/ \E e \in Payments \X Kinds : Deliver(e)
  \/ \E p \in Payments : Handle(p)

Starts(w) ==
  \/ \E p \in Payments :
       \/ PayRead(w, p)
       \/ \E amount \in RefundAmounts : RefundBegin(w, p, amount)
  \/ CancelRead(w)

Proceeds(w) ==
  \/ PayOpenIntent(w) \/ PayRecord(w)
  \/ CancelWrite(w)
  \/ RefundRead(w) \/ RefundList(w) \/ RefundCreate(w) \/ RefundRecord(w)

API == \E w \in Requests : Starts(w) \/ Proceeds(w)

RetryJob ==
  \/ \E p \in Payments : RetryRead(p)
  \/ RetryRetrieve \/ RetryConfirm \/ RetryWrite

Others == \E to \in {"CONFIRMED", "CANCELLED"} : BookingIsWritten(to)

Failures ==
  \/ \E e \in Payments \X Kinds : HandlerFails(e)
  \/ \E w \in Requests : RequestDies(w)

(* Everything but the retry job, whose writes are not guarded. *)
Next == Stripe \/ Webhook \/ API \/ Others \/ Failures
Spec == Init /\ [][Next]_vars

(* With the retry job, and nothing that dies. *)
RetryNext == Stripe \/ Webhook \/ API \/ Others \/ RetryJob
RetrySpec == Init /\ [][RetryNext]_vars

(* With detect-orphan-payments in its place. *)
OrphanNext == Stripe \/ Webhook \/ API \/ Others \/ (\E p \in Payments : StaleRead(p)) \/ markPaymentFailed
OrphanSpec == Init /\ [][OrphanNext]_vars

(* Stripe delivers an event until it gets a 200; requests and the handler  *)
(* of a success finish what they have begun.                               *)
FairRetrySpec ==
  /\ RetrySpec
  /\ \A w \in Requests : WF_vars(Proceeds(w))
  /\ \A e \in Payments \X Kinds : WF_vars(Deliver(e))
  /\ \A p \in Payments : WF_vars(SuccessRead(p)) /\ WF_vars(SuccessCommit(p))

FairDisputeSpec ==
  FairRetrySpec /\ \A p \in Payments : WF_vars(HandleDisputeCreated(p)) /\ WF_vars(HandleDisputeClosed(p))

-----------------------------------------------------------------------------
(* The payments table keeps the promises of PaymentLedger: late, repeated  *)
(* and reordered events, refunds in flight together, failures and disputes *)
(* never make it claim what Stripe has not done, nor take back a receipt   *)
(* or a refund.  (Without the retry job.)                                  *)
Ledger ==
  INSTANCE PaymentLedger WITH
    captured <- [p \in Payments |-> intent[p] = "succeeded"],
    forfeited <- [p \in Payments |-> dispute[p] = "lost"]

KeepsLedger == Ledger!LedgerSpec

(* Once a payment of the booking is recorded as received the booking is    *)
(* not PENDING: receipt and confirmation are one transaction, and the      *)
(* confirmation is decided on a booking that others may write meanwhile.   *)
(* (Without the retry job, which records receipts and confirms nothing.)   *)
PaidIsConfirmed == \A p \in Payments : status[p] \in Ledger!Received => booking # "PENDING"

(* A charge is recorded, whatever other news of the payment arrive before  *)
(* and after it, while no handler dies.                                    *)
ChargeIsRecorded ==
  \A p \in Payments : intent[p] = "succeeded" ~> status[p] \in Ledger!Received

(* What processPayment's comment promises of the retry job's charges too:  *)
(* "On success, the webhook confirms the booking."                         *)
ChargeConfirms ==
  \A p \in Payments : intent[p] = "succeeded" ~> booking # "PENDING"

(* When no refund is on its way the row says what Stripe has returned.     *)
RefundIsRecorded ==
  \A p \in Payments :
    /\ returned[p] = Amount
    /\ \A w \in Requests : req[w].p # p
    => status[p] = "REFUNDED"

(* A receipt is not turned into a failure (handlePaymentFailure's comment:    *)
(* it would be "losing the booking confirmation").                          *)
SuccessKept == [][\A p \in Payments : status[p] = "SUCCEEDED" => status'[p] # "FAILED"]_vars

(* What is disputed or returned is not recorded as simply received, except    *)
(* by a dispute that is won.                                                *)
FinalStays ==
  [][\A p \in Payments : status[p] \in {"DISPUTED", "REFUNDED", "PARTIALLY_REFUNDED"} /\ dispute[p] # "won"
       => status'[p] # "SUCCEEDED"]_vars

(* While no admin refunds, a cancelled booking returns what its policy says   *)
(* (cancel and cancelBooking).                                              *)
PolicyOnce == \A p \in Payments : returned[p] <= PolicyRefund

(* A dispute that is over does not leave the payment DISPUTED                 *)
(* (routeEvent, charge.dispute.closed).                                      *)
DisputesClose == \A p \in Payments : dispute[p] \in {"won", "lost"} ~> status[p] # "DISPUTED"
=============================================================================
