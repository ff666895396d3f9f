------------------------ MODULE PaymentLifecycle_proofs ------------------------
(***************************************************************************)
(* Theorems of PaymentLifecycle, for any number of payments, requests and  *)
(* events in flight, any amounts and any limit on retries: the payments    *)
(* table implements PaymentLedger, and a payment recorded as received has  *)
(* a booking that is no longer PENDING.                                    *)
(***************************************************************************)
EXTENDS PaymentLifecycle, TLAPS

PayPoints    == {"pay.open", "pay.record"}
RefundPoints == {"refund.list", "refund.create", "refund.record"}
RetryPoints  == {"retrieve", "confirm", "mark", "count", "exhaust"}

(* The payment a request or the job is at; what the job has read of        *)
(* retry_count stays true, because nobody else writes it.                  *)
Aimed(q) == q.at \in PayPoints \cup RefundPoints \cup {"refund.read"} => q.p \in Payments

JobAimed ==
  /\ job.at # "idle" => job.p \in Payments
  /\ job.at \in RetryPoints => retries[job.p] < MaxRetries

Types == TypeOK /\ (\A w \in Requests : Aimed(req[w])) /\ JobAimed

(* What Stripe has done is behind every status, every refund, every        *)
(* dispute and every event; a receipt is the work of the one success event *)
(* of the payment, which is done with.                                     *)
Backed(p) ==
  /\ intent[p] = "none" => status[p] = "NONE"
  /\ status[p] \in Ledger!Received => /\ event[<<p, "succeeded">>] = "done"
                                      /\ booking # "PENDING"
  /\ event[<<p, "succeeded">>] # "unsent" => intent[p] = "succeeded" /\ status[p] # "NONE"
  /\ event[<<p, "succeeded">>] = "record" => booking # "PENDING"
  /\ event[<<p, "dispute.closed">>] # "unsent" => dispute[p] \in {"won", "lost"}
  /\ returned[p] > 0 \/ dispute[p] # "none" => intent[p] = "succeeded"

(* The one request that makes a payment's row, and what a refund has read  *)
(* and done.                                                               *)
PayKnows(w) ==
  req[w].at \in PayPoints =>
    /\ status[req[w].p] = "NONE"
    /\ intent[req[w].p] = IF req[w].at = "pay.open" THEN "none" ELSE "open"
    /\ \A v \in Requests \ {w} : req[v].p # req[w].p

RefundKnows(w) ==
  /\ req[w].at \in RefundPoints => status[req[w].p] \in Ledger!Received
  /\ req[w].at \in {"refund.create", "refund.record"} =>
       req[w].amount > 0 /\ req[w].prior + req[w].amount <= Amount
  /\ req[w].at = "refund.create" => req[w].prior <= returned[req[w].p]
  /\ req[w].at = "refund.record" => req[w].prior + req[w].amount <= returned[req[w].p]

Facts ==
  /\ \A p \in Payments : Backed(p)
  /\ \A w \in Requests : PayKnows(w) /\ RefundKnows(w)

Inv == Types /\ Facts

(* What a step is shown to do: keep the facts, and be a step of the ledger *)
(* or none.                                                                *)
Good == Facts' /\ [Ledger!LedgerNext]_(Ledger!ledgerVars)

-----------------------------------------------------------------------------
(* Types. *)

LEMMA InitTypes == Init => Types
BY AmountIsCents, MaxRetriesIsNat
   DEF Init, Types, TypeOK, Aimed, JobAimed, PayPoints, RefundPoints, RetryPoints, Idle, JobIdle,
       Request, Points, JobPoints, BookingStatus, Phases

(* The three ways in which a request's state is written. *)
LEMMA BeginTypes ==
  ASSUME Types, NEW w \in Requests, NEW q \in Request, Aimed(q), req' = [req EXCEPT ![w] = q]
  PROVE  req' \in [Requests -> Request] /\ \A v \in Requests : Aimed(req'[v])
BY DEF Types, TypeOK

LEMMA GotoTypes ==
  ASSUME Types, NEW w \in Requests, NEW point \in Points, Goto(w, point),
         req[w].p \in Payments \/ point = "cancel.write"
  PROVE  req' \in [Requests -> Request] /\ \A v \in Requests : Aimed(req'[v])
<1>1. [req[w] EXCEPT !.at = point] \in Request
  BY DEF Types, TypeOK, Request
<1>2. Aimed([req[w] EXCEPT !.at = point])
  BY DEF Types, TypeOK, Request, Aimed, PayPoints, RefundPoints
<1>3. req' = [req EXCEPT ![w] = [req[w] EXCEPT !.at = point]]
  BY DEF Goto
<1> QED BY <1>1, <1>2, <1>3, BeginTypes

LEMMA EndTypes ==
  ASSUME Types, NEW w \in Requests, End(w)
  PROVE  req' \in [Requests -> Request] /\ \A v \in Requests : Aimed(req'[v])
<1>1. Idle \in Request /\ Aimed(Idle)
  BY DEF Idle, Request, Points, Aimed, PayPoints, RefundPoints
<1> QED BY <1>1, BeginTypes DEF End

LEMMA SendTypes ==
  ASSUME Types, NEW p \in Payments, NEW kind \in Kinds, Send(p, kind)
  PROVE  event' \in [Payments \X Kinds -> Phases]
BY DEF Types, TypeOK, Send, Phases

LEMMA MoveTypes ==
  ASSUME Types, NEW e \in Payments \X Kinds, NEW phase \in Phases, Move(e, phase)
  PROVE  event' \in [Payments \X Kinds -> Phases]
BY DEF Types, TypeOK, Move

LEMMA StripeTypes == ASSUME Types, Stripe PROVE Types'
<1> PICK p \in Payments : \/ ClientPays(p) \/ ClientIsDeclined(p) \/ IntentIsCanceled(p)
                           \/ DisputeOpens(p) \/ \E outcome \in {"won", "lost"} : DisputeCloses(p, outcome)
  BY DEF Stripe
<1>1. event' \in [Payments \X Kinds -> Phases]
  <2>1. \E kind \in Kinds : Send(p, kind)
    BY DEF ClientPays, ClientIsDeclined, IntentIsCanceled, DisputeOpens, DisputeCloses, Kinds
  <2> QED BY <2>1, SendTypes
<1>2. intent' \in [Payments -> {"none", "open", "succeeded", "canceled"}]
  BY DEF ClientPays, ClientIsDeclined, IntentIsCanceled, DisputeOpens, DisputeCloses, stripeVars,
         Types, TypeOK
<1>3. dispute' \in [Payments -> {"none", "open", "won", "lost"}]
  BY DEF ClientPays, ClientIsDeclined, IntentIsCanceled, DisputeOpens, DisputeCloses, stripeVars,
         Types, TypeOK
<1>4. UNCHANGED <<booking, status, retries, returned, req, job>>
  BY DEF ClientPays, ClientIsDeclined, IntentIsCanceled, DisputeOpens, DisputeCloses, stripeVars
<1> QED BY <1>1, <1>2, <1>3, <1>4 DEF Types, TypeOK, JobAimed

LEMMA WebhookTypes ==
  ASSUME Types, Webhook \/ (\E e \in Payments \X Kinds : HandlerFails(e))
  PROVE  Types'
<1>1. ASSUME NEW e \in Payments \X Kinds, Deliver(e) \/ HandlerFails(e) PROVE Types'
  <2>1. event' \in [Payments \X Kinds -> Phases]
    BY <1>1, MoveTypes DEF Deliver, HandlerFails, Phases
  <2> QED BY <1>1, <2>1 DEF Deliver, HandlerFails, stripeVars, Types, TypeOK, JobAimed
<1>2. ASSUME NEW p \in Payments, Handle(p) PROVE Types'
  <2>1. event' \in [Payments \X Kinds -> Phases]
    <3>1. \E kind \in Kinds, phase \in Phases : Move(<<p, kind>>, phase)
      BY <1>2 DEF Handle, SuccessRead, SuccessCommit, HandleFailure, HandleDisputeCreated,
                  HandleDisputeClosed, Kinds, Phases
    <3> QED BY <3>1, MoveTypes
  <2>2. status' \in [Payments -> PaymentStatus \cup {"NONE"}]
    BY <1>2 DEF Handle, SuccessRead, SuccessCommit, HandleFailure, HandleDisputeCreated,
                HandleDisputeClosed, Types, TypeOK, PaymentStatus
  <2>3. booking' \in BookingStatus
    BY <1>2 DEF Handle, SuccessRead, SuccessCommit, HandleFailure, HandleDisputeCreated,
                HandleDisputeClosed, Types, TypeOK, BookingStatus
  <2>4. UNCHANGED <<retries, intent, returned, dispute, req, job>>
    BY <1>2 DEF Handle, SuccessRead, SuccessCommit, HandleFailure, HandleDisputeCreated,
                HandleDisputeClosed, stripeVars
  <2> QED BY <2>1, <2>2, <2>3, <2>4 DEF Types, TypeOK, JobAimed
<1> QED BY <1>1, <1>2 DEF Webhook

LEMMA PayTypes ==
  ASSUME Types, NEW w \in Requests,
         (\E p \in Payments : PayRead(w, p)) \/ PayOpenIntent(w) \/ PayRecord(w)
  PROVE  Types'
<1>1. ASSUME NEW p \in Payments, PayRead(w, p) PROVE Types'
  <2> DEFINE q == [Idle EXCEPT !.at = "pay.open", !.p = p]
  <2>1. q \in Request /\ Aimed(q)
    BY DEF Idle, Request, Points, Aimed
  <2>2. req' \in [Requests -> Request] /\ \A v \in Requests : Aimed(req'[v])
    BY <1>1, <2>1, BeginTypes DEF PayRead
  <2> QED BY <1>1, <2>2 DEF PayRead, stripeVars, Types, TypeOK, JobAimed
<1>2. ASSUME PayOpenIntent(w) PROVE Types'
  <2>1. req[w].p \in Payments
    BY <1>2 DEF PayOpenIntent, Types, Aimed, PayPoints
  <2>2. req' \in [Requests -> Request] /\ \A v \in Requests : Aimed(req'[v])
    BY <1>2, <2>1, GotoTypes DEF PayOpenIntent, Points
  <2> QED BY <1>2, <2>2 DEF PayOpenIntent, Types, TypeOK, JobAimed
<1>3. ASSUME PayRecord(w) PROVE Types'
  <2>1. req' \in [Requests -> Request] /\ \A v \in Requests : Aimed(req'[v])
    BY <1>3, EndTypes DEF PayRecord
  <2> QED BY <1>3, <2>1 DEF PayRecord, stripeVars, Types, TypeOK, JobAimed, PaymentStatus
<1> QED BY <1>1, <1>2, <1>3

LEMMA CancelTypes ==
  ASSUME Types, NEW w \in Requests, CancelRead(w) \/ CancelWrite(w) \/ RequestDies(w)
  PROVE  Types'
<1>1. ASSUME CancelRead(w) PROVE req' \in [Requests -> Request] /\ \A v \in Requests : Aimed(req'[v])
  <2>1. CASE Goto(w, "cancel.write")
    BY <2>1, GotoTypes DEF Points
  <2>2. ASSUME NEW p \in Payments,
               req' = [req EXCEPT ![w] =
                         [Idle EXCEPT !.at = "cancel.write", !.p = p, !.amount = PolicyRefund]]
        PROVE  req' \in [Requests -> Request] /\ \A v \in Requests : Aimed(req'[v])
    <3> DEFINE q == [Idle EXCEPT !.at = "cancel.write", !.p = p, !.amount = PolicyRefund]
    <3>1. PolicyRefund \in Nat
      BY RefundsAreCents, AmountIsCents
    <3>2. q \in Request /\ Aimed(q)
      BY <3>1 DEF Idle, Request, Points, Aimed, PayPoints, RefundPoints
    <3> QED BY <2>2, <3>2, BeginTypes
  <2> QED BY <1>1, <2>1, <2>2 DEF CancelRead
<1>2. ASSUME CancelWrite(w) PROVE req' \in [Requests -> Request] /\ \A v \in Requests : Aimed(req'[v])
  <2>1. req[w].p \in Payments \cup {NoPayment}
    BY DEF Types, TypeOK, Request
  <2> QED BY <1>2, <2>1, GotoTypes, EndTypes DEF CancelWrite, Points
<1>3. ASSUME RequestDies(w) PROVE req' \in [Requests -> Request] /\ \A v \in Requests : Aimed(req'[v])
  BY <1>3, EndTypes DEF RequestDies
<1> QED BY <1>1, <1>2, <1>3
  DEF CancelRead, CancelWrite, RequestDies, stripeVars, Types, TypeOK, JobAimed, BookingStatus

LEMMA RefundTypes ==
  ASSUME Types, NEW w \in Requests,
         \/ \E p \in Payments, amount \in RefundAmounts : RefundBegin(w, p, amount)
         \/ RefundRead(w) \/ RefundList(w) \/ RefundCreate(w) \/ RefundRecord(w)
  PROVE  Types'
<1>1. ASSUME NEW p \in Payments, NEW amount \in RefundAmounts, RefundBegin(w, p, amount) PROVE Types'
  <2> DEFINE q == [Idle EXCEPT !.at = "refund.read", !.p = p, !.amount = amount]
  <2>1. q \in Request /\ Aimed(q)
    BY RefundsAreCents DEF Idle, Request, Points, Aimed
  <2>2. req' \in [Requests -> Request] /\ \A v \in Requests : Aimed(req'[v])
    BY <1>1, <2>1, BeginTypes DEF RefundBegin
  <2> QED BY <1>1, <2>2 DEF RefundBegin, stripeVars, Types, TypeOK, JobAimed
<1> USE DEF Aimed, RefundPoints
<1>2. ASSUME RefundRead(w) PROVE Types'
  <2>1. req[w].p \in Payments
    BY <1>2 DEF RefundRead, Types
  <2>2. req' \in [Requests -> Request] /\ \A v \in Requests : Aimed(req'[v])
    BY <1>2, <2>1, GotoTypes, EndTypes DEF RefundRead, Points
  <2> QED BY <1>2, <2>2 DEF RefundRead, stripeVars, Types, TypeOK, JobAimed
<1>3. ASSUME RefundList(w) PROVE Types'
  <2> DEFINE prior == returned[req[w].p]
             new   == IF req[w].amount = 0 THEN Amount - prior ELSE req[w].amount
             q     == [req[w] EXCEPT !.at = "refund.create", !.amount = new, !.prior = prior]
  <2>1. req[w].p \in Payments
    BY <1>3 DEF RefundList, Types
  <2>2. prior \in Nat /\ new \in Nat
    BY <2>1, AmountIsCents DEF Types, TypeOK, Request
  <2>3. q \in Request /\ Aimed(q)
    <3>1. req[w] \in Request
      BY DEF Types, TypeOK
    <3> QED BY <2>1, <2>2, <3>1 DEF Request, Points
  <2>4. req' = [req EXCEPT ![w] = q] \/ End(w)
    BY <1>3 DEF RefundList
  <2>5. req' \in [Requests -> Request] /\ \A v \in Requests : Aimed(req'[v])
    BY <2>3, <2>4, BeginTypes, EndTypes
  <2> QED BY <1>3, <2>5 DEF RefundList, stripeVars, Types, TypeOK, JobAimed
<1>4. ASSUME RefundCreate(w) PROVE Types'
  <2>1. req[w].p \in Payments /\ req[w].amount \in Nat
    BY <1>4 DEF RefundCreate, Types, TypeOK, Request
  <2>2. req' \in [Requests -> Request] /\ \A v \in Requests : Aimed(req'[v])
    BY <1>4, <2>1, GotoTypes, EndTypes DEF RefundCreate, Points
  <2>3. returned' \in [Payments -> 0..Amount]
    BY <1>4, <2>1, AmountIsCents DEF RefundCreate, Refundable, Types, TypeOK
  <2> QED BY <1>4, <2>2, <2>3 DEF RefundCreate, Types, TypeOK, JobAimed
<1>5. ASSUME RefundRecord(w) PROVE Types'
  <2>1. req' \in [Requests -> Request] /\ \A v \in Requests : Aimed(req'[v])
    BY <1>5, EndTypes DEF RefundRecord
  <2> QED BY <1>5, <2>1 DEF RefundRecord, stripeVars, Types, TypeOK, JobAimed, PaymentStatus
<1> QED BY <1>1, <1>2, <1>3, <1>4, <1>5

LEMMA RetryTypes == ASSUME Types, RetryJob PROVE Types'
<1> USE DEF JobAimed, RetryPoints
<1>1. ASSUME NEW p \in Payments, RetryRead(p) PROVE Types'
  BY <1>1 DEF RetryRead, stripeVars, Types, TypeOK, JobPoints
<1>2. ASSUME RetryRetrieve PROVE Types'
  BY <1>2 DEF RetryRetrieve, stripeVars, Types, TypeOK, JobPoints
<1>3. ASSUME RetryConfirm PROVE Types'
  <2>1. job.p \in Payments /\ "succeeded" \in Kinds
    BY <1>3 DEF RetryConfirm, Types, Kinds
  <2>2. event' \in [Payments \X Kinds -> Phases]
    BY <1>3, <2>1, SendTypes DEF RetryConfirm, Types, TypeOK
  <2> QED BY <1>3, <2>1, <2>2 DEF RetryConfirm, Types, TypeOK, JobPoints
<1>4. ASSUME RetryWrite PROVE Types'
  <2>1. job.p \in Payments /\ retries[job.p] < MaxRetries
    BY <1>4 DEF RetryWrite, Types
  <2>2. retries' \in [Payments -> 0..MaxRetries]
    BY <1>4, <2>1, MaxRetriesIsNat DEF RetryWrite, Types, TypeOK
  <2> QED BY <1>4, <2>2 DEF RetryWrite, JobIdle, stripeVars, Types, TypeOK, JobPoints, PaymentStatus
<1> QED BY <1>1, <1>2, <1>3, <1>4 DEF RetryJob

LEMMA OrphanTypes ==
  ASSUME Types, (\E p \in Payments : StaleRead(p)) \/ markPaymentFailed
  PROVE  Types'
BY DEF StaleRead, markPaymentFailed, JobIdle, stripeVars, Types, TypeOK, JobAimed, RetryPoints,
       JobPoints, PaymentStatus

(* Every step any of the specifications takes. *)
AnyNext == Next \/ RetryNext \/ OrphanNext

LEMMA NextTypes == Types /\ [AnyNext]_vars => Types'
<1> SUFFICES ASSUME Types, [AnyNext]_vars PROVE Types'
  OBVIOUS
<1>1. CASE UNCHANGED vars
  BY <1>1 DEF vars, stripeVars, Types, TypeOK, JobAimed
<1>2. CASE API
  <2> PICK w \in Requests : Starts(w) \/ Proceeds(w)
    BY <1>2 DEF API
  <2> QED BY PayTypes, CancelTypes, RefundTypes DEF Starts, Proceeds
<1>3. CASE Others
  BY <1>3 DEF Others, BookingIsWritten, stripeVars, Types, TypeOK, JobAimed, BookingStatus
<1>4. CASE Failures
  BY <1>4, WebhookTypes, CancelTypes DEF Failures
<1> QED BY <1>1, <1>2, <1>3, <1>4, StripeTypes, WebhookTypes, RetryTypes, OrphanTypes
  DEF AnyNext, Next, RetryNext, OrphanNext

(* Every variable keeps its type, with the retry job and with the job that *)
(* fails stale payments too: no refund exceeds what was paid and no more   *)
(* retries are counted than RetryFailedPaymentsHandler allows.             *)
THEOREM TypesHold == Spec \/ RetrySpec \/ OrphanSpec => []TypeOK
<1>1. Types /\ [Next]_vars => Types'
  BY NextTypes DEF AnyNext
<1>2. Types /\ [RetryNext]_vars => Types'
  BY NextTypes DEF AnyNext
<1>3. Types /\ [OrphanNext]_vars => Types'
  BY NextTypes DEF AnyNext
<1>4. Types => TypeOK
  BY DEF Types
<1> QED BY InitTypes, <1>1, <1>2, <1>3, <1>4, PTL DEF Spec, RetrySpec, OrphanSpec

-----------------------------------------------------------------------------
(* The ledger. *)

LEMMA InitFacts == Init => Facts
<1> SUFFICES ASSUME Init PROVE Facts
  OBVIOUS
<1>1. ASSUME NEW p \in Payments PROVE Backed(p)
  <2>1. event[<<p, "succeeded">>] = "unsent" /\ event[<<p, "dispute.closed">>] = "unsent"
    BY DEF Init, Kinds
  <2> QED BY <2>1 DEF Init, Backed, Ledger!Received
<1>2. ASSUME NEW w \in Requests PROVE PayKnows(w) /\ RefundKnows(w)
  BY DEF Init, Idle, PayKnows, RefundKnows, PayPoints, RefundPoints
<1> QED BY <1>1, <1>2 DEF Facts

LEMMA InitLedger == Init => Ledger!LedgerInit
BY DEF Init, Ledger!LedgerInit

(* A step that moves no money and writes no status. *)
LEMMA NoLedgerStep ==
  ASSUME UNCHANGED <<status, intent, returned>>,
         \A p \in Payments : dispute'[p] = "lost" <=> dispute[p] = "lost"
  PROVE  UNCHANGED Ledger!ledgerVars
BY DEF Ledger!ledgerVars

(* The events of Stripe, as they are sent, delivered, failed and handled.  *)
LEMMA SendEvent ==
  ASSUME Types, NEW p \in Payments, NEW kind \in Kinds, Send(p, kind)
  PROVE  \A q \in Payments, k \in Kinds :
           event'[<<q, k>>] = IF q = p /\ k = kind /\ event[<<q, k>>] = "unsent" THEN "sent"
                              ELSE event[<<q, k>>]
<1> TAKE q \in Payments, k \in Kinds
<1>1. <<q, k>> \in Payments \X Kinds /\ <<p, kind>> \in Payments \X Kinds
  OBVIOUS
<1>2. <<q, k>> = <<p, kind>> <=> q = p /\ k = kind
  OBVIOUS
<1> QED BY <1>1, <1>2 DEF Types, TypeOK, Send

LEMMA MoveEvent ==
  ASSUME Types, NEW p \in Payments, NEW kind \in Kinds, NEW phase, Move(<<p, kind>>, phase)
  PROVE  \A q \in Payments, k \in Kinds :
           event'[<<q, k>>] = IF q = p /\ k = kind THEN phase ELSE event[<<q, k>>]
<1> TAKE q \in Payments, k \in Kinds
<1>1. <<q, k>> \in Payments \X Kinds /\ <<p, kind>> \in Payments \X Kinds
  OBVIOUS
<1>2. <<q, k>> = <<p, kind>> <=> q = p /\ k = kind
  OBVIOUS
<1> QED BY <1>1, <1>2 DEF Types, TypeOK, Move

(* News of Stripe, and what it is news of. *)
LEMMA SendBacked ==
  ASSUME Inv, NEW p \in Payments, NEW kind \in Kinds, Send(p, kind),
         UNCHANGED <<booking, status, returned>>,
         kind = "succeeded" => intent'[p] = "succeeded" /\ Exists(p),
         kind = "dispute.closed" => dispute'[p] \in {"won", "lost"},
         \A q \in Payments :
           /\ intent[q] = "succeeded" => intent'[q] = "succeeded"
           /\ intent'[q] = "none" => intent[q] = "none"
           /\ dispute[q] \in {"won", "lost"} => dispute'[q] = dispute[q]
           /\ dispute'[q] # "none" => intent'[q] = "succeeded"
  PROVE  \A q \in Payments : Backed(q)'
<1> TAKE q \in Payments
<1>0. Types /\ "succeeded" \in Kinds /\ "dispute.closed" \in Kinds
  BY DEF Inv, Kinds
<1>1. \/ event'[<<q, "succeeded">>] = event[<<q, "succeeded">>]
      \/ /\ q = p /\ kind = "succeeded"
         /\ event[<<q, "succeeded">>] = "unsent" /\ event'[<<q, "succeeded">>] = "sent"
  BY <1>0, SendEvent
<1>2. \/ event'[<<q, "dispute.closed">>] = event[<<q, "dispute.closed">>]
      \/ q = p /\ kind = "dispute.closed"
  BY <1>0, SendEvent
<1>3. Backed(q)
  BY DEF Inv, Facts
<1> QED BY <1>1, <1>2, <1>3 DEF Backed, Exists

LEMMA StripeGood == ASSUME Inv, Stripe PROVE Good
<1> PICK p \in Payments : \/ ClientPays(p) \/ ClientIsDeclined(p) \/ IntentIsCanceled(p)
                           \/ DisputeOpens(p) \/ \E outcome \in {"won", "lost"} : DisputeCloses(p, outcome)
  BY DEF Stripe
<1>0. /\ Types
      /\ \A w \in Requests : PayKnows(w) /\ RefundKnows(w)
      /\ \A q \in Payments : dispute[q] # "none" => intent[q] = "succeeded"
  BY DEF Inv, Facts, Backed
<1>1. UNCHANGED <<booking, status, returned, req>>
  BY DEF ClientPays, ClientIsDeclined, IntentIsCanceled, DisputeOpens, DisputeCloses, stripeVars
<1>2. \A w \in Requests : RefundKnows(w)'
  BY <1>0, <1>1 DEF RefundKnows, Ledger!Received
<1>3. ASSUME Exists(p) \/ UNCHANGED intent, \A q \in Payments : q # p => intent'[q] = intent[q]
      PROVE  \A w \in Requests : PayKnows(w)'
  BY <1>0, <1>1, <1>3 DEF PayKnows, Exists, Types, Aimed
<1>4. CASE ClientPays(p)
  <2>1. Send(p, "succeeded") /\ "succeeded" \in Kinds
    BY <1>4 DEF ClientPays, Kinds
  <2>2. intent' = [intent EXCEPT ![p] = "succeeded"] /\ intent[p] = "open" /\ Exists(p)
        /\ UNCHANGED dispute
    BY <1>4 DEF ClientPays
  <2>3. \A q \in Payments : Backed(q)'
    BY <1>0, <1>1, <2>1, <2>2, SendBacked DEF Types, TypeOK
  <2>4. Ledger!Capture(p)
    BY <1>0, <1>1, <2>2 DEF Ledger!Capture, Types, TypeOK
  <2> QED BY <1>0, <1>2, <1>3, <2>2, <2>3, <2>4 DEF Good, Facts, Ledger!LedgerNext, Types, TypeOK
<1>5. CASE ClientIsDeclined(p)
  <2>1. Send(p, "failed") /\ "failed" \in Kinds /\ UNCHANGED <<intent, dispute>>
    BY <1>5 DEF ClientIsDeclined, Kinds, stripeVars
  <2>2. \A q \in Payments : Backed(q)'
    BY <1>0, <1>1, <2>1, SendBacked
  <2> QED BY <1>0, <1>1, <1>2, <1>3, <2>1, <2>2, NoLedgerStep DEF Good, Facts
<1>6. CASE IntentIsCanceled(p)
  <2>1. Send(p, "canceled") /\ "canceled" \in Kinds
    BY <1>6 DEF IntentIsCanceled, Kinds
  <2>2. intent' = [intent EXCEPT ![p] = "canceled"] /\ intent[p] = "open" /\ Exists(p)
        /\ UNCHANGED dispute
    BY <1>6 DEF IntentIsCanceled
  <2>3. \A q \in Payments : Backed(q)'
    BY <1>0, <1>1, <2>1, <2>2, SendBacked DEF Types, TypeOK
  <2>4. UNCHANGED Ledger!ledgerVars
    BY <1>0, <1>1, <2>2 DEF Ledger!ledgerVars, Types, TypeOK
  <2> QED BY <1>0, <1>2, <1>3, <2>2, <2>3, <2>4 DEF Good, Facts, Types, TypeOK
<1>7. CASE DisputeOpens(p)
  <2>1. Send(p, "dispute.created") /\ "dispute.created" \in Kinds
    BY <1>7 DEF DisputeOpens, Kinds
  <2>2. dispute' = [dispute EXCEPT ![p] = "open"] /\ dispute[p] = "none" /\ intent[p] = "succeeded"
        /\ UNCHANGED intent
    BY <1>7 DEF DisputeOpens
  <2>3. \A q \in Payments : Backed(q)'
    BY <1>0, <1>1, <2>1, <2>2, SendBacked DEF Types, TypeOK
  <2>4. UNCHANGED Ledger!ledgerVars
    BY <1>0, <1>1, <2>2, NoLedgerStep DEF Types, TypeOK
  <2> QED BY <1>0, <1>2, <1>3, <2>2, <2>3, <2>4 DEF Good, Facts
<1>8. ASSUME NEW outcome \in {"won", "lost"}, DisputeCloses(p, outcome) PROVE Good
  <2>1. Send(p, "dispute.closed") /\ "dispute.closed" \in Kinds
    BY <1>8 DEF DisputeCloses, Kinds
  <2>2. dispute' = [dispute EXCEPT ![p] = outcome] /\ dispute[p] = "open" /\ UNCHANGED intent
    BY <1>8 DEF DisputeCloses
  <2>3. \A q \in Payments : Backed(q)'
    <3>1. intent[p] = "succeeded" /\ dispute'[p] = outcome
      BY <1>0, <2>2 DEF Types, TypeOK
    <3>2. \A q \in Payments : q # p => dispute'[q] = dispute[q]
      BY <1>0, <2>2 DEF Types, TypeOK
    <3> QED BY <1>0, <1>1, <2>1, <2>2, <3>1, <3>2, SendBacked
  <2>4. CASE outcome = "won"
    BY <1>0, <1>1, <1>2, <1>3, <2>2, <2>3, <2>4, NoLedgerStep DEF Good, Facts, Types, TypeOK
  <2>5. CASE outcome = "lost"
    <3>1. Ledger!Forfeit(p)
      BY <1>0, <1>1, <2>2, <2>5 DEF Ledger!Forfeit, Types, TypeOK
    <3> QED BY <1>0, <1>2, <1>3, <2>2, <2>3, <3>1 DEF Good, Facts, Ledger!LedgerNext
  <2> QED BY <2>4, <2>5
<1> QED BY <1>4, <1>5, <1>6, <1>7, <1>8

(* Requests keep what they know while nobody undoes it. *)
LEMMA RequestsKnow ==
  ASSUME Inv, UNCHANGED <<req, intent, returned>>,
         \A p \in Payments : /\ status[p] = "NONE" => status'[p] = "NONE"
                             /\ status[p] \in Ledger!Received => status'[p] \in Ledger!Received
  PROVE  \A w \in Requests : PayKnows(w)' /\ RefundKnows(w)'
<1> TAKE w \in Requests
<1>1. Aimed(req[w]) /\ PayKnows(w) /\ RefundKnows(w)
  BY DEF Inv, Facts, Types
<1> QED BY <1>1 DEF PayKnows, RefundKnows, Aimed, Ledger!Received

(* An event moves on; a status is written by the handler of an event. *)
LEMMA MoveBacked ==
  ASSUME Inv, NEW p \in Payments, NEW kind \in Kinds, NEW phase \in Phases \ {"unsent"},
         Move(<<p, kind>>, phase), event[<<p, kind>>] \notin {"unsent", "done"},
         phase = "record" => booking # "PENDING",
         UNCHANGED <<booking, status, stripeVars>>
  PROVE  \A q \in Payments : Backed(q)'
<1> TAKE q \in Payments
<1>0. Types /\ "succeeded" \in Kinds /\ "dispute.closed" \in Kinds
  BY DEF Inv, Kinds
<1>1. \/ event'[<<q, "succeeded">>] = event[<<q, "succeeded">>]
      \/ /\ q = p /\ event[<<q, "succeeded">>] \notin {"unsent", "done"}
         /\ event'[<<q, "succeeded">>] = phase
  BY <1>0, MoveEvent
<1>2. \/ event'[<<q, "dispute.closed">>] = event[<<q, "dispute.closed">>]
      \/ event[<<q, "dispute.closed">>] # "unsent"
  BY <1>0, MoveEvent
<1>3. Backed(q)
  BY DEF Inv, Facts
<1> QED BY <1>1, <1>2, <1>3 DEF Backed, stripeVars, Ledger!Received

LEMMA WriteBacked ==
  ASSUME Inv, NEW p \in Payments, NEW kind \in Kinds, NEW to,
         Move(<<p, kind>>, "done"), event[<<p, kind>>] \notin {"unsent", "done"},
         status' = [status EXCEPT ![p] = to], status[p] = "NONE" <=> to = "NONE",
         \/ to \in Ledger!Received => status[p] \in Ledger!Received
         \/ kind = "succeeded" /\ booking' # "PENDING",
         booking = "PENDING" \/ booking' # "PENDING", UNCHANGED stripeVars
  PROVE  \A q \in Payments : Backed(q)'
<1> TAKE q \in Payments
<1>0. Types /\ "succeeded" \in Kinds /\ "dispute.closed" \in Kinds
  BY DEF Inv, Kinds
<1>1. \/ event'[<<q, "succeeded">>] = event[<<q, "succeeded">>] /\ (q = p => kind # "succeeded")
      \/ /\ q = p /\ event[<<q, "succeeded">>] \notin {"unsent", "done"}
         /\ event'[<<q, "succeeded">>] = "done"
  BY <1>0, MoveEvent
<1>2. \/ event'[<<q, "dispute.closed">>] = event[<<q, "dispute.closed">>]
      \/ event[<<q, "dispute.closed">>] # "unsent"
  BY <1>0, MoveEvent
<1>3. Backed(q)
  BY DEF Inv, Facts
<1>4. status'[q] = IF q = p THEN to ELSE status[q]
  BY <1>0 DEF Types, TypeOK
<1> QED BY <1>1, <1>2, <1>3, <1>4 DEF Backed, stripeVars, Ledger!Received

LEMMA RecordStep ==
  ASSUME Types, NEW p \in Payments, NEW to \in PaymentStatus,
         status' = [status EXCEPT ![p] = to], UNCHANGED stripeVars,
         to # status[p] => Ledger!May(p, status[p], to)
  PROVE  [Ledger!LedgerNext]_(Ledger!ledgerVars)
<1>1. CASE to = status[p]
  BY <1>1 DEF Types, TypeOK, stripeVars, Ledger!ledgerVars
<1>2. CASE to # status[p]
  <2>1. Ledger!Record(p, to)
    BY <1>2 DEF stripeVars, Ledger!Record
  <2> QED BY <2>1 DEF Ledger!LedgerNext, PaymentStatus, Ledger!PaymentStatus
<1> QED BY <1>1, <1>2

LEMMA WebhookGood == ASSUME Inv, Webhook \/ (\E e \in Payments \X Kinds : HandlerFails(e)) PROVE Good
<1>0. Types
  BY DEF Inv
<1>1. ASSUME NEW e \in Payments \X Kinds, Deliver(e) \/ HandlerFails(e) PROVE Good
  <2>1. PICK p \in Payments, kind \in Kinds : e = <<p, kind>>
    OBVIOUS
  <2>2. PICK phase \in {"logged", "lost"} : Move(<<p, kind>>, phase)
    BY <1>1, <2>1 DEF Deliver, HandlerFails
  <2>3. /\ event[<<p, kind>>] \notin {"unsent", "done"}
        /\ UNCHANGED <<booking, status, stripeVars, req>>
    BY <1>1, <2>1 DEF Deliver, HandlerFails
  <2>4. \A q \in Payments : Backed(q)'
    BY <2>2, <2>3, MoveBacked DEF Phases
  <2> QED BY <2>3, <2>4, RequestsKnow, NoLedgerStep DEF Good, Facts, stripeVars
<1>2. ASSUME NEW p \in Payments, SuccessRead(p) PROVE Good
  <2>1. PICK phase \in {"done", "confirm", "record"} :
          Move(<<p, "succeeded">>, phase) /\ (phase = "record" => booking # "PENDING")
    BY <1>2, Zenon DEF SuccessRead
  <2>2. /\ event[<<p, "succeeded">>] = "logged" /\ "succeeded" \in Kinds
        /\ UNCHANGED <<booking, status, stripeVars, req>>
    BY <1>2 DEF SuccessRead, Kinds
  <2>3. \A q \in Payments : Backed(q)'
    BY <2>1, <2>2, MoveBacked DEF Phases
  <2> QED BY <2>2, <2>3, RequestsKnow, NoLedgerStep DEF Good, Facts, stripeVars
<1>3. ASSUME NEW p \in Payments, NEW kind \in Kinds, NEW to \in PaymentStatus \cup {"NONE"},
             Move(<<p, kind>>, "done"), event[<<p, kind>>] \notin {"unsent", "done"},
             status' = [status EXCEPT ![p] = to], UNCHANGED <<stripeVars, req>>,
             \/ to = status[p]
             \/ /\ status[p] # "NONE" /\ to # "NONE" /\ Ledger!May(p, status[p], to)
                /\ status[p] \in Ledger!Received => to \in Ledger!Received,
             \/ to \in Ledger!Received => status[p] \in Ledger!Received
             \/ kind = "succeeded" /\ booking' # "PENDING",
             booking = "PENDING" \/ booking' # "PENDING"
      PROVE  Good
  <2>1. \A q \in Payments : Backed(q)'
    BY <1>3, WriteBacked
  <2>2. \A w \in Requests : PayKnows(w)' /\ RefundKnows(w)'
    BY <1>0, <1>3, RequestsKnow DEF Types, TypeOK, stripeVars
  <2>3. [Ledger!LedgerNext]_(Ledger!ledgerVars)
    <3>1. CASE to = "NONE"
      BY <1>0, <1>3, <3>1 DEF Types, TypeOK, stripeVars, Ledger!ledgerVars
    <3>2. CASE to \in PaymentStatus
      BY <1>0, <1>3, <3>2, RecordStep
    <3> QED BY <3>1, <3>2
  <2> QED BY <2>1, <2>2, <2>3 DEF Good, Facts
<1>4. ASSUME NEW p \in Payments PROVE Backed(p) /\ status[p] \in PaymentStatus \cup {"NONE"}
  BY DEF Inv, Facts, Types, TypeOK
<1> USE DEF Ledger!Received, Ledger!May, Backed, PaymentStatus, Kinds
<1>5. ASSUME NEW p \in Payments, SuccessCommit(p) PROVE Good
  <2>1. /\ event[<<p, "succeeded">>] \in {"record", "confirm"} /\ Move(<<p, "succeeded">>, "done")
        /\ status' = [status EXCEPT ![p] = "SUCCEEDED"] /\ UNCHANGED <<stripeVars, req>>
    BY <1>5 DEF SuccessCommit
  <2>2. booking' # "PENDING"
    BY <1>4, <1>5 DEF SuccessCommit
  <2>3. status[p] \in {"PENDING", "FAILED"} /\ intent[p] = "succeeded"
    BY <1>4, <2>1
  <2> QED BY <1>3, <2>1, <2>2, <2>3
<1>6. ASSUME NEW p \in Payments, NEW kind \in {"failed", "canceled"}, HandleFailure(p, kind) PROVE Good
  <2> DEFINE to == IF status[p] = "PENDING" THEN "FAILED" ELSE status[p]
  <2>1. /\ event[<<p, kind>>] = "logged" /\ Move(<<p, kind>>, "done")
        /\ status' = [status EXCEPT ![p] = to] /\ UNCHANGED <<booking, stripeVars, req>>
    BY <1>6 DEF HandleFailure
  <2>2. to \in PaymentStatus \cup {"NONE"}
    BY <1>4
  <2> QED BY <1>3, <2>1, <2>2
<1>7. ASSUME NEW p \in Payments, HandleDisputeCreated(p) PROVE Good
  <2> DEFINE to == IF status[p] \in {"SUCCEEDED", "PARTIALLY_REFUNDED"} THEN "DISPUTED" ELSE status[p]
  <2>1. /\ event[<<p, "dispute.created">>] = "logged" /\ Move(<<p, "dispute.created">>, "done")
        /\ status' = [status EXCEPT ![p] = to] /\ UNCHANGED <<booking, stripeVars, req>>
    BY <1>7 DEF HandleDisputeCreated
  <2>2. to \in PaymentStatus \cup {"NONE"}
    BY <1>4
  <2> QED BY <1>3, <2>1, <2>2
<1>8. ASSUME NEW p \in Payments, HandleDisputeClosed(p) PROVE Good
  <2> DEFINE to == IF status[p] # "DISPUTED" THEN status[p]
                   ELSE IF dispute[p] = "won" THEN "SUCCEEDED" ELSE "REFUNDED"
  <2>1. /\ event[<<p, "dispute.closed">>] = "logged" /\ Move(<<p, "dispute.closed">>, "done")
        /\ status' = [status EXCEPT ![p] = to] /\ UNCHANGED <<booking, stripeVars, req>>
    BY <1>8 DEF HandleDisputeClosed
  <2>2. /\ to \in PaymentStatus \cup {"NONE"}
        /\ dispute[p] \in {"won", "lost"} /\ intent[p] = "succeeded"
    BY <1>4, <2>1
  <2> QED BY <1>3, <2>1, <2>2
<1> QED BY <1>1, <1>2, <1>5, <1>6, <1>7, <1>8 DEF Webhook, Handle

(* A request goes on to q; the others know what they knew. *)
LEMMA RequestGood ==
  ASSUME Inv, NEW w \in Requests, NEW q, req' = [req EXCEPT ![w] = q],
         q.at \notin PayPoints,
         \A v \in Requests \ {w} : req[v].at \in PayPoints => req[v].p # q.p,
         q.at \in RefundPoints => status[q.p] \in Ledger!Received,
         q.at = "refund.create" =>
           q.amount > 0 /\ q.prior + q.amount <= Amount /\ q.prior <= returned[q.p],
         q.at # "refund.record",
         booking = "PENDING" \/ booking' # "PENDING",
         UNCHANGED <<status, stripeVars, event>>
  PROVE  Good
<1>1. \A p \in Payments : Backed(p)'
  BY DEF Inv, Facts, Backed, stripeVars, Ledger!Received
<1>2. /\ req'[w] = q /\ \A v \in Requests \ {w} : req'[v] = req[v]
      /\ UNCHANGED <<status, intent, returned, dispute>>
  BY DEF Inv, Types, TypeOK, stripeVars
<1>3. ASSUME NEW v \in Requests PROVE PayKnows(v)' /\ RefundKnows(v)'
  <2>1. CASE v = w
    BY <1>2, <2>1 DEF PayKnows, RefundKnows, RefundPoints, Ledger!Received
  <2>2. CASE v # w
    <3>1. PayKnows(v) /\ RefundKnows(v)
      BY DEF Inv, Facts
    <3> QED BY <1>2, <2>2, <3>1 DEF PayKnows, RefundKnows, Ledger!Received
  <2> QED BY <2>1, <2>2
<1> QED BY <1>1, <1>2, <1>3, NoLedgerStep DEF Good, Facts

LEMMA EndGood ==
  ASSUME Inv, NEW w \in Requests, End(w), booking = "PENDING" \/ booking' # "PENDING",
         UNCHANGED <<status, stripeVars, event>>
  PROVE  Good
<1>1. \A v \in Requests : req[v].at \in PayPoints => req[v].p # NoPayment
  BY NoPaymentIsNone DEF Inv, Types, Aimed
<1>2. Idle.at = "idle" /\ Idle.p = NoPayment
  BY DEF Idle
<1> QED BY <1>1, <1>2, RequestGood DEF End, PayPoints, RefundPoints

(* A request takes up a payment that has a row. *)
LEMMA BeginGood ==
  ASSUME Inv, NEW w \in Requests, NEW q, req' = [req EXCEPT ![w] = q], NEW p \in Payments,
         Exists(p), q.p = p, q.at \in {"cancel.write", "refund.read"},
         UNCHANGED <<booking, status, stripeVars, event>>
  PROVE  Good
<1>1. \A v \in Requests \ {w} : req[v].at \in PayPoints => req[v].p # q.p
  BY DEF Inv, Facts, PayKnows, Exists
<1> QED BY <1>1, RequestGood DEF PayPoints, RefundPoints

(* ... or another point of its handler. *)
LEMMA GotoGood ==
  ASSUME Inv, NEW w \in Requests, NEW point \in {"cancel.write", "refund.read", "refund.list"},
         Goto(w, point), req[w].at \notin PayPoints,
         point = "refund.list" => status[req[w].p] \in Ledger!Received,
         booking = "PENDING" \/ booking' # "PENDING", UNCHANGED <<status, stripeVars, event>>
  PROVE  Good
<1> DEFINE q == [req[w] EXCEPT !.at = point]
<1>1. req' = [req EXCEPT ![w] = q] /\ q.at = point /\ q.p = req[w].p
  BY DEF Goto, Inv, Types, TypeOK, Request
<1>2. \A v \in Requests \ {w} : req[v].at \in PayPoints => req[v].p # q.p
  BY <1>1 DEF Inv, Facts, PayKnows
<1> QED BY <1>1, <1>2, RequestGood DEF PayPoints, RefundPoints

LEMMA PayGood ==
  ASSUME Inv, NEW w \in Requests,
         (\E p \in Payments : PayRead(w, p)) \/ PayOpenIntent(w) \/ PayRecord(w)
  PROVE  Good
<1>0. Types /\ (\A v \in Requests : PayKnows(v) /\ RefundKnows(v))
  BY DEF Inv, Facts
<1>1. ASSUME NEW p \in Payments, PayRead(w, p) PROVE Good
  <2> DEFINE q == [Idle EXCEPT !.at = "pay.open", !.p = p]
  <2>1. /\ q.at = "pay.open" /\ q.p = p /\ req'[w] = q
        /\ \A v \in Requests \ {w} : req'[v] = req[v]
    BY <1>0, <1>1 DEF PayRead, Idle, Types, TypeOK
  <2>2. \A v \in Requests : req[v].p # p
    BY <1>1 DEF PayRead
  <2>3. /\ UNCHANGED <<booking, status, intent, returned, dispute, event>>
        /\ status[p] = "NONE" /\ intent[p] = "none"
    BY <1>1 DEF PayRead, stripeVars, Inv, Facts, Backed
  <2>4. \A x \in Payments : Backed(x)'
    BY <2>3 DEF Inv, Facts, Backed, Ledger!Received
  <2>5. ASSUME NEW v \in Requests PROVE PayKnows(v)' /\ RefundKnows(v)'
    <3>1. CASE v = w
      BY <2>1, <2>2, <2>3, <3>1 DEF PayKnows, RefundKnows, RefundPoints
    <3>2. CASE v # w
      <4>1. \A x \in Requests : req'[x].p = req[x].p \/ req'[x].p = p
        BY <2>1
      <4>2. PayKnows(v)'
        BY <1>0, <2>1, <2>2, <2>3, <3>2, <4>1 DEF PayKnows
      <4>3. RefundKnows(v)'
        BY <1>0, <2>1, <2>3, <3>2 DEF RefundKnows, Ledger!Received
      <4> QED BY <4>2, <4>3
    <3> QED BY <3>1, <3>2
  <2> QED BY <2>3, <2>4, <2>5, NoLedgerStep DEF Good, Facts
<1>2. ASSUME PayOpenIntent(w) PROVE Good
  <2>1. PICK p \in Payments : p = req[w].p
    BY <1>0, <1>2 DEF PayOpenIntent, Types, Aimed, PayPoints
  <2>2. /\ UNCHANGED <<booking, status, returned, dispute, event>>
        /\ intent[p] = "none" /\ status[p] = "NONE"
        /\ \A v \in Requests \ {w} : req[v].p # p
    BY <1>0, <1>2, <2>1 DEF PayOpenIntent, PayKnows, PayPoints
  <2>3. intent'[p] = "open" /\ \A x \in Payments \ {p} : intent'[x] = intent[x]
    BY <1>0, <1>2, <2>1 DEF PayOpenIntent, Types, TypeOK
  <2>4. /\ req'[w].at = "pay.record" /\ req'[w].p = p
        /\ \A v \in Requests \ {w} : req'[v] = req[v]
    BY <1>0, <1>2, <2>1 DEF PayOpenIntent, Goto, Types, TypeOK, Request
  <2>5. \A x \in Payments : Backed(x)'
    BY <2>2, <2>3 DEF Inv, Facts, Backed, Ledger!Received
  <2>6. ASSUME NEW v \in Requests PROVE PayKnows(v)' /\ RefundKnows(v)'
    <3>1. CASE v = w
      BY <2>2, <2>3, <2>4, <3>1 DEF PayKnows, RefundKnows, RefundPoints
    <3>2. CASE v # w
      <4>1. req[v].at \in PayPoints => req[v].p \in Payments \ {p}
        BY <1>0, <2>2, <3>2 DEF Types, Aimed
      <4> QED BY <1>0, <2>2, <2>3, <2>4, <3>2, <4>1 DEF PayKnows, RefundKnows, Ledger!Received
    <3> QED BY <3>1, <3>2
  <2>7. UNCHANGED Ledger!ledgerVars
    BY <2>2, <2>3 DEF Ledger!ledgerVars
  <2> QED BY <2>5, <2>6, <2>7 DEF Good, Facts
<1>3. ASSUME PayRecord(w) PROVE Good
  <2>1. PICK p \in Payments : p = req[w].p
    BY <1>0, <1>3 DEF PayRecord, Types, Aimed, PayPoints
  <2>2. /\ UNCHANGED <<booking, intent, returned, dispute, event>>
        /\ intent[p] = "open" /\ status[p] = "NONE"
        /\ \A v \in Requests \ {w} : req[v].p # p
    BY <1>0, <1>3, <2>1 DEF PayRecord, PayKnows, PayPoints, stripeVars
  <2>3. status'[p] = "PENDING" /\ \A x \in Payments \ {p} : status'[x] = status[x]
    BY <1>0, <1>3, <2>1 DEF PayRecord, Types, TypeOK
  <2>4. req'[w] = Idle /\ \A v \in Requests \ {w} : req'[v] = req[v]
    BY <1>0, <1>3 DEF PayRecord, End, Types, TypeOK
  <2>5. \A x \in Payments : Backed(x)'
    BY <2>2, <2>3 DEF Inv, Facts, Backed, Ledger!Received
  <2>6. ASSUME NEW v \in Requests PROVE PayKnows(v)' /\ RefundKnows(v)'
    <3>1. CASE v = w
      BY <2>4, <3>1 DEF PayKnows, RefundKnows, RefundPoints, PayPoints, Idle
    <3>2. CASE v # w
      <4>1. req[v].at \in PayPoints \cup RefundPoints => req[v].p \in Payments \ {p}
        BY <1>0, <2>2, <3>2 DEF Types, Aimed
      <4>2. \A x \in Requests \ {v} : req'[x].p = req[x].p \/ req'[x].p = NoPayment
        BY <2>4 DEF Idle
      <4> QED BY <1>0, <2>2, <2>3, <2>4, <3>2, <4>1, <4>2, NoPaymentIsNone
              DEF PayKnows, RefundKnows, RefundPoints, Ledger!Received
    <3> QED BY <3>1, <3>2
  <2>7. [Ledger!LedgerNext]_(Ledger!ledgerVars)
    BY <1>0, <1>3, <2>1, <2>2, RecordStep DEF PayRecord, PaymentStatus, Ledger!May
  <2> QED BY <2>5, <2>6, <2>7 DEF Good, Facts
<1> QED BY <1>1, <1>2, <1>3

LEMMA CancelGood ==
  ASSUME Inv, NEW w \in Requests, CancelRead(w) \/ CancelWrite(w) \/ RequestDies(w)
  PROVE  Good
<1>1. ASSUME CancelRead(w) PROVE Good
  <2>1. CASE Goto(w, "cancel.write")
    <3>1. req[w].at \notin PayPoints
      <4>1. req[w] = Idle
        BY <1>1, Zenon DEF CancelRead
      <4> QED BY <4>1 DEF Idle, PayPoints
    <3> QED BY <1>1, <2>1, <3>1, GotoGood DEF CancelRead
  <2>2. ASSUME NEW p \in Payments, status[p] = "SUCCEEDED",
               req' = [req EXCEPT ![w] =
                         [Idle EXCEPT !.at = "cancel.write", !.p = p, !.amount = PolicyRefund]]
        PROVE  Good
    <3> DEFINE q == [Idle EXCEPT !.at = "cancel.write", !.p = p, !.amount = PolicyRefund]
    <3>1. q.at = "cancel.write" /\ q.p = p /\ Exists(p)
      BY <2>2 DEF Idle, Exists
    <3> QED BY <1>1, <2>2, <3>1, BeginGood DEF CancelRead
  <2> QED BY <1>1, <2>1, <2>2 DEF CancelRead
<1>2. ASSUME CancelWrite(w) PROVE Good
  <2>1. req[w].at \notin PayPoints /\ booking' # "PENDING"
    BY <1>2 DEF CancelWrite, PayPoints
  <2> QED BY <1>2, <2>1, GotoGood, EndGood DEF CancelWrite
<1>3. ASSUME RequestDies(w) PROVE Good
  BY <1>3, EndGood DEF RequestDies
<1> QED BY <1>1, <1>2, <1>3

LEMMA RefundGood ==
  ASSUME Inv, NEW w \in Requests,
         \/ \E p \in Payments, amount \in RefundAmounts : RefundBegin(w, p, amount)
         \/ RefundRead(w) \/ RefundList(w) \/ RefundCreate(w) \/ RefundRecord(w)
  PROVE  Good
<1>0. /\ Types /\ Aimed(req[w]) /\ req[w] \in Request
      /\ \A v \in Requests : PayKnows(v) /\ RefundKnows(v)
  BY DEF Inv, Facts, Types, TypeOK
<1>1. ASSUME NEW p \in Payments, NEW amount \in RefundAmounts, RefundBegin(w, p, amount) PROVE Good
  <2> DEFINE q == [Idle EXCEPT !.at = "refund.read", !.p = p, !.amount = amount]
  <2>1. q.at = "refund.read" /\ q.p = p
    BY DEF Idle
  <2> QED BY <1>1, <2>1, BeginGood DEF RefundBegin
<1>2. ASSUME RefundRead(w) PROVE Good
  <2>1. req[w].at \notin PayPoints
    BY <1>2 DEF RefundRead, PayPoints
  <2> QED BY <1>2, <2>1, GotoGood, EndGood DEF RefundRead, Ledger!Received
<1>3. ASSUME RefundList(w) PROVE Good
  <2> DEFINE prior == returned[req[w].p]
             new   == IF req[w].amount = 0 THEN Amount - prior ELSE req[w].amount
             q     == [req[w] EXCEPT !.at = "refund.create", !.amount = new, !.prior = prior]
  <2>1. req[w].p \in Payments /\ status[req[w].p] \in Ledger!Received
    BY <1>0, <1>3 DEF RefundList, Aimed, RefundKnows, RefundPoints
  <2>2. prior \in Nat /\ new \in Nat
    BY <1>0, <2>1, AmountIsCents DEF Types, TypeOK, Request
  <2>3. CASE new = 0 \/ prior + new > Amount
    BY <1>3, <2>3, EndGood DEF RefundList
  <2>4. CASE ~(new = 0 \/ prior + new > Amount)
    <3>1. q.at = "refund.create" /\ q.p = req[w].p /\ q.amount = new /\ q.prior = prior
      BY <1>0 DEF Request
    <3>2. q.amount > 0 /\ q.prior + q.amount <= Amount
      BY <2>2, <2>4, <3>1, AmountIsCents
    <3>3. \A v \in Requests \ {w} : req[v].at \in PayPoints => req[v].p # q.p
      BY <1>0, <3>1 DEF PayKnows
    <3>4. req' = [req EXCEPT ![w] = q] /\ UNCHANGED <<booking, status, stripeVars, event>>
      BY <1>3, <2>4 DEF RefundList
    <3>5. q.at \notin PayPoints /\ q.prior <= returned[q.p] /\ status[q.p] \in Ledger!Received
      BY <2>1, <2>2, <3>1 DEF PayPoints
    <3> HIDE DEF q
    <3> QED BY <3>1, <3>2, <3>3, <3>4, <3>5, RequestGood
  <2> QED BY <2>3, <2>4
<1>4. ASSUME RefundCreate(w) PROVE Good
  <2>1. PICK p \in Payments : p = req[w].p
    BY <1>0, <1>4 DEF RefundCreate, Aimed, RefundPoints
  <2> DEFINE cents == req[w].amount
  <2>2. /\ cents \in Nat /\ cents > 0 /\ req[w].prior \in Nat /\ req[w].prior + cents <= Amount
        /\ req[w].prior <= returned[p] /\ status[p] \in Ledger!Received
        /\ UNCHANGED <<booking, status, intent, dispute, event>> /\ returned[p] \in Nat
    BY <1>0, <1>4, <2>1, AmountIsCents DEF RefundCreate, RefundKnows, RefundPoints, Request, Types, TypeOK
  <2>3. CASE ~Refundable(p, cents)
    BY <1>4, <2>1, <2>3, EndGood DEF RefundCreate, stripeVars
  <2>4. CASE Refundable(p, cents)
    <3>1. returned' = [returned EXCEPT ![p] = @ + cents] /\ Goto(w, "refund.record")
      BY <1>4, <2>1, <2>4 DEF RefundCreate
    <3>2. /\ returned'[p] = returned[p] + cents
          /\ \A x \in Payments \ {p} : returned'[x] = returned[x]
      BY <1>0, <3>1 DEF Types, TypeOK
    <3>3. /\ req'[w].at = "refund.record" /\ req'[w].p = p
          /\ req'[w].amount = cents /\ req'[w].prior = req[w].prior
          /\ \A v \in Requests \ {w} : req'[v] = req[v]
      BY <1>0, <2>1, <3>1 DEF Goto, Types, TypeOK, Request
    <3>4. intent[p] = "succeeded"
      BY <2>2 DEF Inv, Facts, Backed, Ledger!Received
    <3>5. \A x \in Payments : Backed(x)'
      BY <2>2, <3>2, <3>4 DEF Inv, Facts, Backed, Ledger!Received
    <3>6. ASSUME NEW v \in Requests PROVE PayKnows(v)' /\ RefundKnows(v)'
      <4>1. CASE v = w
        BY <2>2, <3>2, <3>3, <4>1 DEF PayKnows, RefundKnows, RefundPoints, PayPoints, Ledger!Received
      <4>2. CASE v # w
        <5>1. req'[v] = req[v] /\ \A x \in Requests : req'[x].p = req[x].p
          BY <2>1, <3>3, <4>2
        <5>2. PayKnows(v)'
          BY <1>0, <2>2, <5>1 DEF PayKnows
        <5>3. req[v].at \in {"refund.create", "refund.record"} =>
                /\ req[v].p \in Payments /\ returned[req[v].p] \in Nat
                /\ req[v].prior \in Nat /\ req[v].amount \in Nat
                /\ returned[req[v].p] <= returned'[req[v].p] /\ returned'[req[v].p] \in Nat
          BY <1>0, <2>2, <3>2, AmountIsCents DEF Types, TypeOK, Aimed, RefundPoints, Request
        <5>4. RefundKnows(v)'
          BY <1>0, <2>2, <5>1, <5>3, AmountIsCents DEF RefundKnows, Ledger!Received
        <5> QED BY <5>2, <5>4
      <4> QED BY <4>1, <4>2
    <3>7. Ledger!LedgerNext
      <4>1. Ledger!Return(p, cents)
        BY <2>2, <2>4, <3>1, <3>4 DEF Ledger!Return, Refundable
      <4>2. cents \in 1..Amount
        BY <2>2, AmountIsCents
      <4> QED BY <4>1, <4>2 DEF Ledger!LedgerNext
    <3> QED BY <3>5, <3>6, <3>7 DEF Good, Facts
  <2> QED BY <2>3, <2>4
<1>5. ASSUME RefundRecord(w) PROVE Good
  <2>1. PICK p \in Payments : p = req[w].p
    BY <1>0, <1>5 DEF RefundRecord, Aimed, RefundPoints
  <2> DEFINE total == req[w].prior + req[w].amount
             to    == IF ~IdsAreUuid \/ status[p] = "REFUNDED" THEN status[p]
                      ELSE IF total >= Amount THEN "REFUNDED" ELSE "PARTIALLY_REFUNDED"
  <2>2. /\ status' = [status EXCEPT ![p] = to] /\ End(w)
        /\ UNCHANGED <<booking, stripeVars, event>> /\ status[p] \in Ledger!Received
    BY <1>0, <1>5, <2>1 DEF RefundRecord, RefundKnows, RefundPoints
  <2>3. to \in Ledger!Received /\ to \in PaymentStatus
    BY <2>2 DEF Ledger!Received, PaymentStatus
  <2>4. /\ returned[p] \in 0..Amount /\ returned[p] > 0
        /\ total >= Amount => returned[p] = Amount
    <3>1. returned[p] \in 0..Amount /\ req[w].prior \in Nat /\ req[w].amount \in Nat
      BY <1>0 DEF Types, TypeOK, Request
    <3>2. req[w].amount > 0 /\ total <= returned[p]
      BY <1>0, <1>5, <2>1 DEF RefundRecord, RefundKnows
    <3> QED BY <3>1, <3>2, AmountIsCents
  <2>5. to # status[p] => Ledger!May(p, status[p], to)
    BY <2>2, <2>4 DEF Ledger!May, Ledger!Received
  <2>6. [Ledger!LedgerNext]_(Ledger!ledgerVars)
    BY <1>0, <2>2, <2>3, <2>5, RecordStep
  <2>7. status'[p] = to /\ \A x \in Payments \ {p} : status'[x] = status[x]
    BY <1>0, <2>2 DEF Types, TypeOK
  <2>8. \A x \in Payments : Backed(x)'
    <3>1. UNCHANGED <<booking, intent, returned, dispute, event>>
      BY <2>2 DEF stripeVars
    <3> TAKE x \in Payments
    <3>2. Backed(x)
      BY DEF Inv, Facts
    <3>3. status'[x] = status[x] \/ (status[x] \in Ledger!Received /\ status'[x] \in Ledger!Received)
      BY <2>2, <2>3, <2>7
    <3> QED BY <3>1, <3>2, <3>3 DEF Backed, Ledger!Received
  <2>9. ASSUME NEW v \in Requests PROVE PayKnows(v)' /\ RefundKnows(v)'
    <3>1. req'[w] = Idle /\ \A x \in Requests \ {w} : req'[x] = req[x]
      BY <1>0, <2>2 DEF End, Types, TypeOK
    <3>2. CASE v = w
      BY <3>1, <3>2 DEF PayKnows, RefundKnows, RefundPoints, PayPoints, Idle
    <3>3. CASE v # w
      <4>1. req[v].at \in PayPoints \cup RefundPoints => req[v].p \in Payments
        BY <1>0 DEF Types, Aimed
      <4>2. req[v].at \in PayPoints => req[v].p # p
        BY <1>0, <2>2 DEF PayKnows, Ledger!Received
      <4>3. \A x \in Requests : req'[x].p = req[x].p \/ req'[x].p = NoPayment
        BY <3>1 DEF Idle
      <4>4. PayKnows(v)'
        BY <1>0, <2>2, <2>7, <3>1, <3>3, <4>1, <4>2, <4>3, NoPaymentIsNone DEF PayKnows, stripeVars
      <4>5. RefundKnows(v)'
        BY <1>0, <2>2, <2>3, <2>7, <3>1, <3>3, <4>1
           DEF RefundKnows, RefundPoints, stripeVars, Ledger!Received
      <4> QED BY <4>4, <4>5
    <3> QED BY <3>2, <3>3
  <2> QED BY <2>6, <2>8, <2>9 DEF Good, Facts
<1> QED BY <1>1, <1>2, <1>3, <1>4, <1>5

-----------------------------------------------------------------------------
(* Confirmations and deadlines write the booking and nothing else. *)
LEMMA OthersGood == ASSUME Inv, Others PROVE Good
<1>1. booking' # "PENDING" /\ UNCHANGED <<status, stripeVars, event, req>>
  BY DEF Others, BookingIsWritten
<1>2. \A p \in Payments : Backed(p)'
  BY <1>1 DEF Inv, Facts, Backed, stripeVars, Ledger!Received
<1> QED BY <1>1, <1>2, RequestsKnow, NoLedgerStep DEF Good, Facts, stripeVars

LEMMA StutterGood == ASSUME Inv, UNCHANGED vars PROVE Good
<1>1. \A p \in Payments : Backed(p)'
  BY DEF Inv, Facts, Backed, vars, stripeVars, Ledger!Received
<1> QED BY <1>1, RequestsKnow, NoLedgerStep DEF Good, Facts, vars, stripeVars

LEMMA NextGood == Inv /\ [Next]_vars => Inv' /\ [Ledger!LedgerNext]_(Ledger!ledgerVars)
<1>1. ASSUME Inv, [Next]_vars PROVE Types'
  BY <1>1, NextTypes DEF Inv, AnyNext
<1> SUFFICES ASSUME Inv, [Next]_vars PROVE Good
  BY <1>1 DEF Inv, Good
<1>2. CASE UNCHANGED vars
  BY <1>2, StutterGood
<1>3. CASE API
  <2> PICK w \in Requests : Starts(w) \/ Proceeds(w)
    BY <1>3 DEF API
  <2> QED BY PayGood, CancelGood, RefundGood DEF Starts, Proceeds
<1>4. CASE Failures
  BY <1>4, WebhookGood, CancelGood DEF Failures
<1> QED BY <1>2, <1>3, <1>4, StripeGood, WebhookGood, OthersGood DEF Next

LEMMA InvHolds == Spec => []Inv
<1>1. Init => Inv
  BY InitTypes, InitFacts DEF Inv
<1> QED BY <1>1, NextGood, PTL DEF Spec

(* Once a payment is recorded as received its booking is not PENDING,      *)
(* whatever order events, requests and failures come in                    *)
(* (handlePaymentSuccess confirms in the transaction that records).        *)
THEOREM PaidIsConfirmedHolds == Spec => []PaidIsConfirmed
<1>1. Inv => PaidIsConfirmed
  BY DEF Inv, Facts, Backed, PaidIsConfirmed
<1> QED BY InvHolds, <1>1, PTL

(* The payments table implements PaymentLedger: initial states are the     *)
(* ledger's, and every step is a step of the ledger or none.               *)
THEOREM TableKeepsLedger == Spec => KeepsLedger
<1> QED BY InvHolds, InitLedger, NextGood, PTL DEF Spec, KeepsLedger, Ledger!LedgerSpec

(* A step of the table that writes a status SUCCEEDED records a payment    *)
(* not yet received, or closes a dispute that was won.                     *)
LEMMA SuccessOnce ==
  ASSUME Inv, [Next]_vars, NEW p \in Payments, status'[p] # status[p]
  PROVE  /\ status[p] = "SUCCEEDED" => status'[p] # "FAILED"
         /\ status'[p] = "SUCCEEDED" =>
              status[p] \in {"PENDING", "FAILED"} \/ (status[p] = "DISPUTED" /\ dispute[p] = "won")
<1>0. status \in [Payments -> PaymentStatus \cup {"NONE"}] /\ \A q \in Payments : Backed(q)
  BY DEF Inv, Facts, Types, TypeOK
<1>1. ASSUME NEW q \in Payments, SuccessCommit(q)
      PROVE  status[p] # "SUCCEEDED" /\ status[p] \in {"PENDING", "FAILED"} /\ status'[p] = "SUCCEEDED"
  BY <1>0, <1>1 DEF SuccessCommit, Backed, Ledger!Received, PaymentStatus
<1>2. ASSUME NEW q \in Payments, NEW kind \in {"failed", "canceled"}, HandleFailure(q, kind)
      PROVE  status[p] = "PENDING" /\ status'[p] = "FAILED"
  BY <1>0, <1>2 DEF HandleFailure
<1>3. ASSUME NEW q \in Payments, HandleDisputeCreated(q)
      PROVE  status'[p] = "DISPUTED"
  BY <1>0, <1>3 DEF HandleDisputeCreated
<1>4. ASSUME NEW q \in Payments, HandleDisputeClosed(q)
      PROVE  /\ status[p] = "DISPUTED" /\ status'[p] \in {"SUCCEEDED", "REFUNDED"}
             /\ status'[p] = "SUCCEEDED" => dispute[p] = "won"
  BY <1>0, <1>4 DEF HandleDisputeClosed
<1>5. ASSUME NEW w \in Requests, PayRecord(w)
      PROVE  status[p] = "NONE" /\ status'[p] = "PENDING"
  <2>1. status[req[w].p] = "NONE" /\ req[w].p \in Payments
    BY <1>5 DEF Inv, Facts, Types, PayRecord, PayKnows, Aimed, PayPoints
  <2> QED BY <1>0, <1>5, <2>1 DEF PayRecord
<1>6. ASSUME NEW w \in Requests, RefundRecord(w)
      PROVE  status'[p] \in {"REFUNDED", "PARTIALLY_REFUNDED"}
  <2>1. req[w].p \in Payments
    BY <1>6 DEF Inv, Types, RefundRecord, Aimed, RefundPoints
  <2> QED BY <1>0, <1>6, <2>1 DEF RefundRecord
<1>7. ASSUME UNCHANGED status PROVE FALSE
  BY <1>7
<1>8. CASE Stripe
  BY <1>7, <1>8 DEF Stripe, ClientPays, ClientIsDeclined, IntentIsCanceled, DisputeOpens, DisputeCloses
<1>9. CASE Webhook
  BY <1>1, <1>2, <1>3, <1>4, <1>7, <1>9 DEF Webhook, Deliver, Handle, SuccessRead
<1>10. CASE API
  <2> PICK w \in Requests : Starts(w) \/ Proceeds(w)
    BY <1>10 DEF API
  <2> QED BY <1>5, <1>6, <1>7
    DEF Starts, Proceeds, PayRead, RefundBegin, CancelRead, PayOpenIntent, CancelWrite, RefundRead,
        RefundList, RefundCreate
<1>11. CASE Others \/ Failures \/ UNCHANGED vars
  BY <1>7, <1>11 DEF Others, Failures, BookingIsWritten, HandlerFails, RequestDies, vars
<1> QED BY <1>8, <1>9, <1>10, <1>11 DEF Next

(* No step turns a receipt into a failure, however late the news of an     *)
(* earlier decline or cancellation of the intent (handlePaymentFailure).   *)
THEOREM SuccessIsKept == Spec => SuccessKept
<1>1. Inv /\ [Next]_vars => \A p \in Payments : status[p] = "SUCCEEDED" => status'[p] # "FAILED"
  BY SuccessOnce DEF Inv, Types, TypeOK
<1>2. Inv /\ [Next]_vars =>
        [\A p \in Payments : status[p] = "SUCCEEDED" => status'[p] # "FAILED"]_vars
  BY <1>1
<1> QED BY InvHolds, <1>2, PTL DEF Spec, SuccessKept

(* No step records as simply received what is disputed or returned, unless *)
(* its dispute is won: neither a success event delivered again nor one     *)
(* overtaken by a refund or a dispute.                                     *)
THEOREM FinalStatusStays == Spec => FinalStays
<1>1. Inv /\ [Next]_vars =>
        [\A p \in Payments : status[p] \in {"DISPUTED", "REFUNDED", "PARTIALLY_REFUNDED"} /\ dispute[p] # "won"
          => status'[p] # "SUCCEEDED"]_vars
  BY SuccessOnce
<1> QED BY InvHolds, <1>1, PTL DEF Spec, FinalStays
=============================================================================
