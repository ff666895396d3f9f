--------------------------- MODULE EmailDelivery ---------------------------
(***************************************************************************)
(* One e-mail: the communications row, the Inngest function that delivers  *)
(* it, Resend, and Resend's webhook.                                       *)
(*                                                                         *)
(* createAndSend commits the row and then dispatches the event.  Inngest   *)
(* runs the handler for the event, and again when an attempt throws or its *)
(* process dies, never two attempts at a time; each commits what it writes *)
(* statement by statement.  Whether the circuit breaker lets the attempt   *)
(* through is left open (CircuitBreaker), and so is Resend's answer.       *)
(***************************************************************************)
EXTENDS Naturals

CONSTANTS
  MaxAttempts,     \* attempts Inngest makes for one event
  Deaths           \* whether processes die

EmailAssumption == MaxAttempts \in Nat \ {0} /\ Deaths \in BOOLEAN

VARIABLES
  status,       \* communications.status; "none": no row
  messageId,    \* provider_message_id is the one Resend gave
  event,        \* the dispatched event: none, waiting, running, done
  at,           \* where the running attempt is
  attempts,     \* attempts Inngest has begun
  accepted,     \* history: how often Resend accepted the e-mail
  fate,         \* what Resend knows became of it: delivered, bounced
  news          \* Resend's events under way to the webhook

row  == <<status, messageId>>
vars == <<row, event, at, attempts, accepted, fate, news>>

Status == {"none", "QUEUED", "SENDING", "SENT", "DELIVERED", "BOUNCED", "FAILED"}
Points == {"idle", "read", "sending", "send", "sent", "sentNoId", "success", "failure",
           "throw", "failed"}
News   == {"delivered", "bounced", "complained"}

TypeOK ==
  /\ status \in Status /\ messageId \in BOOLEAN
  /\ event \in {"none", "waiting", "running", "done"}
  /\ at \in Points /\ attempts \in 0 .. MaxAttempts
  /\ accepted \in Nat /\ fate \in {"none", "delivered", "bounced"}
  /\ news \subseteq News

Init ==
  /\ status = "none" /\ messageId = FALSE
  /\ event = "none" /\ at = "idle" /\ attempts = 0
  /\ accepted = 0 /\ fate = "none" /\ news = {}

-----------------------------------------------------------------------------
Create ==
  /\ status = "none"
  /\ status' = "QUEUED"
  /\ UNCHANGED <<messageId, event, at, attempts, accepted, fate, news>>

Dispatch ==
  /\ status # "none" /\ event = "none"
  /\ event' = "waiting"
  /\ UNCHANGED <<row, at, attempts, accepted, fate, news>>

Attempt ==
  /\ event = "waiting" /\ attempts < MaxAttempts
  /\ event' = "running" /\ at' = "read" /\ attempts' = attempts + 1
  /\ UNCHANGED <<row, accepted, fate, news>>

(* An attempt that returns is done; one that throws is made again if any    *)
(* attempts are left.                                                       *)
Return == event' = "done" /\ at' = "idle"
Throw  == event' = (IF attempts < MaxAttempts THEN "waiting" ELSE "done") /\ at' = "idle"

(* Broken: an open circuit ends the attempt and leaves the row as it is. *)
ReadLeavesRow ==
  /\ at = "read"
  /\ \/ Return
     \/ status = "QUEUED" /\ at' = "sending" /\ UNCHANGED event
  /\ UNCHANGED <<row, attempts, accepted, fate, news>>

(* Reads the row, the breaker, the recipient and the template: skips all but *)
(* a QUEUED row; fails the row when the circuit is open.                     *)
Read ==
  /\ at = "read"
  /\ \/ status # "QUEUED" /\ Return
     \/ status = "QUEUED" /\ at' \in {"sending", "failed"} /\ UNCHANGED event
  /\ UNCHANGED <<row, attempts, accepted, fate, news>>

MarkSending ==
  /\ at = "sending"
  /\ status' = "SENDING" /\ at' = "send"
  /\ UNCHANGED <<messageId, event, attempts, accepted, fate, news>>

ResendAccepts ==
  /\ at = "send"
  /\ accepted' = accepted + 1 /\ at' = "sent"
  /\ UNCHANGED <<row, event, attempts, fate, news>>

(* An error is thrown, or answered: then there is no message id.             *)
ResendRefuses ==
  /\ at = "send"
  /\ at' \in {"failure", "sentNoId"}
  /\ UNCHANGED <<row, event, attempts, accepted, fate, news>>

MarkSent ==
  /\ at \in {"sent", "sentNoId"}
  /\ status' = "SENT" /\ messageId' = (at = "sent") /\ at' = "success"
  /\ UNCHANGED <<event, attempts, accepted, fate, news>>

RecordSuccess ==
  /\ at = "success"
  /\ Return
  /\ UNCHANGED <<row, attempts, accepted, fate, news>>

(* A statement of the try block fails after the e-mail is sent. *)
DatabaseFails ==
  /\ at \in {"sent", "sentNoId", "success"}
  /\ at' = "failure"
  /\ UNCHANGED <<row, event, attempts, accepted, fate, news>>

RecordFailure ==
  /\ at = "failure"
  /\ at' = "throw"
  /\ UNCHANGED <<row, event, attempts, accepted, fate, news>>

MarkFailed ==
  /\ at \in {"failed", "throw"}
  /\ status' = "FAILED"
  /\ IF at = "failed" THEN Return ELSE Throw
  /\ UNCHANGED <<messageId, attempts, accepted, fate, news>>

AttemptDies ==
  /\ Deaths /\ event = "running"
  /\ Throw
  /\ UNCHANGED <<row, attempts, accepted, fate, news>>

-----------------------------------------------------------------------------
(* The mail server takes the message or bounces it; a reader complains.      *)
Outcome(f) ==
  /\ accepted > 0 /\ fate = "none"
  /\ fate' = f /\ news' = news \cup {f}
  /\ UNCHANGED <<row, event, at, attempts, accepted>>

Complaint ==
  /\ fate = "delivered"
  /\ news' = news \cup {"complained"}
  /\ UNCHANGED <<row, event, at, attempts, accepted, fate>>

NewStatus(n) == CASE n = "delivered" -> "DELIVERED" [] n = "bounced" -> "BOUNCED"
                  [] n = "complained" -> "FAILED"

(* updateMany WHERE provider_message_id: nothing before MarkSent has written *)
(* it.  The webhook answers 200 either way; Resend does not send it again.   *)
Webhook(n) ==
  /\ n \in news
  /\ status' = IF messageId THEN NewStatus(n) ELSE status
  /\ news' = news \ {n}
  /\ UNCHANGED <<messageId, event, at, attempts, accepted, fate>>

-----------------------------------------------------------------------------
Handler ==
  \/ Attempt \/ Read \/ MarkSending \/ ResendAccepts \/ ResendRefuses
  \/ MarkSent \/ RecordSuccess \/ RecordFailure \/ MarkFailed

Next ==
  \/ Create \/ Dispatch \/ Handler \/ DatabaseFails \/ AttemptDies
  \/ \E f \in {"delivered", "bounced"} : Outcome(f)
  \/ Complaint
  \/ \E n \in News : Webhook(n)

Spec == Init /\ [][Next]_vars

(* Inngest runs what is waiting, and a handler goes on; Resend does not      *)
(* refuse for ever.                                                          *)
FairSpec ==
  /\ Spec /\ WF_vars(Dispatch) /\ WF_vars(Handler) /\ SF_vars(ResendAccepts)

-----------------------------------------------------------------------------
(* However often Inngest runs the handler and wherever an attempt ended, the *)
(* recipient gets the e-mail once.                                           *)
SentAtMostOnce == accepted <= 1

(* The row says DELIVERED or BOUNCED only of an e-mail to which that          *)
(* happened; and while an attempt still has to write SENT over it, no news    *)
(* of Resend has been written that SENT would undo.                           *)
StatusIsNews ==
  /\ status = "DELIVERED" => fate = "delivered"
  /\ status = "BOUNCED" => fate = "bounced"
  /\ at = "sent" => status = "SENDING"

(* While no process dies every dispatched e-mail is settled: sent or FAILED.  *)
Settles == event # "none" ~> status \notin {"QUEUED", "SENDING"}

(* communications.processor.ts throws again after a failed attempt "for BullMQ *)
(* retry logic", so that a refused e-mail is sent by a later attempt.          *)
RefusedIsRetried == (at = "failure" /\ accepted = 0 /\ attempts < MaxAttempts) ~> accepted > 0
=============================================================================
