--------------------------- MODULE PaymentLedger ---------------------------
(***************************************************************************)
(* What the payments table promises its readers (the dashboard's totals,   *)
(* the refund endpoint, the cancellation policy): a status is written only *)
(* on money that has moved, it is never taken back by late or repeated     *)
(* news, and a refunded payment stays refunded.                            *)
(***************************************************************************)
EXTENDS Naturals

CONSTANTS
  Payments,     \* rows of payments, each with its Stripe PaymentIntent
  Amount        \* what each charges, in cents

VARIABLES
  status,       \* payments.status, "NONE" before the row exists
  captured,     \* Stripe has the client's money
  returned,     \* how much of it Stripe has refunded
  forfeited     \* a dispute took it back

ledgerVars == <<status, captured, returned, forfeited>>

PaymentStatus ==
  {"PENDING", "SUCCEEDED", "FAILED", "PARTIALLY_REFUNDED", "REFUNDED", "DISPUTED"}

(* The statuses of a payment that has once been recorded as received. *)
Received == {"SUCCEEDED", "PARTIALLY_REFUNDED", "REFUNDED", "DISPUTED"}

LedgerInit ==
  /\ status = [p \in Payments |-> "NONE"]
  /\ captured = [p \in Payments |-> FALSE]
  /\ returned = [p \in Payments |-> 0]
  /\ forfeited = [p \in Payments |-> FALSE]

-----------------------------------------------------------------------------
(* Money moves at Stripe. *)
Capture(p) ==
  /\ ~captured[p]
  /\ captured' = [captured EXCEPT ![p] = TRUE]
  /\ UNCHANGED <<status, returned, forfeited>>

Return(p, cents) ==
  /\ captured[p]
  /\ returned[p] + cents <= Amount
  /\ returned' = [returned EXCEPT ![p] = @ + cents]
  /\ UNCHANGED <<status, captured, forfeited>>

Forfeit(p) ==
  /\ captured[p]
  /\ forfeited' = [forfeited EXCEPT ![p] = TRUE]
  /\ UNCHANGED <<status, captured, returned>>

(* A status may be written when it is true and does not undo another. *)
May(p, from, to) ==
  CASE to = "PENDING"            -> from = "NONE"
    [] to = "FAILED"             -> from = "PENDING"
    [] to = "SUCCEEDED"          -> from \in {"PENDING", "FAILED", "DISPUTED"} /\ captured[p]
    [] to = "DISPUTED"           -> from \in {"SUCCEEDED", "PARTIALLY_REFUNDED"}
    [] to = "PARTIALLY_REFUNDED" -> from \in Received \ {"REFUNDED"} /\ returned[p] > 0
    [] to = "REFUNDED"           -> /\ from \in Received
                                    /\ returned[p] = Amount \/ forfeited[p]

Record(p, to) ==
  /\ May(p, status[p], to)
  /\ status' = [status EXCEPT ![p] = to]
  /\ UNCHANGED <<captured, returned, forfeited>>

LedgerNext ==
  \E p \in Payments :
    \/ Capture(p)
    \/ \E cents \in 1..Amount : Return(p, cents)
    \/ Forfeit(p)
    \/ \E to \in PaymentStatus : Record(p, to)

LedgerSpec == LedgerInit /\ [][LedgerNext]_ledgerVars
=============================================================================
