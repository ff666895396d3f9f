-------------------------- MODULE WebhookDelivery --------------------------
(***************************************************************************)
(* Outgoing webhooks of one endpoint: its deliveries, the handler that     *)
(* POSTs them, and the counter of failures that disables the endpoint.     *)
(*                                                                         *)
(* A delivery is committed, then dispatched; Inngest runs the handler for  *)
(* it, and again when the handler throws or dies.  Handlers of different   *)
(* deliveries run at once.  Each statement of the handler is a step; what  *)
(* it read of the delivery and the endpoint it keeps to the end.           *)
(***************************************************************************)
EXTENDS Naturals, FiniteSets

CONSTANTS
  Deliveries,
  Threshold,       \* CIRCUIT_BREAKER_THRESHOLD
  MaxAttempts,     \* endpoint.maxAttempts
  Tries,           \* how often Inngest runs one event
  MaxEnables,      \* bound: how often the owner enables the endpoint
  Deaths           \* whether processes die

WebhookAssumption ==
  /\ IsFiniteSet(Deliveries) /\ Deaths \in BOOLEAN /\ MaxEnables \in Nat
  /\ {Threshold, MaxAttempts, Tries} \subseteq Nat \ {0}

VARIABLES
  endpoint,    \* [exists, active, failures]
  status,      \* per delivery: webhook_deliveries.status; "none": no row
  attempts,    \* per delivery: attempt_count
  event,       \* per delivery: none, waiting, running, done
  at,          \* per delivery: where its handler is
  seen,        \* per delivery: attempt_count as its handler read it
  tries,       \* per delivery: how often Inngest has run it
  enables,     \* how often the owner has enabled the endpoint
  inRow,       \* history: failures recorded on deliveries since a success
               \* was recorded or the owner enabled the endpoint
  cut          \* history: how many of them were cut short after that

delivery == <<status, attempts>>
handler  == <<event, at, seen, tries>>
history  == <<inRow, cut>>
vars     == <<endpoint, delivery, handler, enables, history>>

Status == {"none", "PENDING", "SUCCEEDED", "RETRYING", "FAILED"}
Points == {"idle", "read", "skip", "post", "success", "failure", "count", "disable"}

TypeOK ==
  /\ endpoint \in [exists: BOOLEAN, active: BOOLEAN, failures: Nat]
  /\ status \in [Deliveries -> Status] /\ attempts \in [Deliveries -> Nat]
  /\ event \in [Deliveries -> {"none", "waiting", "running", "done"}]
  /\ at \in [Deliveries -> Points] /\ seen \in [Deliveries -> Nat]
  /\ tries \in [Deliveries -> 0 .. Tries]
  /\ enables \in 0 .. MaxEnables /\ inRow \in Nat /\ cut \in Nat

Init ==
  /\ endpoint = [exists |-> TRUE, active |-> TRUE, failures |-> 0]
  /\ status = [d \in Deliveries |-> "none"] /\ attempts = [d \in Deliveries |-> 0]
  /\ event = [d \in Deliveries |-> "none"] /\ at = [d \in Deliveries |-> "idle"]
  /\ seen = [d \in Deliveries |-> 0] /\ tries = [d \in Deliveries |-> 0]
  /\ enables = 0 /\ inRow = 0 /\ cut = 0

-----------------------------------------------------------------------------
History(r, c) == inRow' = r /\ cut' = c

(* An event of the tenant finds the endpoint active; a test does not ask.    *)
Create(d) ==
  /\ status[d] = "none" /\ event[d] = "none" /\ endpoint.exists
  /\ status' = [status EXCEPT ![d] = "PENDING"]
  /\ UNCHANGED <<endpoint, attempts, handler, enables, history>>

Dispatch(d) ==
  /\ status[d] = "PENDING" /\ event[d] = "none"
  /\ event' = [event EXCEPT ![d] = "waiting"]
  /\ UNCHANGED <<endpoint, delivery, at, seen, tries, enables, history>>

Run(d) ==
  /\ event[d] = "waiting"
  /\ event' = [event EXCEPT ![d] = "running"] /\ at' = [at EXCEPT ![d] = "read"]
  /\ tries' = [tries EXCEPT ![d] = @ + 1]
  /\ UNCHANGED <<endpoint, delivery, seen, enables, history>>

Goto(d, p) == at' = [at EXCEPT ![d] = p] /\ UNCHANGED <<event, tries>>

Return(d) ==
  /\ event' = [event EXCEPT ![d] = "done"] /\ at' = [at EXCEPT ![d] = "idle"]
  /\ UNCHANGED tries

Throw(d) ==
  /\ event' = [event EXCEPT ![d] = IF tries[d] < Tries THEN "waiting" ELSE "done"]
  /\ at' = [at EXCEPT ![d] = "idle"]
  /\ UNCHANGED tries

(* The row may be in any status: it is not looked at.                        *)
Read(d) ==
  /\ at[d] = "read"
  /\ CASE status[d] = "none" -> Return(d)
       [] status[d] # "none" -> Goto(d, IF endpoint.active THEN "post" ELSE "skip")
  /\ seen' = [seen EXCEPT ![d] = attempts[d]]
  /\ UNCHANGED <<endpoint, delivery, enables, history>>

Skip(d) ==
  /\ at[d] = "skip" /\ status[d] # "none"
  /\ status' = [status EXCEPT ![d] = "FAILED"] /\ Return(d)
  /\ UNCHANGED <<endpoint, attempts, seen, enables, history>>

Post(d) ==
  /\ at[d] = "post"
  /\ \E answer \in {"success", "failure"} : Goto(d, answer)
  /\ UNCHANGED <<endpoint, delivery, seen, enables, history>>

(* One transaction.                                                          *)
RecordSuccess(d) ==
  /\ at[d] = "success" /\ status[d] # "none"
  /\ status' = [status EXCEPT ![d] = "SUCCEEDED"]
  /\ attempts' = [attempts EXCEPT ![d] = @ + 1]
  /\ endpoint' = [endpoint EXCEPT !.failures = 0]
  /\ History(0, 0)
  /\ Return(d)
  /\ UNCHANGED <<seen, enables>>

(* handleFailure, first statement: the attempt is one more than was read.    *)
RecordFailure(d) ==
  /\ at[d] = "failure" /\ status[d] # "none"
  /\ status' = [status EXCEPT ![d] = IF seen[d] + 1 >= MaxAttempts THEN "FAILED" ELSE "RETRYING"]
  /\ attempts' = [attempts EXCEPT ![d] = seen[d] + 1]
  /\ History(inRow + 1, cut)
  /\ Goto(d, "count")
  /\ UNCHANGED <<endpoint, seen, enables>>

(* Broken: takes the delivery's attempts for the endpoint's failures.        *)
CountFromAttempts(d) ==
  /\ at[d] = "count" /\ endpoint.exists
  /\ endpoint' = [endpoint EXCEPT !.failures = attempts[d]]
  /\ IF attempts[d] >= Threshold THEN Goto(d, "disable") ELSE Return(d)
  /\ UNCHANGED <<delivery, seen, enables, history>>

Count(d) ==
  /\ at[d] = "count" /\ endpoint.exists
  /\ endpoint' = [endpoint EXCEPT !.failures = @ + 1]
  /\ IF endpoint.failures + 1 >= Threshold THEN Goto(d, "disable") ELSE Return(d)
  /\ UNCHANGED <<delivery, seen, enables, history>>

Disable(d) ==
  /\ at[d] = "disable" /\ endpoint.exists
  /\ endpoint' = [endpoint EXCEPT !.active = FALSE]
  /\ Return(d)
  /\ UNCHANGED <<delivery, seen, enables, history>>

CutShort(d) == IF at[d] \in {"count", "disable"} THEN cut' = cut + 1 ELSE UNCHANGED cut

(* A statement finds its row deleted, or fails: within the try block that is *)
(* a failure of the delivery, after it it is thrown.  Bound: the database is *)
(* back for the last try.                                                    *)
StatementFails(d) ==
  /\ ~endpoint.exists \/ tries[d] < Tries
  /\ \/ at[d] = "success" /\ Goto(d, "failure")
     \/ at[d] \in {"skip", "failure", "count", "disable"} /\ Throw(d)
  /\ CutShort(d)
  /\ UNCHANGED <<endpoint, delivery, seen, enables, inRow>>

HandlerDies(d) ==
  /\ Deaths /\ event[d] = "running" /\ Throw(d)
  /\ CutShort(d)
  /\ UNCHANGED <<endpoint, delivery, seen, enables, inRow>>

-----------------------------------------------------------------------------
Enable ==
  /\ endpoint.exists /\ enables < MaxEnables
  /\ endpoint' = [endpoint EXCEPT !.active = TRUE, !.failures = 0]
  /\ History(0, 0)
  /\ enables' = enables + 1
  /\ UNCHANGED <<delivery, handler>>

OwnerDisables ==
  /\ endpoint.exists /\ endpoint.active
  /\ endpoint' = [endpoint EXCEPT !.active = FALSE]
  /\ UNCHANGED <<delivery, handler, enables, history>>

(* The deliveries go with the endpoint (ON DELETE CASCADE).                   *)
Delete ==
  /\ endpoint.exists
  /\ endpoint' = [exists |-> FALSE, active |-> FALSE, failures |-> 0]
  /\ status' = [d \in Deliveries |-> "none"]
  /\ UNCHANGED <<attempts, handler, enables, history>>

-----------------------------------------------------------------------------
Step(d) ==
  \/ Dispatch(d) \/ Run(d) \/ Read(d) \/ Skip(d) \/ Post(d)
  \/ RecordSuccess(d) \/ RecordFailure(d) \/ Count(d) \/ Disable(d)

Next ==
  \/ \E d \in Deliveries : Create(d) \/ Step(d) \/ StatementFails(d) \/ HandlerDies(d)
  \/ Enable \/ OwnerDisables \/ Delete

Spec == Init /\ [][Next]_vars

(* Dispatching follows creating, Inngest runs what is waiting, and a handler *)
(* goes on: its fetch is cut off after timeoutSeconds.                       *)
FairSpec ==
  Spec /\ \A d \in Deliveries :
            WF_vars(Step(d) \/ (~endpoint.exists /\ StatementFails(d)))

-----------------------------------------------------------------------------
(* When no handler is about to count a failure it recorded, an endpoint that  *)
(* is active has not failed Threshold times in a row, except for what was cut *)
(* short: handlers that count at once lose none of each other's failures, and *)
(* a handler that dies costs one.                                             *)
FailuresDisable ==
  (\A d \in Deliveries : at[d] \notin {"count", "disable"})
    => (endpoint.active => inRow < Threshold + cut)

(* An attempt is made for every delivery, or it fails with its endpoint:      *)
(* none stays PENDING.                                                        *)
NoneStaysPending == \A d \in Deliveries : status[d] = "PENDING" ~> status[d] # "PENDING"

(* docs/phase-3-implementation-plan.md:1041, "Retry schedule: 1m, 5m, 30m,     *)
(* 2h, 12h": a delivery that is RETRYING is tried again.                       *)
RetriesHappen == \A d \in Deliveries : status[d] = "RETRYING" ~> status[d] # "RETRYING"
=============================================================================
