------------------------------- MODULE Reminders -------------------------------
(***************************************************************************)
(* What a client is reminded of: one booking, its invoice, the rows of     *)
(* booking_reminders, and the three cron jobs that write them.  A job      *)
(* reads its list, and for each reminder that is due inserts the row in a   *)
(* transaction and then has the e-mail sent; the unique index on the row    *)
(* keeps overlapping runs apart.  Time is counted in hours.                *)
(*                                                                         *)
(* "Sent" is handed over: createAndSend wrote a communication, or the       *)
(* payment job dispatched one.  (That job names no communicationId, so the  *)
(* handler of communications.processor.ts:92 looks up no row and throws.)   *)
(***************************************************************************)
EXTENDS Naturals, Integers, Sequences, FiniteSets, FiniteSetsExt

CONSTANTS
  Runs,         \* runs of the jobs that can be under way at once
  Day,          \* hours of a day
  Intervals,    \* REMINDER_INTERVALS, in days
  Horizon,      \* days ahead that the booking job looks
  Starts,       \* hours at which the booking may start
  DueBefore,    \* hours before the start at which the invoice is due
  MaxMoves,     \* bound: moves of the booking
  MaxTime,      \* bound: hours that pass
  Faults,       \* whether sending fails and processes die
  Prompt        \* whether each job has run in every hour, as the crons have it

RemindersAssumption ==
  /\ IsFiniteSet(Runs) /\ {Horizon, DueBefore, MaxMoves, MaxTime} \subseteq Nat /\ Day \in Nat \ {0}
  /\ Intervals \in Seq(1 .. Horizon - 1) /\ Intervals # <<>> /\ Starts \subseteq 1 .. MaxTime
  /\ {Faults, Prompt} \subseteq BOOLEAN

VARIABLES
  now, start, due,   \* hours; due: of the invoice
  status,            \* bookings.status
  changed,           \* bookings.updated_at
  unpaid,            \* whether the booking has an invoice that is not paid
  moves,             \* how often the booking was moved
  rows,              \* booking_reminders: <<type, days>>
  sent,              \* e-mails by <<kind, days>>
  lost,              \* history: e-mails whose row was written and that were not sent
  run,               \* per run: [at, kind, next, seen]; seen: start_time as it read it
  ran                \* jobs that have finished a run this hour

booking == <<start, due, status, changed, unpaid, moves>>
vars    == <<now, booking, rows, sent, lost, run, ran>>

Jobs  == {"BOOKING", "PAYMENT", "FOLLOWUP"}
Days  == {Intervals[i] : i \in DOMAIN Intervals} \cup {1}
Keys  == Jobs \X Days
Idle  == [at |-> "idle", kind |-> "BOOKING", next |-> 1, seen |-> 0]

TypeOK ==
  /\ now \in 0 .. MaxTime /\ {start, due, changed} \subseteq 0 .. MaxTime
  /\ status \in {"PENDING", "CONFIRMED", "CANCELLED", "COMPLETED"} /\ unpaid \in BOOLEAN
  /\ moves \in 0 .. MaxMoves /\ lost \in Nat /\ ran \subseteq Jobs
  /\ rows \subseteq {"BOOKING", "PAYMENT"} \X Days /\ sent \in [Keys -> Nat]
  /\ run \in [Runs -> [at: {"idle", "list", "send"}, kind: Jobs,
                       next: DOMAIN Intervals, seen: 0 .. MaxTime]]

Init ==
  /\ now = 0 /\ start \in Starts /\ due = 0 /\ status = "PENDING" /\ changed = 0
  /\ unpaid = FALSE /\ moves = 0 /\ rows = {} /\ sent = [k \in Keys |-> 0]
  /\ lost = 0 /\ run = [r \in Runs |-> Idle] /\ ran = {}

-----------------------------------------------------------------------------
(* The booking, as BookingLifecycle and InvoiceBook have it.                *)

Write(s) == status' = s /\ changed' = now

(* A confirmed booking may have an invoice, that is due before it starts.    *)
Confirm ==
  /\ status = "PENDING" /\ now < start /\ Write("CONFIRMED")
  /\ unpaid' \in BOOLEAN
  /\ due' = IF unpaid' THEN Max({0, start - DueBefore}) ELSE due
  /\ UNCHANGED <<now, start, moves, rows, sent, lost, run, ran>>

Cancel ==
  /\ status \in {"PENDING", "CONFIRMED"} /\ Write("CANCELLED")
  /\ UNCHANGED <<now, start, due, unpaid, moves, rows, sent, lost, run, ran>>

Complete ==
  /\ status = "CONFIRMED" /\ now >= start /\ Write("COMPLETED")
  /\ UNCHANGED <<now, start, due, unpaid, moves, rows, sent, lost, run, ran>>

Move(s) ==
  /\ status \in {"PENDING", "CONFIRMED"} /\ moves < MaxMoves /\ s # start /\ now < s
  /\ start' = s /\ moves' = moves + 1 /\ changed' = now
  /\ UNCHANGED <<now, due, status, unpaid, rows, sent, lost, run, ran>>

Pay ==
  /\ unpaid /\ unpaid' = FALSE
  /\ UNCHANGED <<now, start, due, status, changed, moves, rows, sent, lost, run, ran>>

Tick ==
  /\ now < MaxTime /\ (Prompt => ran = Jobs /\ \A r \in Runs : run[r].at = "idle")
  /\ now' = now + 1 /\ ran' = {}
  /\ UNCHANGED <<booking, rows, sent, lost, run>>

-----------------------------------------------------------------------------
(* The jobs.                                                                *)

Finish(r) == run' = [run EXCEPT ![r] = Idle] /\ ran' = ran \cup {run[r].kind}

(* The next reminder of the list, or the end of the run.                     *)
Skip(r) ==
  IF run[r].kind # "FOLLOWUP" /\ run[r].next < Len(Intervals)
    THEN run' = [run EXCEPT ![r].at = "list", ![r].next = @ + 1] /\ UNCHANGED ran
    ELSE Finish(r)

(* What each job lists: bookings to come, invoices to be paid, and bookings    *)
(* whose row was written in the last quarter of an hour.                     *)
Upcoming      == status = "CONFIRMED" /\ now < start /\ start <= now + Horizon * Day
Unpaid        == unpaid /\ now < due
JustCompleted == status = "COMPLETED" /\ changed = now

Listed(k) ==
  CASE k = "BOOKING" -> Upcoming [] k = "PAYMENT" -> Unpaid [] k = "FOLLOWUP" -> JustCompleted

Scan(r, k) ==
  /\ run[r].at = "idle"
  /\ IF Listed(k)
       THEN run' = [run EXCEPT ![r] = [at |-> "list", kind |-> k, next |-> 1, seen |-> start]] /\ UNCHANGED ran
       ELSE ran' = ran \cup {k} /\ UNCHANGED run
  /\ UNCHANGED <<now, booking, rows, sent, lost>>

DaysLeft(t) == ((t - now) + Day - 1) \div Day

(* The windows of the booking job exclude each other; the payment job takes  *)
(* every reminder that is not too early.                                     *)
InWindow(d, h) == h <= d * Day + 1 /\ (d > 1 => h > (d - 1) * Day + 1)

Due(r) ==
  LET d == Intervals[run[r].next] IN
  CASE run[r].kind = "BOOKING"  -> InWindow(d, run[r].seen - now)
    [] run[r].kind = "PAYMENT"  -> DaysLeft(due) <= d
    [] run[r].kind = "FOLLOWUP" -> TRUE

(* Broken: nobody looks for the row, and it is not unique.                   *)
NeverTaken(r) == FALSE

(* Any reminder of the booking stands in the way of a follow-up.             *)
AnyReminder == \E d \in Days : <<"BOOKING", d>> \in rows
FollowUpRow == <<"BOOKING", 1>>

RowOf(r) == IF run[r].kind = "FOLLOWUP" THEN FollowUpRow ELSE <<run[r].kind, Intervals[run[r].next]>>
Taken(r) == IF run[r].kind = "FOLLOWUP" THEN AnyReminder ELSE RowOf(r) \in rows
KeyOf(r) == IF run[r].kind = "FOLLOWUP" THEN <<"FOLLOWUP", 1>> ELSE RowOf(r)

(* The transaction: of two that insert the same row the index refuses one,   *)
(* whose error is logged.                                                    *)
Claim(r) ==
  /\ run[r].at = "list"
  /\ IF ~Due(r) \/ Taken(r) THEN Skip(r) /\ UNCHANGED rows
     ELSE rows' = rows \cup {RowOf(r)} /\ run' = [run EXCEPT ![r].at = "send"] /\ UNCHANGED ran
  /\ UNCHANGED <<now, booking, sent, lost>>

Send(r) ==
  /\ run[r].at = "send" /\ Skip(r)
  /\ sent' = [sent EXCEPT ![KeyOf(r)] = @ + 1]
  /\ UNCHANGED <<now, booking, rows, lost>>

(* An error is logged, and the next reminder is considered.                  *)
SendFails(r) ==
  /\ Faults /\ run[r].at = "send" /\ Skip(r) /\ lost' = lost + 1
  /\ UNCHANGED <<now, booking, rows, sent>>

Dies(r) ==
  /\ Faults /\ run[r].at # "idle"
  /\ run' = [run EXCEPT ![r] = Idle]
  /\ lost' = IF run[r].at = "send" THEN lost + 1 ELSE lost
  /\ UNCHANGED <<now, booking, rows, sent, ran>>

Next ==
  \/ Confirm \/ Cancel \/ Complete \/ Pay \/ Tick \/ \E s \in Starts : Move(s)
  \/ \E r \in Runs : Claim(r) \/ Send(r) \/ SendFails(r) \/ Dies(r) \/ \E k \in Jobs : Scan(r, k)

Spec == Init /\ [][Next]_vars

-----------------------------------------------------------------------------
(* However runs overlap, fail and die, and however the booking is moved, no  *)
(* reminder is sent twice; and each row is one e-mail: sent, about to be      *)
(* sent by the run that wrote it, or lost with that run.                     *)
RemindedOnce == \A k \in Keys : sent[k] <= 1

RowsAccounted ==
  Cardinality(rows) = Cardinality({k \in Keys : sent[k] > 0})
                        + Cardinality({r \in Runs : run[r].at = "send"}) + lost

(* A booking that was confirmed before a window closed and was not moved has *)
(* been reminded when it closes, if each job runs every hour and none fails.  *)
Closes(d) == IF d = 1 THEN 0 ELSE (d - 1) * Day + 1

NoneMissed ==
  Prompt /\ ~Faults /\ moves = 0 /\ status = "CONFIRMED" =>
    \A i \in DOMAIN Intervals :
      LET d == Intervals[i] IN
        changed + 1 < start - Closes(d) /\ start - now <= Closes(d) => sent[<<"BOOKING", d>>] = 1

-----------------------------------------------------------------------------
\* Not kept by the code: README.md, "Divergences".

(* "Scans for bookings completed in the last 15 minutes and enqueues         *)
(* follow-up emails with a 24-hour delay" (communications.processor.ts:242).  *)
CompletedIsFollowedUp ==
  Prompt /\ ~Faults /\ status = "COMPLETED" /\ changed < now => sent[<<"FOLLOWUP", 1>>] = 1

(* "Checks 7, 3, and 1 day(s) before due_date"                               *)
(* (send-payment-reminders.processor.ts:23).                                 *)
AskedOnItsDay ==
  [][\A d \in Days : sent'[<<"PAYMENT", d>>] > sent[<<"PAYMENT", d>>] => DaysLeft(due) = d]_vars

=============================================================================
