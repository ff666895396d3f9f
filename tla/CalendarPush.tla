---------------------------- MODULE CalendarPush ----------------------------
(***************************************************************************)
(* One booking and its events in the tenant's Google calendars.            *)
(*                                                                         *)
(* What staff do with the booking emits a domain event; the listener       *)
(* dispatches a push job for every active connection; the handler of a job *)
(* inserts, patches or deletes an event at Google and keeps an OUTBOUND    *)
(* row of calendar_events for it.  Insert, row and link to the booking are *)
(* three steps of which each may fail or be the handler's last.            *)
(***************************************************************************)
EXTENDS Naturals, Sequences, FiniteSets

CONSTANTS
  Connections,   \* calendar connections, 1 .. n, the oldest first
  Times,         \* the times a booking can have, 0 .. n
  MaxJobs,       \* bound: jobs dispatched
  MaxFaults,     \* bound: steps of handlers that throw or die
  MovesPending,  \* whether staff move the booking before it is confirmed
  Portal,        \* whether the client cancels and moves it in the portal
  Disconnects    \* whether the owner disconnects calendars

CalendarPushAssumption ==
  /\ IsFiniteSet(Connections) /\ Connections \subseteq Nat \ {0}
  /\ Times \subseteq Nat /\ 0 \in Times
  /\ {MaxJobs, MaxFaults} \subseteq Nat
  /\ {MovesPending, Portal, Disconnects} \subseteq BOOLEAN

VARIABLES
  active,    \* the connections that are ACTIVE
  booking,   \* [status, time]
  jobs,      \* the dispatched jobs, in order
  hand,      \* the handler of the first job: [at, conn, id]
  google,    \* the events at Google: set of [id, conn, time]
  rows,      \* OUTBOUND rows of calendar_events: [id, conn, time, linked]
  next,      \* the id Google gives the next event
  faults     \* how many steps have failed

vars == <<active, booking, jobs, hand, google, rows, next, faults>>

Ids    == 1 .. MaxJobs + MaxFaults + 1
Points == {"idle", "connection", "find", "insert", "record", "link", "patch",
           "update", "delete", "forget"}
Idle   == [at |-> "idle", conn |-> 0, id |-> 0]

TypeOK ==
  /\ active \subseteq Connections
  /\ booking \in [status: {"PENDING", "CONFIRMED", "CANCELLED"}, time: Times]
  /\ \A n \in DOMAIN jobs : jobs[n] \in [kind: {"CONFIRMED", "RESCHEDULED", "CANCELLED"}, time: Times]
  /\ hand \in [at: Points, conn: Connections \cup {0}, id: Ids \cup {0}]
  /\ google \subseteq [id: Ids, conn: Connections, time: Times]
  /\ rows \subseteq [id: Ids, conn: Connections, time: Times, linked: BOOLEAN]
  /\ next \in Ids /\ faults \in 0 .. MaxFaults

Init ==
  /\ active = Connections /\ booking = [status |-> "PENDING", time |-> 0]
  /\ jobs = <<>> /\ hand = Idle /\ google = {} /\ rows = {} /\ next = 1 /\ faults = 0

-----------------------------------------------------------------------------
(* The booking.                                                             *)

(* CalendarEventListener: one job for each active connection.                *)
Push(kind, time) ==
  LET n == Len(jobs)
      m == Cardinality(active)
  IN  /\ n + m <= MaxJobs
      /\ jobs' = [k \in 1 .. n + m |-> IF k <= n THEN jobs[k] ELSE [kind |-> kind, time |-> time]]

Confirm ==
  /\ booking.status = "PENDING"
  /\ booking' = [booking EXCEPT !.status = "CONFIRMED"]
  /\ Push("CONFIRMED", booking.time)
  /\ UNCHANGED <<active, hand, google, rows, next, faults>>

(* Broken: the event carries the times the booking had.                      *)
RescheduleWithOldTime ==
  /\ booking.status \in {"CONFIRMED"} \cup IF MovesPending THEN {"PENDING"} ELSE {}
  /\ \E t \in Times \ {booking.time} : booking' = [booking EXCEPT !.time = t]
  /\ Push("RESCHEDULED", booking.time)
  /\ UNCHANGED <<active, hand, google, rows, next, faults>>

Reschedule ==
  /\ booking.status \in {"CONFIRMED"} \cup IF MovesPending THEN {"PENDING"} ELSE {}
  /\ \E t \in Times \ {booking.time} :
        /\ booking' = [booking EXCEPT !.time = t]
        /\ Push("RESCHEDULED", t)
  /\ UNCHANGED <<active, hand, google, rows, next, faults>>

Cancel ==
  /\ booking.status \in {"PENDING", "CONFIRMED"}
  /\ booking' = [booking EXCEPT !.status = "CANCELLED"]
  /\ Push("CANCELLED", booking.time)
  /\ UNCHANGED <<active, hand, google, rows, next, faults>>

(* The portal writes the booking and emits nothing.                          *)
ClientCancels ==
  /\ Portal /\ booking.status \in {"PENDING", "CONFIRMED"}
  /\ booking' = [booking EXCEPT !.status = "CANCELLED"]
  /\ UNCHANGED <<active, jobs, hand, google, rows, next, faults>>

ClientMoves ==
  /\ Portal /\ booking.status \in {"PENDING", "CONFIRMED"}
  /\ \E t \in Times \ {booking.time} : booking' = [booking EXCEPT !.time = t]
  /\ UNCHANGED <<active, jobs, hand, google, rows, next, faults>>

-----------------------------------------------------------------------------
(* The handler.  Jobs are handled one at a time in order; a failed one is   *)
(* tried again before the next.                                             *)

Job     == jobs[1]
Primary == CHOOSE c \in active : \A d \in active : c <= d
Goto(p) == hand' = [hand EXCEPT !.at = p]
Done    == hand' = Idle /\ jobs' = SubSeq(jobs, 2, Len(jobs))

Take ==
  /\ hand.at = "idle" /\ jobs # <<>>
  /\ Goto("connection")
  /\ UNCHANGED <<active, booking, jobs, google, rows, next, faults>>

(* The connection of the job is not looked at.                               *)
Connection ==
  /\ hand.at = "connection"
  /\ IF active = {} THEN Done
     ELSE /\ hand' = [hand EXCEPT !.conn = Primary,
                                  !.at = IF Job.kind = "CONFIRMED" THEN "insert" ELSE "find"]
          /\ UNCHANGED jobs
  /\ UNCHANGED <<active, booking, google, rows, next, faults>>

Linked == {r \in rows : r.conn = hand.conn /\ r.linked}

(* findFirst: any of the rows linked to the booking.                         *)
Find ==
  /\ hand.at = "find"
  /\ IF Linked # {}
       THEN /\ \E r \in Linked :
                 hand' = [hand EXCEPT !.id = r.id,
                                      !.at = IF Job.kind = "CANCELLED" THEN "delete" ELSE "patch"]
            /\ UNCHANGED jobs
       ELSE IF Job.kind = "CANCELLED" THEN Done ELSE Goto("insert") /\ UNCHANGED jobs
  /\ UNCHANGED <<active, booking, google, rows, next, faults>>

Insert ==
  /\ hand.at = "insert" /\ hand.conn \in active /\ next < MaxJobs + MaxFaults + 1
  /\ google' = google \cup {[id |-> next, conn |-> hand.conn, time |-> Job.time]}
  /\ hand' = [hand EXCEPT !.id = next, !.at = "record"]
  /\ next' = next + 1
  /\ UNCHANGED <<active, booking, jobs, rows, faults>>

Row(linked) == [id |-> hand.id, conn |-> hand.conn, time |-> Job.time, linked |-> linked]

Record ==
  /\ hand.at = "record" /\ hand.conn \in active
  /\ rows' = rows \cup {Row(FALSE)} /\ Goto("link")
  /\ UNCHANGED <<active, booking, jobs, google, next, faults>>

Link ==
  /\ hand.at = "link"
  /\ rows' = {IF r.id = hand.id THEN [r EXCEPT !.linked = TRUE] ELSE r : r \in rows}
  /\ Done
  /\ UNCHANGED <<active, booking, google, next, faults>>

Patch ==
  /\ hand.at = "patch" /\ hand.conn \in active
  /\ google' = {IF e.id = hand.id THEN [e EXCEPT !.time = Job.time] ELSE e : e \in google}
  /\ Goto("update")
  /\ UNCHANGED <<active, booking, jobs, rows, next, faults>>

Update ==
  /\ hand.at = "update"
  /\ rows' = {IF r.id = hand.id THEN [r EXCEPT !.time = Job.time] ELSE r : r \in rows}
  /\ Done
  /\ UNCHANGED <<active, booking, google, next, faults>>

(* An event that is already gone answers 410, which is not an error.         *)
Delete ==
  /\ hand.at = "delete" /\ hand.conn \in active
  /\ google' = {e \in google : e.id # hand.id}
  /\ Goto("forget")
  /\ UNCHANGED <<active, booking, jobs, rows, next, faults>>

Forget ==
  /\ hand.at = "forget"
  /\ rows' = {r \in rows : r.id # hand.id}
  /\ Done
  /\ UNCHANGED <<active, booking, google, next, faults>>

(* A statement throws or the process dies; the queue runs the job again.     *)
Fault ==
  /\ hand.at # "idle" /\ faults < MaxFaults
  /\ hand' = Idle /\ faults' = faults + 1
  /\ UNCHANGED <<active, booking, jobs, google, rows, next>>

(* The owner disconnects a calendar: its rows go, Google keeps the events.   *)
Disconnect(c) ==
  /\ Disconnects /\ c \in active
  /\ active' = active \ {c}
  /\ rows' = {r \in rows : r.conn # c}
  /\ UNCHANGED <<booking, jobs, hand, google, next, faults>>

(* getActiveConnection, or the row's foreign key, throws.                    *)
ConnectionGone ==
  /\ hand.at \in {"insert", "record", "patch", "delete"} /\ hand.conn \notin active
  /\ hand' = Idle
  /\ UNCHANGED <<active, booking, jobs, google, rows, next, faults>>

Handler == Take \/ Connection \/ Find \/ Insert \/ Record \/ Link \/ Patch \/ Update
             \/ Delete \/ Forget \/ ConnectionGone
Next == \/ Confirm \/ Reschedule \/ Cancel \/ ClientCancels \/ ClientMoves
        \/ \E c \in Connections : Disconnect(c)
        \/ Handler \/ Fault

Spec == Init /\ [][Next]_vars /\ WF_vars(Handler)

-----------------------------------------------------------------------------
Quiet == jobs = <<>>

(* When nobody acts in the portal, nothing is moved before it is confirmed   *)
(* and no step fails, then once the jobs are done Google has exactly one     *)
(* event of a confirmed booking, at the booking's time, and none of another; *)
(* and the rows say so.                                                      *)
MirrorsBooking ==
  Quiet => /\ google = {[id |-> r.id, conn |-> r.conn, time |-> r.time] : r \in rows}
           /\ {e.time : e \in google} = IF booking.status = "CONFIRMED" THEN {booking.time} ELSE {}
           /\ Cardinality(google) <= 1

(* Failed and repeated steps may leave an event too many, never one too few: *)
(* once the jobs are done a confirmed booking has an event, linked to it,    *)
(* whose time at Google and in the row is the booking's.                     *)
NothingIsMissing ==
  Quiet /\ booking.status = "CONFIRMED" =>
    \E r \in rows, e \in google :
      r.linked /\ r.id = e.id /\ {r.time, e.time} = {booking.time}

(* While no step fails, no event of a connected calendar is forgotten: each   *)
(* one has its row, or the handler is about to write it.                     *)
EventsHaveRows ==
  \A e \in google : e.conn \in active =>
    \/ \E r \in rows : r.id = e.id /\ r.conn = e.conn
    \/ hand.at = "record" /\ hand.id = e.id

(* "One event per active calendar connection" (event-push.function.ts).      *)
OneEventPerConnection ==
  Quiet /\ booking.status = "CONFIRMED" =>
    \A c \in Connections : Cardinality({e \in google : e.conn = c}) = 1

(* A cancelled booking leaves the calendar.                                  *)
CancelledIsGone == (booking.status = "CANCELLED" /\ Quiet) ~> (google = {})
=============================================================================
