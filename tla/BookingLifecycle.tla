-------------------------- MODULE BookingLifecycle --------------------------
(***************************************************************************)
(* The life of one booking once it exists: the status handlers of          *)
(* bookings.service.ts, the client portal's cancel and reschedule, the     *)
(* payment webhook's confirmation, the deadline jobs and the job that      *)
(* settles bookings whose time has passed.                                 *)
(*                                                                         *)
(* Every handler reads the booking, validates what it read, and then       *)
(* updates the row by id: the WHERE clause has no status, so the decision  *)
(* stands on the read.  Only the settling job repeats its condition in its *)
(* UPDATE.  With the status goes a row of booking_state_history.           *)
(***************************************************************************)
EXTENDS Naturals, FiniteSets

CONSTANTS
  Requests,     \* API requests, webhook handlers and deadline jobs in flight
  MaxMoves      \* service.maxRescheduleCount

ASSUME MaxMovesIsNat == MaxMoves \in Nat
ASSUME RequestsAreFinite == IsFiniteSet(Requests) /\ Requests # {}

VARIABLES
  status, checkIn,   \* bookings.status, bookings.check_in_status
  phase,             \* where NOW() is, relative to start_time and end_time
  moves,             \* bookings.reschedule_count
  moveRows,          \* history rows with toState CONFIRMED and reason 'Rescheduled ...'
  last,              \* toState of the latest history row; "NONE": no row yet
  req,               \* the local state of each request
  job                \* where process-completed-bookings is

row  == <<status, checkIn>>
time == <<phase, moves, moveRows>>
vars == <<row, time, last, req, job>>

BookingStatus == {"PENDING", "CONFIRMED", "IN_PROGRESS", "COMPLETED", "CANCELLED", "NO_SHOW"}
CheckInStatus == {"PENDING", "CHECKED_IN", "CHECKED_OUT", "NO_SHOW"}
Terminal      == {"COMPLETED", "CANCELLED", "NO_SHOW"}

(* before start_time; until end_time; the 15 minutes after it; after them *)
Phases == {"ahead", "running", "ended", "overdue"}

ValidTransitions(from) ==
  CASE from = "PENDING"     -> {"CONFIRMED", "CANCELLED"}
    [] from = "CONFIRMED"   -> {"IN_PROGRESS", "CANCELLED", "NO_SHOW"}
    [] from = "IN_PROGRESS" -> {"COMPLETED", "CANCELLED"}
    [] OTHER                -> {}

-----------------------------------------------------------------------------
(* The handlers that write a status: the statuses they accept, the one they *)
(* write, and the check-in status they stamp on the row ("same": none).     *)

Validated(to) == {from \in BookingStatus : to \in ValidTransitions(from)}

Confirm         == [from |-> Validated("CONFIRMED"), to |-> "CONFIRMED", stamp |-> "same"]
Cancel          == [from |-> Validated("CANCELLED"), to |-> "CANCELLED", stamp |-> "same"]
MarkNoShow      == [from |-> Validated("NO_SHOW"), to |-> "NO_SHOW", stamp |-> "NO_SHOW"]
MarkArrived     == [from |-> Validated("IN_PROGRESS"), to |-> "IN_PROGRESS", stamp |-> "CHECKED_IN"]

(* Broken: a cancelled booking may be marked completed. *)
MarkCompletedAny == [from |-> BookingStatus \ {"PENDING"}, to |-> "COMPLETED", stamp |-> "same"]
MarkCompleted    == [from |-> {"IN_PROGRESS", "CONFIRMED"}, to |-> "COMPLETED", stamp |-> "same"]

CancelBooking    == [from |-> {"PENDING", "CONFIRMED"}, to |-> "CANCELLED", stamp |-> "same"]
PaymentSuccess   == [from |-> {"PENDING"}, to |-> "CONFIRMED", stamp |-> "same"]
ApprovalDeadline == [from |-> {"PENDING"}, to |-> "CANCELLED", stamp |-> "same"]
PaymentDeadline  == [from |-> {"PENDING", "CONFIRMED"}, to |-> "CANCELLED", stamp |-> "same"]

Handlers == {Confirm, Cancel, MarkNoShow, MarkArrived, MarkCompleted,
             CancelBooking, PaymentSuccess, ApprovalDeadline, PaymentDeadline}

-----------------------------------------------------------------------------
Points == {"idle", "status.write", "checkIn.write", "checkOut.write", "move.commit",
           "portal.count", "portal.row", "portal.times"}

Request == [at : Points, read : BookingStatus \cup {"NONE"},
            to : BookingStatus \cup {"NONE"}, stamp : CheckInStatus \cup {"same"}]

Idle == [at |-> "idle", read |-> "NONE", to |-> "NONE", stamp |-> "same"]

JobPoints == {"idle", "noShow.write", "completed.read", "completed.write"}

TypeOK ==
  /\ status \in BookingStatus
  /\ checkIn \in CheckInStatus
  /\ phase \in Phases
  /\ moves \in Nat
  /\ moveRows \in [{"desk", "client"} -> Nat]
  /\ last \in BookingStatus \cup {"NONE"}
  /\ req \in [Requests -> Request]
  /\ job \in JobPoints

(* CONFIRMED: AUTO_CONFIRM and walk-ins; PENDING: MANUAL_APPROVAL and         *)
(* bookings to be paid for.  Only a walk-in begins with a row of history.    *)
Init ==
  /\ status \in {"CONFIRMED", "PENDING"}
  /\ checkIn = "PENDING"
  /\ phase \in Phases
  /\ moves = 0
  /\ moveRows = [who \in {"desk", "client"} |-> 0]
  /\ last \in {"NONE"} \cup ({"CONFIRMED"} \cap {status})
  /\ req = [w \in Requests |-> Idle]
  /\ job = "idle"

Begin(w, local) == req[w] = Idle /\ req' = [req EXCEPT ![w] = local]
Goto(w, point)  == req' = [req EXCEPT ![w].at = point]
End(w)          == req' = [req EXCEPT ![w] = Idle]

-----------------------------------------------------------------------------
(* A service without noShowGraceMinutes: no-shows from start_time on. *)
StatusRead(w, h) ==
  /\ status \in h.from
  /\ h = MarkNoShow => phase # "ahead"
  /\ Begin(w, [at |-> "status.write", read |-> status, to |-> h.to, stamp |-> h.stamp])
  /\ UNCHANGED <<row, time, last, job>>

(* Broken: writes the column though the handler has no value for it. *)
StatusWriteUnstamped(w) ==
  /\ req[w].at = "status.write"
  /\ status' = req[w].to
  /\ checkIn' = req[w].stamp
  /\ last' = req[w].to
  /\ End(w)
  /\ UNCHANGED <<time, job>>

StatusWrite(w) ==
  /\ req[w].at = "status.write"
  /\ status' = req[w].to
  /\ checkIn' = IF req[w].stamp = "same" THEN checkIn ELSE req[w].stamp
  /\ last' = req[w].to
  /\ End(w)
  /\ UNCHANGED <<time, job>>

(* checkIn and checkOut: findUnique and update in one transaction, which at *)
(* READ COMMITTED lets others in between                                    *)
CheckInRead(w) ==
  /\ status = "CONFIRMED" /\ checkIn = "PENDING"
  /\ Begin(w, [Idle EXCEPT !.at = "checkIn.write", !.read = status])
  /\ UNCHANGED <<row, time, last, job>>

CheckInWrite(w) ==
  /\ req[w].at = "checkIn.write"
  /\ checkIn' = "CHECKED_IN"
  /\ End(w)
  /\ UNCHANGED <<status, time, last, job>>

CheckOutRead(w) ==
  /\ checkIn = "CHECKED_IN"
  /\ Begin(w, [Idle EXCEPT !.at = "checkOut.write", !.read = status])
  /\ UNCHANGED <<row, time, last, job>>

CheckOutWrite(w) ==
  /\ req[w].at = "checkOut.write"
  /\ checkIn' = "CHECKED_OUT"
  /\ End(w)
  /\ UNCHANGED <<status, time, last, job>>

-----------------------------------------------------------------------------
(* Moves.  The slots are SlotReservation's: a taken one ends the request    *)
(* as RequestDies does.                                                     *)

AddMoveRow(who, state) ==
  /\ last' = state
  /\ moveRows' = IF state = "CONFIRMED" THEN [moveRows EXCEPT ![who] = @ + 1] ELSE moveRows

(* Broken: one move too many. *)
RescheduleOneMore(w) ==
  /\ status \in {"CONFIRMED", "PENDING"}
  /\ moves <= MaxMoves
  /\ Begin(w, [Idle EXCEPT !.at = "move.commit", !.read = status])
  /\ UNCHANGED <<row, time, last, job>>

RescheduleRead(w) ==
  /\ status \in {"CONFIRMED", "PENDING"}
  /\ moves < MaxMoves
  /\ Begin(w, [Idle EXCEPT !.at = "move.commit", !.read = status])
  /\ UNCHANGED <<row, time, last, job>>

(* The desk may move a booking to any time, past ones too. *)
RescheduleCommit(w, when) ==
  /\ req[w].at = "move.commit"
  /\ phase' = when
  /\ moves' = moves + 1
  /\ AddMoveRow("desk", req[w].read)
  /\ End(w)
  /\ UNCHANGED <<row, job>>

PortalRead(w) ==
  /\ status \in {"PENDING", "CONFIRMED"}
  /\ Begin(w, [Idle EXCEPT !.at = "portal.count", !.read = status])
  /\ UNCHANGED <<row, time, last, job>>

(* The portal counts rows of the history, not reschedule_count; the row of  *)
(* a PENDING booking's move has toState PENDING and is not counted.         *)
PortalCount(w) ==
  /\ req[w].at = "portal.count"
  /\ IF moveRows["desk"] + moveRows["client"] >= MaxMoves THEN End(w) ELSE Goto(w, "portal.row")
  /\ UNCHANGED <<row, time, last, job>>

(* The row is inserted, and then the times updated: no transaction. *)
PortalRow(w) ==
  /\ req[w].at = "portal.row"
  /\ AddMoveRow("client", req[w].read)
  /\ Goto(w, "portal.times")
  /\ UNCHANGED <<row, phase, moves, job>>

PortalTimes(w) ==
  /\ req[w].at = "portal.times"
  /\ phase' = "ahead"
  /\ End(w)
  /\ UNCHANGED <<row, moves, moveRows, last, job>>

(* A refused move, a failed request, a restart: nothing more is written. *)
RequestDies(w) ==
  /\ req[w] # Idle
  /\ End(w)
  /\ UNCHANGED <<row, time, last, job>>

-----------------------------------------------------------------------------
(* process-completed-bookings: the no-shows, then the rest; each a SELECT   *)
(* over all bookings and then a transaction for each row of it.             *)

JobGoes(point) == job' = point

NoShowRead ==
  /\ job = "idle"
  /\ JobGoes(IF status = "CONFIRMED" /\ checkIn = "PENDING" /\ phase = "overdue"
             THEN "noShow.write" ELSE "completed.read")
  /\ UNCHANGED <<row, time, last, req>>

(* Broken: the UPDATE does not repeat the condition on the status. *)
NoShowWriteUnguarded ==
  /\ job = "noShow.write"
  /\ checkIn' = "NO_SHOW"
  /\ JobGoes("completed.read")
  /\ UNCHANGED <<status, time, last, req>>

NoShowWrite ==
  /\ job = "noShow.write"
  /\ checkIn' = IF status = "CONFIRMED" /\ checkIn = "PENDING" THEN "NO_SHOW" ELSE checkIn
  /\ JobGoes("completed.read")
  /\ UNCHANGED <<status, time, last, req>>

(* Broken: only clients who were checked out count as served. *)
CompletedReadCheckedOut ==
  /\ job = "completed.read"
  /\ JobGoes(IF status = "CONFIRMED" /\ phase \in {"ended", "overdue"} /\ checkIn = "CHECKED_OUT"
             THEN "completed.write" ELSE "idle")
  /\ UNCHANGED <<row, time, last, req>>

CompletedRead ==
  /\ job = "completed.read"
  /\ JobGoes(IF status = "CONFIRMED" /\ phase \in {"ended", "overdue"} /\ checkIn # "NO_SHOW"
             THEN "completed.write" ELSE "idle")
  /\ UNCHANGED <<row, time, last, req>>

(* The UPDATE has its condition; the history row is written regardless. *)
CompletedWrite ==
  /\ job = "completed.write"
  /\ status' = IF status = "CONFIRMED" THEN "COMPLETED" ELSE status
  /\ last' = "COMPLETED"
  /\ JobGoes("idle")
  /\ UNCHANGED <<checkIn, time, req>>

(* The transaction fails, or the process restarts. *)
JobDies ==
  /\ job # "idle"
  /\ JobGoes("idle")
  /\ UNCHANGED <<row, time, last, req>>

TimePasses ==
  /\ phase # "overdue"
  /\ phase' = CASE phase = "ahead" -> "running" [] phase = "running" -> "ended" [] OTHER -> "overdue"
  /\ UNCHANGED <<row, moves, moveRows, last, req, job>>

-----------------------------------------------------------------------------
Handle(w) ==
  \/ \E h \in Handlers : StatusRead(w, h)
  \/ StatusWrite(w)
  \/ CheckInRead(w) \/ CheckInWrite(w) \/ CheckOutRead(w) \/ CheckOutWrite(w)
  \/ RescheduleRead(w)
  \/ \E when \in Phases : RescheduleCommit(w, when)
  \/ PortalRead(w) \/ PortalCount(w) \/ PortalRow(w) \/ PortalTimes(w)
  \/ RequestDies(w)

Job == NoShowRead \/ NoShowWrite \/ CompletedRead \/ CompletedWrite

Next == (\E w \in Requests : Handle(w)) \/ Job \/ JobDies \/ TimePasses

Spec == Init /\ [][Next]_vars

(* Inngest runs the job every hour, and it does not die each time at the   *)
(* the same place.                                                          *)
FairSpec ==
  Spec /\ WF_vars(Job) /\ SF_vars(NoShowWrite) /\ SF_vars(CompletedRead) /\ SF_vars(CompletedWrite)

-----------------------------------------------------------------------------
(* The statuses that follow each other in booking-statuses.md. *)
Follows(from) ==
  ValidTransitions(from) \cup (IF from = "CONFIRMED" THEN {"COMPLETED"} ELSE {})

Stale(w) == req[w].at # "idle" /\ req[w].read # status

(* A status changes as documented, and the history agrees with it, unless   *)
(* the request that writes acts on a status that has changed since it read; *)
(* the settling job never breaks the rules, but its history row may say     *)
(* COMPLETED of a booking that left CONFIRMED under it.                     *)
RulesUnlessStale ==
  [][ LET ActedStale    == \E w \in Requests : Stale(w) /\ req'[w] # req[w]
          JobActedStale == job = "completed.write" /\ job' # job /\ status # "CONFIRMED"
      IN  /\ ActedStale \/ status' \in Follows(status) \cup {status}
          /\ ActedStale \/ JobActedStale \/ last' \in {last, status'}
    ]_vars

(* Each limit on moves is checked on an earlier read, so requests in flight *)
(* together may pass it together; it is exceeded by no more than the others *)
(* in flight.  (The portal's limit holds for moves of CONFIRMED bookings.)  *)
MovesBounded ==
  /\ moves < MaxMoves + Cardinality(Requests)
  /\ moveRows["client"] < MaxMoves + Cardinality(Requests)

(* A client whose appointment is IN_PROGRESS is never marked absent, though *)
(* the no-show job may have picked the booking before the client arrived.   *)
ArrivedIsCheckedIn == status = "IN_PROGRESS" => checkIn \in {"CHECKED_IN", "CHECKED_OUT"}

(* A booking whose time is over does not stay CONFIRMED and unremarked.     *)
PastBookingsSettle ==
  (status = "CONFIRMED" /\ phase = "overdue")
    ~> (status # "CONFIRMED" \/ phase # "overdue" \/ checkIn = "NO_SHOW")

(* ... and not CONFIRMED at all: process-completed-bookings.processor.ts says  *)
(* of the bookings it finds absent that it "sets them to NO_SHOW".           *)
AbsentSettle ==
  (status = "CONFIRMED" /\ phase = "overdue") ~> (status # "CONFIRMED" \/ phase # "overdue")

(* Each move of a client uses up one of the moves client-booking-experience.md *)
(* allows (requestReschedule).                                              *)
ClientMovesCount ==
  [][\A w \in Requests : req[w].at = "portal.row" /\ req'[w].at = "portal.times" =>
       moveRows'["client"] > moveRows["client"]]_vars

(* "Completed, Cancelled, and No Show are terminal": booking-statuses.md.   *)
TerminalIsFinal == [][(status \in Terminal) => (status' = status)]_vars
=============================================================================
