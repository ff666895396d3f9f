-------------------------- MODULE SlotReservation --------------------------
(***************************************************************************)
(* How a slot of one service of one tenant is claimed.                     *)
(*                                                                         *)
(* A client fills in a booking session, holds a slot for five minutes      *)
(* (a HELD row of date_reservations), and turns the hold into a booking by *)
(* /complete, or into an unpaid booking by /pay.  Staff create walk-ins    *)
(* and move bookings; clients move their own; two cron jobs sweep up.      *)
(*                                                                         *)
(* Every handler runs in some request of the API.  A request is a sequence *)
(* of SQL statements and other requests run between any two of them: the   *)
(* database is at READ COMMITTED, and the SELECT ... FOR UPDATE of the     *)
(* handlers locks the rows it returns, so nothing at all when the slot is  *)
(* free.  (When it does return rows the handler throws and rolls back.)    *)
(* A transaction's writes appear together, at its commit.                  *)
(***************************************************************************)
EXTENDS Integers, FiniteSets

CONSTANTS
  Sessions,         \* ids of rows of booking_sessions
  Holds,            \* ids of rows of date_reservations
  Bookings,         \* ids of rows of bookings
  Requests,         \* requests the API serves at a time
  Slots,            \* [start, end] intervals clients and staff ask for
  Staff,            \* staff members offering the service
  NoSession, NoHold, NoBooking, NoSlot, NoStaff,     \* SQL NULLs
  AutoConfirm,      \* service.confirmationMode = 'AUTO_CONFIRM'
  WrittenStatus     \* a bound: the statuses other handlers write

ASSUME SlotsAreIntervals ==
  /\ Slots \subseteq [start : Nat, end : Nat]
  /\ \A x \in Slots : x.start < x.end

ASSUME NullsAreNoRows ==
  /\ NoSession \notin Sessions /\ NoHold \notin Holds
  /\ NoBooking \notin Bookings /\ NoSlot \notin Slots /\ NoStaff \notin Staff

ASSUME AutoConfirmIsBoolean == AutoConfirm \in BOOLEAN

BookingStatus == {"PENDING", "CONFIRMED", "IN_PROGRESS", "COMPLETED", "CANCELLED", "NO_SHOW"}

ASSUME WrittenAreStatuses == WrittenStatus \subseteq BookingStatus

VARIABLES
  sStatus, sStaff,                         \* booking_sessions (data.staffId)
  hStatus, hSession, hSlot, hStaff, hLive, \* date_reservations; hLive: HELD, expires_at > NOW()
  bStatus, bSession, bHold, bSlot, bStaff, \* bookings; bHold: the hold /complete converted
  req,                                     \* the local state of each request
  sweep                                    \* session ids the abandoned-recovery job has read

sessionVars == <<sStatus, sStaff>>
holdVars    == <<hStatus, hSession, hSlot, hStaff, hLive>>
bookingVars == <<bStatus, bSession, bHold, bSlot, bStaff>>
vars        == <<sessionVars, holdVars, bookingVars, req, sweep>>

SessionStatus == {"NONE", "IN_PROGRESS", "COMPLETED", "ABANDONED"}
HoldStatus    == {"NONE", "HELD", "CONFIRMED", "RELEASED", "EXPIRED"}

(* The statuses in which a booking occupies its slot, and the status rules *)
(* of bookings.service.ts (markCompleted also accepts CONFIRMED).          *)
ActiveStatus == {"CONFIRMED", "IN_PROGRESS", "PENDING"}

ValidTransitions(from) ==
  CASE from = "PENDING"     -> {"CONFIRMED", "CANCELLED"}
    [] from = "CONFIRMED"   -> {"IN_PROGRESS", "CANCELLED", "NO_SHOW", "COMPLETED"}
    [] from = "IN_PROGRESS" -> {"COMPLETED", "CANCELLED"}
    [] OTHER                -> {}

(* Where a request is: the statement it executes next. *)
Points ==
  {"idle",
   "reserve.bookings", "reserve.insert",
   "abandon.release", "abandon.write",
   "complete.hold", "complete.commit",
   "pay.hold", "pay.lookup", "pay.create", "pay.charge",
   "walkin.holds", "walkin.insert",
   "move.bookings", "move.holds", "move.commit",
   "portal.check", "portal.commit"}

Request ==
  [at : Points, s : Sessions \cup {NoSession}, h : Holds \cup {NoHold},
   b : Bookings \cup {NoBooking}, slot : Slots \cup {NoSlot}, staff : Staff \cup {NoStaff}]

Idle == [at |-> "idle", s |-> NoSession, h |-> NoHold, b |-> NoBooking,
         slot |-> NoSlot, staff |-> NoStaff]

(* What each statement has been given by those before it. *)
ForSession == {"reserve.bookings", "reserve.insert", "abandon.release", "abandon.write",
               "complete.hold", "complete.commit",
               "pay.hold", "pay.lookup", "pay.create", "pay.charge"}
ForBooking == {"pay.charge", "move.bookings", "move.holds", "move.commit",
               "portal.check", "portal.commit"}
ForSlot    == Points \ {"idle", "abandon.release", "abandon.write", "complete.hold", "pay.hold"}

RequestOK(q) ==
  /\ q.at \in ForSession => q.s \in Sessions
  /\ q.at \in ForBooking => q.b \in Bookings
  /\ q.at \in ForSlot => q.slot \in Slots
  /\ q.at = "complete.commit" => q.h \in Holds

RequestsOK == req \in [Requests -> Request] /\ \A w \in Requests : RequestOK(req[w])

(* Types, and: a row that exists has its times, and a hold its session. *)
SessionsOK ==
  /\ sStatus \in [Sessions -> SessionStatus]
  /\ sStaff \in [Sessions -> Staff \cup {NoStaff}]
  /\ sweep \in SUBSET Sessions

HoldsOK ==
  /\ hStatus \in [Holds -> HoldStatus]
  /\ hSession \in [Holds -> Sessions \cup {NoSession}]
  /\ hSlot \in [Holds -> Slots \cup {NoSlot}]
  /\ hStaff \in [Holds -> Staff \cup {NoStaff}]
  /\ hLive \in [Holds -> BOOLEAN]
  /\ \A h \in Holds : hStatus[h] # "NONE" => hSession[h] \in Sessions /\ hSlot[h] \in Slots
  /\ \A h \in Holds : hLive[h] => hStatus[h] = "HELD"

BookingsOK ==
  /\ bStatus \in [Bookings -> BookingStatus \cup {"NONE"}]
  /\ bSession \in [Bookings -> Sessions \cup {NoSession}]
  /\ bHold \in [Bookings -> Holds \cup {NoHold}]
  /\ bSlot \in [Bookings -> Slots \cup {NoSlot}]
  /\ bStaff \in [Bookings -> Staff \cup {NoStaff}]
  /\ \A b \in Bookings : bStatus[b] # "NONE" => bSlot[b] \in Slots
  /\ \A b \in Bookings : bStatus[b] = "NONE" => bHold[b] = NoHold

RowsOK == SessionsOK /\ HoldsOK /\ BookingsOK /\ RequestsOK

(* The hold /complete has found stays a row of the session that found it. *)
CarriedHoldOK ==
  \A w \in Requests : req[w].at = "complete.commit" =>
    hStatus[req[w].h] # "NONE" /\ hSession[req[w].h] = req[w].s

TypeOK == RowsOK /\ CarriedHoldOK

Init ==
  /\ sStatus = [s \in Sessions |-> "NONE"]
  /\ sStaff = [s \in Sessions |-> NoStaff]
  /\ hStatus = [h \in Holds |-> "NONE"]
  /\ hSession = [h \in Holds |-> NoSession]
  /\ hSlot = [h \in Holds |-> NoSlot]
  /\ hStaff = [h \in Holds |-> NoStaff]
  /\ hLive = [h \in Holds |-> FALSE]
  /\ bStatus = [b \in Bookings |-> "NONE"]
  /\ bSession = [b \in Bookings |-> NoSession]
  /\ bHold = [b \in Bookings |-> NoHold]
  /\ bSlot = [b \in Bookings |-> NoSlot]
  /\ bStaff = [b \in Bookings |-> NoStaff]
  /\ req = [w \in Requests |-> Idle]
  /\ sweep = {}

-----------------------------------------------------------------------------
(* The WHERE clauses.                                                      *)

Overlap(x, y) == x.start < y.end /\ x.end > y.start

(* staffId given: rows of that member only; not given: rows of the service *)
SameStaff(rowStaff, staff) == staff = NoStaff \/ rowStaff = staff

LiveHold(h) == hLive[h]
Active(b)   == bStatus[b] \in ActiveStatus

HoldConflict(slot, staff) ==
  \E h \in Holds : LiveHold(h) /\ SameStaff(hStaff[h], staff) /\ Overlap(hSlot[h], slot)

BookingConflict(slot, staff, except) ==
  \E b \in Bookings \ {except} :
    Active(b) /\ SameStaff(bStaff[b], staff) /\ Overlap(bSlot[b], slot)

(* Moving a request to its next statement, and ending it: a return, or a   *)
(* throw, which rolls back what has not committed.                         *)
Begin(w, local) == req[w] = Idle /\ req' = [req EXCEPT ![w] = local]
Goto(w, point)  == req' = [req EXCEPT ![w].at = point]
End(w)          == req' = [req EXCEPT ![w] = Idle]

(* A new row takes the first unused id: which of the random ids it gets    *)
(* matters to no one.                                                      *)
NewHold    == CHOOSE h \in Holds : hStatus[h] = "NONE"
NewBooking == CHOOSE b \in Bookings : bStatus[b] = "NONE"

InsertBooking(b, status, s, h, slot, staff) ==
  /\ bStatus[b] = "NONE" /\ b = NewBooking
  /\ bStatus' = [bStatus EXCEPT ![b] = status]
  /\ bSession' = [bSession EXCEPT ![b] = s]
  /\ bHold' = [bHold EXCEPT ![b] = h]
  /\ bSlot' = [bSlot EXCEPT ![b] = slot]
  /\ bStaff' = [bStaff EXCEPT ![b] = staff]

(* Broken: releases by session alone, whatever the status of the row. *)
ReleaseAllForUnguarded(ss) ==
  /\ hStatus' = [h \in Holds |-> IF hStatus[h] # "NONE" /\ hSession[h] \in ss
                                 THEN "RELEASED" ELSE hStatus[h]]
  /\ hLive' = [h \in Holds |-> hLive[h] /\ hSession[h] \notin ss]
  /\ UNCHANGED <<hSession, hSlot, hStaff>>

(* updateMany ... WHERE session_id IN ss AND status = 'HELD'               *)
ReleaseAllFor(ss) ==
  /\ hStatus' = [h \in Holds |-> IF hStatus[h] = "HELD" /\ hSession[h] \in ss
                                 THEN "RELEASED" ELSE hStatus[h]]
  /\ hLive' = [h \in Holds |-> hLive[h] /\ hSession[h] \notin ss]
  /\ UNCHANGED <<hSession, hSlot, hStaff>>

-----------------------------------------------------------------------------
(* The widget: booking-sessions.controller.ts.                             *)

CreateSession(s) ==
  /\ sStatus[s] = "NONE"
  /\ sStatus' = [sStatus EXCEPT ![s] = "IN_PROGRESS"]
  /\ UNCHANGED <<sStaff, holdVars, bookingVars, req, sweep>>

(* PATCH: the staff member picked goes into session.data *)
UpdateSession(s, staff) ==
  /\ sStatus[s] = "IN_PROGRESS"
  /\ sStaff' = [sStaff EXCEPT ![s] = staff]
  /\ UNCHANGED <<sStatus, holdVars, bookingVars, req, sweep>>

(* Broken: looks at bookings only. *)
ReserveWithoutHoldCheck(w, s, slot, staff) ==
  /\ sStatus[s] # "NONE"
  /\ Begin(w, [Idle EXCEPT !.at = "reserve.bookings", !.s = s, !.slot = slot, !.staff = staff])
  /\ UNCHANGED <<sessionVars, holdVars, bookingVars, sweep>>

(* POST reserve: the session must exist, in whatever status *)
ReserveCheckHolds(w, s, slot, staff) ==
  /\ sStatus[s] # "NONE"
  /\ ~HoldConflict(slot, staff)
  /\ Begin(w, [Idle EXCEPT !.at = "reserve.bookings", !.s = s, !.slot = slot, !.staff = staff])
  /\ UNCHANGED <<sessionVars, holdVars, bookingVars, sweep>>

(* Broken: looks at holds only. *)
ReserveWithoutBookingCheck(w) ==
  /\ req[w].at = "reserve.bookings"
  /\ Goto(w, "reserve.insert")
  /\ UNCHANGED <<sessionVars, holdVars, bookingVars, sweep>>

ReserveCheckBookings(w) ==
  /\ req[w].at = "reserve.bookings"
  /\ IF BookingConflict(req[w].slot, req[w].staff, NoBooking)
     THEN End(w) ELSE Goto(w, "reserve.insert")
  /\ UNCHANGED <<sessionVars, holdVars, bookingVars, sweep>>

ReserveInsert(w, h) ==
  /\ req[w].at = "reserve.insert"
  /\ hStatus[h] = "NONE" /\ h = NewHold
  /\ hStatus' = [hStatus EXCEPT ![h] = "HELD"]
  /\ hSession' = [hSession EXCEPT ![h] = req[w].s]
  /\ hSlot' = [hSlot EXCEPT ![h] = req[w].slot]
  /\ hStaff' = [hStaff EXCEPT ![h] = req[w].staff]
  /\ hLive' = [hLive EXCEPT ![h] = TRUE]
  /\ End(w)
  /\ UNCHANGED <<sessionVars, bookingVars, sweep>>

Release(s) ==
  /\ ReleaseAllFor({s})
  /\ UNCHANGED <<sessionVars, bookingVars, req, sweep>>

AbandonRead(w, s) ==
  /\ sStatus[s] = "IN_PROGRESS"
  /\ Begin(w, [Idle EXCEPT !.at = "abandon.release", !.s = s])
  /\ UNCHANGED <<sessionVars, holdVars, bookingVars, sweep>>

AbandonRelease(w) ==
  /\ req[w].at = "abandon.release"
  /\ ReleaseAllFor({req[w].s})
  /\ Goto(w, "abandon.write")
  /\ UNCHANGED <<sessionVars, bookingVars, sweep>>

AbandonWrite(w) ==
  /\ req[w].at = "abandon.write"
  /\ sStatus' = [sStatus EXCEPT ![req[w].s] = "ABANDONED"]
  /\ End(w)
  /\ UNCHANGED <<sStaff, holdVars, bookingVars, sweep>>

(* POST complete: read the session, find its live hold, then one transaction *)
CompleteRead(w, s) ==
  /\ sStatus[s] = "IN_PROGRESS"
  /\ Begin(w, [Idle EXCEPT !.at = "complete.hold", !.s = s, !.staff = sStaff[s]])
  /\ UNCHANGED <<sessionVars, holdVars, bookingVars, sweep>>

(* Broken: keeps the id of the hold it found and not its times. *)
CompleteForgetsTimes(w, h) ==
  /\ req[w].at = "complete.hold"
  /\ LiveHold(h) /\ hSession[h] = req[w].s
  /\ req' = [req EXCEPT ![w].at = "complete.commit", ![w].h = h]
  /\ UNCHANGED <<sessionVars, holdVars, bookingVars, sweep>>

CompleteFindHold(w, h) ==
  /\ req[w].at = "complete.hold"
  /\ LiveHold(h) /\ hSession[h] = req[w].s
  /\ req' = [req EXCEPT ![w].at = "complete.commit", ![w].h = h, ![w].slot = hSlot[h]]
  /\ UNCHANGED <<sessionVars, holdVars, bookingVars, sweep>>

(* Broken: the three writes are no transaction and the last two are lost. *)
CompleteTorn(w, b) ==
  /\ req[w].at = "complete.commit"
  /\ InsertBooking(b, IF AutoConfirm THEN "CONFIRMED" ELSE "PENDING",
                   req[w].s, req[w].h, req[w].slot, req[w].staff)
  /\ End(w)
  /\ UNCHANGED <<sessionVars, holdVars, sweep>>

CompleteCommit(w, b) ==
  /\ req[w].at = "complete.commit"
  /\ InsertBooking(b, IF AutoConfirm THEN "CONFIRMED" ELSE "PENDING",
                   req[w].s, req[w].h, req[w].slot, req[w].staff)
  /\ hStatus' = [hStatus EXCEPT ![req[w].h] = "CONFIRMED"]
  /\ hLive' = [hLive EXCEPT ![req[w].h] = FALSE]
  /\ sStatus' = [sStatus EXCEPT ![req[w].s] = "COMPLETED"]
  /\ End(w)
  /\ UNCHANGED <<sStaff, hSession, hSlot, hStaff, sweep>>

(* POST pay: find a booking at exactly the times of the session's hold, or *)
(* create one, and open a payment for it (PaymentLifecycle); the hold and   *)
(* the session stay as they are                                            *)
PayRead(w, s) ==
  /\ sStatus[s] = "IN_PROGRESS"
  /\ Begin(w, [Idle EXCEPT !.at = "pay.hold", !.s = s, !.staff = sStaff[s]])
  /\ UNCHANGED <<sessionVars, holdVars, bookingVars, sweep>>

(* Broken: does not look at expires_at. *)
PayFindLapsedHold(w, h) ==
  /\ req[w].at = "pay.hold"
  /\ hStatus[h] = "HELD" /\ hSession[h] = req[w].s
  /\ req' = [req EXCEPT ![w].at = "pay.lookup", ![w].slot = hSlot[h]]
  /\ UNCHANGED <<sessionVars, holdVars, bookingVars, sweep>>

PayFindHold(w, h) ==
  /\ req[w].at = "pay.hold"
  /\ LiveHold(h) /\ hSession[h] = req[w].s
  /\ req' = [req EXCEPT ![w].at = "pay.lookup", ![w].slot = hSlot[h]]
  /\ UNCHANGED <<sessionVars, holdVars, bookingVars, sweep>>

Payable(slot) == {b \in Bookings : bSlot[b] = slot /\ bStatus[b] \in {"PENDING", "CONFIRMED"}}

PayLookup(w) ==
  /\ req[w].at = "pay.lookup"
  /\ \/ /\ Payable(req[w].slot) = {}
        /\ Goto(w, "pay.create")
     \/ \E b \in Payable(req[w].slot) :
          req' = [req EXCEPT ![w].at = "pay.charge", ![w].b = b]
  /\ UNCHANGED <<sessionVars, holdVars, bookingVars, sweep>>

PayCreate(w, b) ==
  /\ req[w].at = "pay.create"
  /\ InsertBooking(b, "PENDING", req[w].s, NoHold, req[w].slot, req[w].staff)
  /\ req' = [req EXCEPT ![w].at = "pay.charge", ![w].b = b]
  /\ UNCHANGED <<sessionVars, holdVars, sweep>>

PayCharge(w) ==
  /\ req[w].at = "pay.charge"
  /\ End(w)
  /\ UNCHANGED <<sessionVars, holdVars, bookingVars, sweep>>

-----------------------------------------------------------------------------
(* Staff: walk-ins and moves look at every member's rows (no staff_id in   *)
(* their WHERE clauses) and check bookings before holds.                   *)

WalkInCheckBookings(w, slot) ==
  /\ ~BookingConflict(slot, NoStaff, NoBooking)
  /\ Begin(w, [Idle EXCEPT !.at = "walkin.holds", !.slot = slot])
  /\ UNCHANGED <<sessionVars, holdVars, bookingVars, sweep>>

WalkInCheckHolds(w) ==
  /\ req[w].at = "walkin.holds"
  /\ IF HoldConflict(req[w].slot, NoStaff) THEN End(w) ELSE Goto(w, "walkin.insert")
  /\ UNCHANGED <<sessionVars, holdVars, bookingVars, sweep>>

WalkInInsert(w, b) ==
  /\ req[w].at = "walkin.insert"
  /\ InsertBooking(b, "CONFIRMED", NoSession, NoHold, req[w].slot, NoStaff)
  /\ End(w)
  /\ UNCHANGED <<sessionVars, holdVars, sweep>>

MoveRead(w, b, slot) ==
  /\ bStatus[b] \in {"CONFIRMED", "PENDING"}
  /\ Begin(w, [Idle EXCEPT !.at = "move.bookings", !.b = b, !.slot = slot])
  /\ UNCHANGED <<sessionVars, holdVars, bookingVars, sweep>>

MoveCheckBookings(w) ==
  /\ req[w].at = "move.bookings"
  /\ IF BookingConflict(req[w].slot, NoStaff, req[w].b) THEN End(w) ELSE Goto(w, "move.holds")
  /\ UNCHANGED <<sessionVars, holdVars, bookingVars, sweep>>

MoveCheckHolds(w) ==
  /\ req[w].at = "move.holds"
  /\ IF HoldConflict(req[w].slot, NoStaff) THEN End(w) ELSE Goto(w, "move.commit")
  /\ UNCHANGED <<sessionVars, holdVars, bookingVars, sweep>>

(* booking.update by id: the status read at the start is not checked again *)
MoveCommit(w) ==
  /\ req[w].at = "move.commit"
  /\ bSlot' = [bSlot EXCEPT ![req[w].b] = req[w].slot]
  /\ End(w)
  /\ UNCHANGED <<sessionVars, holdVars, bStatus, bSession, bHold, bStaff, sweep>>

(* The client's own move looks at bookings only, outside any transaction *)
PortalRead(w, b, slot) ==
  /\ bStatus[b] \in {"PENDING", "CONFIRMED"}
  /\ Begin(w, [Idle EXCEPT !.at = "portal.check", !.b = b, !.slot = slot])
  /\ UNCHANGED <<sessionVars, holdVars, bookingVars, sweep>>

PortalCheck(w) ==
  /\ req[w].at = "portal.check"
  /\ IF BookingConflict(req[w].slot, NoStaff, req[w].b) THEN End(w) ELSE Goto(w, "portal.commit")
  /\ UNCHANGED <<sessionVars, holdVars, bookingVars, sweep>>

PortalCommit(w) ==
  /\ req[w].at = "portal.commit"
  /\ bSlot' = [bSlot EXCEPT ![req[w].b] = req[w].slot]
  /\ End(w)
  /\ UNCHANGED <<sessionVars, holdVars, bStatus, bSession, bHold, bStaff, sweep>>

(* The request fails, its client hangs up or the process restarts: what it *)
(* has not committed is lost.                                              *)
RequestDies(w) ==
  /\ req[w] # Idle
  /\ End(w)
  /\ UNCHANGED <<sessionVars, holdVars, bookingVars, sweep>>

-----------------------------------------------------------------------------
(* Time, and the cron jobs.                                                *)

Lapse(h) ==
  /\ LiveHold(h)
  /\ hLive' = [hLive EXCEPT ![h] = FALSE]
  /\ UNCHANGED <<sessionVars, hStatus, hSession, hSlot, hStaff, bookingVars, req, sweep>>

Lapsed(h) == hStatus[h] = "HELD" /\ ~hLive[h]

(* Broken: expires only the holds of sessions that are still in progress. *)
ExpireInProgressOnly ==
  LET Due(h) == Lapsed(h) /\ sStatus[hSession[h]] = "IN_PROGRESS" IN
  /\ \E h \in Holds : Due(h)
  /\ hStatus' = [h \in Holds |-> IF Due(h) THEN "EXPIRED" ELSE hStatus[h]]
  /\ UNCHANGED <<sessionVars, hSession, hSlot, hStaff, hLive, bookingVars, req, sweep>>

ExpireReservations ==
  /\ \E h \in Holds : Lapsed(h)
  /\ hStatus' = [h \in Holds |-> IF Lapsed(h) THEN "EXPIRED" ELSE hStatus[h]]
  /\ UNCHANGED <<sessionVars, hSession, hSlot, hStaff, hLive, bookingVars, req, sweep>>

(* abandoned-recovery lists sessions untouched for an hour: any of those in *)
(* progress.  Its transaction rechecks the session's status, not the list.  *)
SweepRead ==
  /\ sweep = {}
  /\ \E ss \in SUBSET {s \in Sessions : sStatus[s] = "IN_PROGRESS"} : ss # {} /\ sweep' = ss
  /\ UNCHANGED <<sessionVars, holdVars, bookingVars, req>>

SweepWrite ==
  /\ sweep # {}
  /\ sStatus' = [s \in Sessions |-> IF s \in sweep /\ sStatus[s] = "IN_PROGRESS"
                                    THEN "ABANDONED" ELSE sStatus[s]]
  /\ ReleaseAllFor(sweep)
  /\ sweep' = {}
  /\ UNCHANGED <<sStaff, bookingVars, req>>

(* The status of a booking, written by its other handlers (BookingLifecycle). *)
(* They write by id what they decided on an earlier read, so any status may   *)
(* follow any other; one handler at a time, they follow the status rules.     *)
WriteStatus(b, status) ==
  /\ bStatus[b] # "NONE"
  /\ bStatus' = [bStatus EXCEPT ![b] = status]
  /\ UNCHANGED <<sessionVars, holdVars, bSession, bHold, bSlot, bStaff, req, sweep>>

ChangeStatus(b, status) ==
  /\ status \in ValidTransitions(bStatus[b])
  /\ WriteStatus(b, status)

-----------------------------------------------------------------------------
Widget ==
  \/ \E s \in Sessions :
       \/ CreateSession(s)
       \/ \E staff \in Staff \cup {NoStaff} : UpdateSession(s, staff)
       \/ Release(s)
  \/ \E w \in Requests :
       \/ \E s \in Sessions :
            \/ \E slot \in Slots, staff \in Staff \cup {NoStaff} : ReserveCheckHolds(w, s, slot, staff)
            \/ AbandonRead(w, s)
            \/ CompleteRead(w, s)
            \/ PayRead(w, s)
       \/ ReserveCheckBookings(w)
       \/ \E h \in Holds : ReserveInsert(w, h) \/ CompleteFindHold(w, h) \/ PayFindHold(w, h)
       \/ AbandonRelease(w)
       \/ AbandonWrite(w)
       \/ PayLookup(w)
       \/ \E b \in Bookings : CompleteCommit(w, b) \/ PayCreate(w, b)
       \/ PayCharge(w)
       \/ RequestDies(w)

Desk ==
  \E w \in Requests :
    \/ \E slot \in Slots :
         \/ WalkInCheckBookings(w, slot)
         \/ \E b \in Bookings : MoveRead(w, b, slot)
    \/ WalkInCheckHolds(w)
    \/ \E b \in Bookings : WalkInInsert(w, b)
    \/ MoveCheckBookings(w)
    \/ MoveCheckHolds(w)
    \/ MoveCommit(w)

Portal ==
  \E w \in Requests :
    \/ \E b \in Bookings, slot \in Slots : PortalRead(w, b, slot)
    \/ PortalCheck(w)
    \/ PortalCommit(w)

Jobs ==
  \/ \E h \in Holds : Lapse(h)
  \/ ExpireReservations
  \/ SweepRead
  \/ SweepWrite

(* Everything at once. *)
Next ==
  \/ Widget \/ Desk \/ Portal \/ Jobs
  \/ \E b \in Bookings, status \in WrittenStatus : WriteStatus(b, status)

Spec == Init /\ [][Next]_vars

(* Without the client portal's moves, and with statuses that follow the rules *)
(* of bookings.service.ts.                                                     *)
DeskNext ==
  \/ Widget \/ Desk \/ Jobs
  \/ \E b \in Bookings, status \in WrittenStatus : ChangeStatus(b, status)

DeskSpec == Init /\ [][DeskNext]_vars

(* The clients alone, with the jobs. *)
WidgetSpec == Init /\ [][Widget \/ Jobs]_vars

(* The clients in widget and portal. *)
PortalSpec == Init /\ [][Widget \/ Portal \/ Jobs]_vars

(* The clock runs and Inngest runs the five-minute job again and again.  *)
FairSpec == Spec /\ WF_vars(ExpireReservations) /\ \A h \in Holds : WF_vars(Lapse(h))

-----------------------------------------------------------------------------
(* Properties of every behaviour of Spec, whatever runs at the same time.  *)

(* A hold that /complete converted stays converted: the jobs, /release and  *)
(* /abandon, which may be between their statements when it converts, change *)
(* rows that are HELD when they write and no others.                        *)
ConvertedIsFinal ==
  [][\A h \in Holds : hStatus[h] = "CONFIRMED" => hStatus'[h] = "CONFIRMED"]_vars

(* /complete is all or nothing: a hold is converted iff a booking was made   *)
(* from it, for the hold's session; its session is then over; and a session  *)
(* is COMPLETED only if one of its holds was converted.                      *)
CompletionIsAtomic ==
  /\ \A h \in Holds : hStatus[h] = "CONFIRMED" =>
       /\ sStatus[hSession[h]] \in {"COMPLETED", "ABANDONED"}
       /\ \E b \in Bookings : bHold[b] = h /\ bSession[b] = hSession[h]
  /\ \A b \in Bookings : bHold[b] # NoHold => hStatus[bHold[b]] = "CONFIRMED"
  /\ \A s \in Sessions : sStatus[s] = "COMPLETED" =>
       \E h \in Holds : hStatus[h] = "CONFIRMED" /\ hSession[h] = s

(* A double-submitted /complete can book one hold more than once, but no     *)
(* more often than there are requests in flight; with one request at a time, *)
(* once.                                                                     *)
BookingsPerHoldBounded ==
  \A h \in Holds :
    Cardinality({b \in Bookings : bHold[b] = h}) <= Cardinality(Requests)

(* The FOR UPDATE of a SELECT that finds nothing locks nothing, so requests  *)
(* in flight together may hold one slot together; holds that outnumber the   *)
(* requests never overlap all at once.  (For a service without staff: a      *)
(* request for a member does not see the holds made for no one.)             *)
OverlappingHoldsBounded ==
  \A hs \in SUBSET {h \in Holds : LiveHold(h)} :
    (\A g, h \in hs : Overlap(hSlot[g], hSlot[h])) => Cardinality(hs) <= Cardinality(Requests)

-----------------------------------------------------------------------------
(* Properties of DeskSpec for one request at a time and a service without    *)
(* staff: what the handlers' checks are for.                                 *)

(* No slot is claimed twice: live holds do not overlap, and a booking        *)
(* overlaps a hold or another booking only of its own session (/pay books    *)
(* the slot its session holds, and /complete books it again).                *)
Exclusive ==
  /\ \A g, h \in Holds :
       LiveHold(g) /\ LiveHold(h) /\ g # h => ~Overlap(hSlot[g], hSlot[h])
  /\ \A h \in Holds, b \in Bookings :
       LiveHold(h) /\ Active(b) /\ Overlap(hSlot[h], bSlot[b]) => bSession[b] = hSession[h]
  /\ \A a, b \in Bookings :
       Active(a) /\ Active(b) /\ a # b /\ Overlap(bSlot[a], bSlot[b]) =>
         bSession[a] = bSession[b] /\ bSession[a] # NoSession

(* /pay opens a payment only on a booking made by the session that pays.     *)
PaysForItsOwn ==
  \A w \in Requests : req[w].at = "pay.charge" => bSession[req[w].b] = req[w].s

(* Every hold ends: it is converted, released or expired.                    *)
HoldsEnd == \A h \in Holds : hStatus[h] = "HELD" ~> hStatus[h] # "HELD"

-----------------------------------------------------------------------------
(* What ADR 0008 says the locking achieves: no two sessions hold one slot.   *)
NoDoubleHold ==
  \A g, h \in Holds :
    LiveHold(g) /\ LiveHold(h) /\ hSession[g] # hSession[h] => ~Overlap(hSlot[g], hSlot[h])

(* A client's own move lands on a slot that is free: "Validate the new slot   *)
(* is available" (requestReschedule).                                        *)
MoveLandsFree ==
  [][\A w \in Requests : req[w].at = "portal.commit" /\ bSlot' # bSlot =>
       \A h \in Holds : LiveHold(h) /\ Overlap(hSlot[h], req[w].slot) => hSession[h] = bSession[req[w].b]]_vars

(* Without AUTO_CONFIRM a client's move waits for the business                 *)
(* (requestReschedule's comment).                                            *)
MoveIsRequested ==
  [][~AutoConfirm => \A b \in Bookings : bStatus[b] # "NONE" => bSlot'[b] = bSlot[b]]_vars
=============================================================================
