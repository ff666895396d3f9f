----------------------- MODULE SlotReservation_proofs -----------------------
(* Proofs about SlotReservation, for any number of sessions, holds,        *)
(* bookings, requests in flight, slots and staff.                          *)
EXTENDS SlotReservation, FiniteSetTheorems, TLAPS

-----------------------------------------------------------------------------
(* Steps of requests: each lemma says what a request must carry for the    *)
(* requests to stay well formed.                                           *)

(* A request that ends leaves the others as they are. *)
LEMMA EndOK ==
  ASSUME RequestsOK, NEW w \in Requests, End(w) PROVE RequestsOK'
BY DEF RequestsOK, RequestOK, End, Idle, Request, Points, ForSession, ForBooking, ForSlot

(* A request may be given any well-formed local state. *)
LEMMA StepOK ==
  ASSUME RequestsOK, NEW w \in Requests, NEW q \in Request, RequestOK(q),
         req' = [req EXCEPT ![w] = q]
  PROVE  RequestsOK'
BY DEF RequestsOK

(* A request that carries all a statement needs may go there. *)
LEMMA GotoOK ==
  ASSUME RequestsOK, NEW w \in Requests, NEW p \in Points, Goto(w, p),
         RequestOK([req[w] EXCEPT !.at = p])
  PROVE  RequestsOK'
<1>1. [req[w] EXCEPT !.at = p] \in Request
  BY DEF RequestsOK, Request
<1>2. req' = [req EXCEPT ![w] = [req[w] EXCEPT !.at = p]]
  BY DEF Goto
<1> QED
  BY <1>1, <1>2, StepOK

(* Releasing the HELD rows of some sessions keeps the holds well formed. *)
LEMMA ReleaseOK ==
  ASSUME HoldsOK, NEW ss, ReleaseAllFor(ss) PROVE HoldsOK'
BY DEF HoldsOK, ReleaseAllFor, HoldStatus

(* A new booking row keeps the bookings well formed. *)
LEMMA InsertOK ==
  ASSUME BookingsOK, NEW b \in Bookings, NEW status \in BookingStatus,
         NEW s \in Sessions \cup {NoSession}, NEW h \in Holds \cup {NoHold},
         NEW slot \in Slots, NEW staff \in Staff \cup {NoStaff},
         InsertBooking(b, status, s, h, slot, staff)
  PROVE  BookingsOK'
BY DEF BookingsOK, InsertBooking, BookingStatus

-----------------------------------------------------------------------------
(* Every row and every request is well formed in every reachable state.    *)
LEMMA InitOK == Init => TypeOK
BY DEF Init, TypeOK, RowsOK, CarriedHoldOK, SessionsOK, HoldsOK, BookingsOK, RequestsOK, RequestOK, SessionStatus,
       HoldStatus, Idle, Request, Points, ForSession, ForBooking, ForSlot

LEMMA WidgetOK == ASSUME TypeOK, Widget PROVE RowsOK'
<1> USE DEF TypeOK, RowsOK
<1>1. ASSUME NEW s \in Sessions, CreateSession(s) PROVE RowsOK'
  BY <1>1 DEF CreateSession, SessionsOK, HoldsOK, BookingsOK, RequestsOK, holdVars, bookingVars,
              SessionStatus
<1>2. ASSUME NEW s \in Sessions, NEW staff \in Staff \cup {NoStaff}, UpdateSession(s, staff)
      PROVE RowsOK'
  BY <1>2 DEF UpdateSession, SessionsOK, HoldsOK, BookingsOK, RequestsOK, holdVars, bookingVars
<1>3. ASSUME NEW s \in Sessions, Release(s) PROVE RowsOK'
  BY <1>3, ReleaseOK DEF Release, SessionsOK, BookingsOK, RequestsOK, sessionVars, bookingVars
<1>4. ASSUME NEW w \in Requests, NEW s \in Sessions, NEW slot \in Slots,
             NEW staff \in Staff \cup {NoStaff}, ReserveCheckHolds(w, s, slot, staff)
      PROVE RowsOK'
  <2> DEFINE q == [Idle EXCEPT !.at = "reserve.bookings", !.s = s, !.slot = slot, !.staff = staff]
  <2>1. q \in Request /\ RequestOK(q)
    BY DEF Idle, Request, Points, RequestOK, ForSession, ForBooking, ForSlot
  <2>2. RequestsOK'
    BY <1>4, <2>1, StepOK DEF ReserveCheckHolds, Begin
  <2> QED
    BY <1>4, <2>2 DEF ReserveCheckHolds, SessionsOK, HoldsOK, BookingsOK, sessionVars, holdVars,
                      bookingVars
<1>5. ASSUME NEW w \in Requests, ReserveCheckBookings(w) PROVE RowsOK'
  <2>1. RequestOK([req[w] EXCEPT !.at = "reserve.insert"])
    BY <1>5 DEF ReserveCheckBookings, RequestsOK, RequestOK, Request, Points, ForSession,
                ForBooking, ForSlot
  <2>2. "reserve.insert" \in Points
    BY DEF Points
  <2>3. RequestsOK'
    BY <1>5, <2>1, <2>2, EndOK, GotoOK DEF ReserveCheckBookings
  <2> QED
    BY <1>5, <2>3 DEF ReserveCheckBookings, SessionsOK, HoldsOK, BookingsOK, sessionVars,
                      holdVars, bookingVars
<1>6. ASSUME NEW w \in Requests, NEW h \in Holds, ReserveInsert(w, h) PROVE RowsOK'
  <2>1. /\ req[w].s \in Sessions /\ req[w].slot \in Slots
        /\ req[w].staff \in Staff \cup {NoStaff}
    BY <1>6 DEF ReserveInsert, RequestsOK, RequestOK, Request, Points, ForSession, ForSlot
  <2>2. HoldsOK'
    BY <1>6, <2>1 DEF ReserveInsert, HoldsOK, HoldStatus
  <2>3. RequestsOK'
    BY <1>6, EndOK DEF ReserveInsert
  <2> QED
    BY <1>6, <2>2, <2>3 DEF ReserveInsert, SessionsOK, BookingsOK, sessionVars, bookingVars
<1>7. ASSUME NEW w \in Requests, NEW s \in Sessions, AbandonRead(w, s) PROVE RowsOK'
  <2> DEFINE q == [Idle EXCEPT !.at = "abandon.release", !.s = s]
  <2>1. q \in Request /\ RequestOK(q)
    BY DEF Idle, Request, Points, RequestOK, ForSession, ForBooking, ForSlot
  <2>2. RequestsOK'
    BY <1>7, <2>1, StepOK DEF AbandonRead, Begin
  <2> QED
    BY <1>7, <2>2 DEF AbandonRead, SessionsOK, HoldsOK, BookingsOK, sessionVars, holdVars,
                      bookingVars
<1>8. ASSUME NEW w \in Requests, AbandonRelease(w) PROVE RowsOK'
  <2>1. RequestOK([req[w] EXCEPT !.at = "abandon.write"])
    BY <1>8 DEF AbandonRelease, RequestsOK, RequestOK, Request, Points, ForSession,
                ForBooking, ForSlot
  <2>2. "abandon.write" \in Points
    BY DEF Points
  <2>3. RequestsOK'
    BY <1>8, <2>1, <2>2, GotoOK DEF AbandonRelease
  <2> QED
    BY <1>8, <2>3, ReleaseOK DEF AbandonRelease, SessionsOK, BookingsOK, sessionVars, bookingVars
<1>9. ASSUME NEW w \in Requests, AbandonWrite(w) PROVE RowsOK'
  <2>1. RequestsOK'
    BY <1>9, EndOK DEF AbandonWrite
  <2> QED
    BY <1>9, <2>1 DEF AbandonWrite, SessionsOK, HoldsOK, BookingsOK, SessionStatus, holdVars,
                      bookingVars
<1>10. ASSUME NEW w \in Requests, NEW s \in Sessions, CompleteRead(w, s) PROVE RowsOK'
  <2> DEFINE q == [Idle EXCEPT !.at = "complete.hold", !.s = s, !.staff = sStaff[s]]
  <2>1. q \in Request /\ RequestOK(q)
    BY DEF SessionsOK, Idle, Request, Points, RequestOK, ForSession, ForBooking, ForSlot
  <2>2. RequestsOK'
    BY <1>10, <2>1, StepOK DEF CompleteRead, Begin
  <2> QED
    BY <1>10, <2>2 DEF CompleteRead, SessionsOK, HoldsOK, BookingsOK, sessionVars, holdVars,
                       bookingVars
<1>11. ASSUME NEW w \in Requests, NEW h \in Holds, CompleteFindHold(w, h) PROVE RowsOK'
  <2> DEFINE q == [req[w] EXCEPT !.at = "complete.commit", !.h = h, !.slot = hSlot[h]]
  <2>0. hSlot[h] \in Slots
    BY <1>11 DEF CompleteFindHold, LiveHold, HoldsOK
  <2>1. q \in Request /\ RequestOK(q)
    BY <1>11, <2>0 DEF CompleteFindHold, RequestsOK, Request, Points, RequestOK,
                       ForSession, ForBooking, ForSlot
  <2>2. req' = [req EXCEPT ![w] = q]
    BY <1>11 DEF CompleteFindHold
  <2>3. RequestsOK'
    BY <2>1, <2>2, StepOK
  <2> QED
    BY <1>11, <2>3 DEF CompleteFindHold, SessionsOK, HoldsOK, BookingsOK, sessionVars, holdVars,
                       bookingVars
<1>12. ASSUME NEW w \in Requests, NEW b \in Bookings, CompleteCommit(w, b) PROVE RowsOK'
  <2>1. /\ req[w].s \in Sessions /\ req[w].h \in Holds /\ req[w].slot \in Slots
        /\ req[w].staff \in Staff \cup {NoStaff}
    BY <1>12 DEF CompleteCommit, RequestsOK, RequestOK, Request, ForSession, ForSlot, Points
  <2>2. (IF AutoConfirm THEN "CONFIRMED" ELSE "PENDING") \in BookingStatus
    BY DEF BookingStatus
  <2>3. BookingsOK'
    BY <1>12, <2>1, <2>2, InsertOK DEF CompleteCommit
  <2>4. HoldsOK'
    BY <1>12, <2>1 DEF CompleteCommit, CarriedHoldOK, HoldsOK, HoldStatus
  <2>5. RequestsOK'
    BY <1>12, EndOK DEF CompleteCommit
  <2> QED
    BY <1>12, <2>1, <2>3, <2>4, <2>5 DEF CompleteCommit, SessionsOK, SessionStatus
<1>13. ASSUME NEW w \in Requests, NEW s \in Sessions, PayRead(w, s) PROVE RowsOK'
  <2> DEFINE q == [Idle EXCEPT !.at = "pay.hold", !.s = s, !.staff = sStaff[s]]
  <2>1. q \in Request /\ RequestOK(q)
    BY DEF SessionsOK, Idle, Request, Points, RequestOK, ForSession, ForBooking, ForSlot
  <2>2. RequestsOK'
    BY <1>13, <2>1, StepOK DEF PayRead, Begin
  <2> QED
    BY <1>13, <2>2 DEF PayRead, SessionsOK, HoldsOK, BookingsOK, sessionVars, holdVars,
                       bookingVars
<1>14. ASSUME NEW w \in Requests, NEW h \in Holds, PayFindHold(w, h) PROVE RowsOK'
  <2> DEFINE q == [req[w] EXCEPT !.at = "pay.lookup", !.slot = hSlot[h]]
  <2>0. hSlot[h] \in Slots
    BY <1>14 DEF PayFindHold, LiveHold, HoldsOK
  <2>1. q \in Request /\ RequestOK(q)
    BY <1>14, <2>0 DEF PayFindHold, RequestsOK, Request, Points, RequestOK,
                       ForSession, ForBooking, ForSlot
  <2>2. req' = [req EXCEPT ![w] = q]
    BY <1>14 DEF PayFindHold
  <2>3. RequestsOK'
    BY <2>1, <2>2, StepOK
  <2> QED
    BY <1>14, <2>3 DEF PayFindHold, SessionsOK, HoldsOK, BookingsOK, sessionVars, holdVars,
                       bookingVars
<1>15. ASSUME NEW w \in Requests, PayLookup(w) PROVE RowsOK'
  <2>1. /\ RequestOK([req[w] EXCEPT !.at = "pay.create"])
        /\ "pay.create" \in Points
    BY <1>15 DEF PayLookup, RequestsOK, RequestOK, Request, Points, ForSession, ForBooking,
                 ForSlot
  <2>2. ASSUME NEW b \in Bookings
        PROVE  LET q == [req[w] EXCEPT !.at = "pay.charge", !.b = b]
               IN  q \in Request /\ RequestOK(q) /\ [req EXCEPT ![w] = q]
                     = [req EXCEPT ![w].at = "pay.charge", ![w].b = b]
    BY <1>15 DEF PayLookup, RequestsOK, RequestOK, Request, Points, ForSession, ForBooking,
                 ForSlot
  <2>3. RequestsOK'
    <3>1. CASE Goto(w, "pay.create")
      BY <3>1, <2>1, GotoOK
    <3>2. ASSUME NEW b \in Bookings, req' = [req EXCEPT ![w].at = "pay.charge", ![w].b = b]
          PROVE  RequestsOK'
      <4> DEFINE q == [req[w] EXCEPT !.at = "pay.charge", !.b = b]
      <4>1. q \in Request /\ RequestOK(q) /\ req' = [req EXCEPT ![w] = q]
        BY <2>2, <3>2
      <4> HIDE DEF q
      <4> QED
        BY <4>1, StepOK
    <3> QED
      BY <1>15, <3>1, <3>2 DEF PayLookup, Payable
  <2> QED
    BY <1>15, <2>3 DEF PayLookup, SessionsOK, HoldsOK, BookingsOK, sessionVars, holdVars,
                       bookingVars
<1>16. ASSUME NEW w \in Requests, NEW b \in Bookings, PayCreate(w, b) PROVE RowsOK'
  <2>1. /\ req[w].s \in Sessions /\ req[w].slot \in Slots
        /\ req[w].staff \in Staff \cup {NoStaff}
    BY <1>16 DEF PayCreate, RequestsOK, RequestOK, Request, ForSession, ForSlot, Points
  <2>2. BookingsOK'
    BY <1>16, <2>1, InsertOK DEF PayCreate, BookingStatus
  <2> DEFINE q == [req[w] EXCEPT !.at = "pay.charge", !.b = b]
  <2>3. q \in Request /\ RequestOK(q) /\ req' = [req EXCEPT ![w] = q]
    BY <1>16 DEF PayCreate, RequestsOK, RequestOK, Request, Points, ForSession, ForBooking,
                 ForSlot
  <2>4. RequestsOK'
    BY <2>3, StepOK
  <2> QED
    BY <1>16, <2>2, <2>4 DEF PayCreate, SessionsOK, HoldsOK, sessionVars, holdVars
<1>17. ASSUME NEW w \in Requests, PayCharge(w) \/ RequestDies(w) PROVE RowsOK'
  <2>1. RequestsOK'
    BY <1>17, EndOK DEF PayCharge, RequestDies
  <2> QED
    BY <1>17, <2>1 DEF PayCharge, RequestDies, SessionsOK, HoldsOK, BookingsOK, sessionVars,
                       holdVars, bookingVars
<1> QED
  BY <1>1, <1>2, <1>3, <1>4, <1>5, <1>6, <1>7, <1>8, <1>9, <1>10, <1>11, <1>12, <1>13, <1>14,
     <1>15, <1>16, <1>17 DEF Widget

LEMMA DeskOK == ASSUME TypeOK, Desk PROVE RowsOK'
<1> USE DEF TypeOK, RowsOK
<1>1. ASSUME NEW w \in Requests, NEW slot \in Slots, WalkInCheckBookings(w, slot)
      PROVE RowsOK'
  <2> DEFINE q == [Idle EXCEPT !.at = "walkin.holds", !.slot = slot]
  <2>1. q \in Request /\ RequestOK(q)
    BY DEF Idle, Request, Points, RequestOK, ForSession, ForBooking, ForSlot
  <2>2. RequestsOK'
    BY <1>1, <2>1, StepOK DEF WalkInCheckBookings, Begin
  <2> QED
    BY <1>1, <2>2 DEF WalkInCheckBookings, SessionsOK, HoldsOK, BookingsOK, sessionVars,
                      holdVars, bookingVars
<1>2. ASSUME NEW w \in Requests, NEW b \in Bookings, NEW slot \in Slots, MoveRead(w, b, slot)
      PROVE RowsOK'
  <2> DEFINE q == [Idle EXCEPT !.at = "move.bookings", !.b = b, !.slot = slot]
  <2>1. q \in Request /\ RequestOK(q)
    BY DEF Idle, Request, Points, RequestOK, ForSession, ForBooking, ForSlot
  <2>2. RequestsOK'
    BY <1>2, <2>1, StepOK DEF MoveRead, Begin
  <2> QED
    BY <1>2, <2>2 DEF MoveRead, SessionsOK, HoldsOK, BookingsOK, sessionVars, holdVars,
                      bookingVars
<1>3. ASSUME NEW w \in Requests, WalkInCheckHolds(w) PROVE RowsOK'
  <2>1. RequestOK([req[w] EXCEPT !.at = "walkin.insert"]) /\ "walkin.insert" \in Points
    BY <1>3 DEF WalkInCheckHolds, RequestsOK, RequestOK, Request, Points, ForSession,
                ForBooking, ForSlot
  <2>2. RequestsOK'
    BY <1>3, <2>1, EndOK, GotoOK DEF WalkInCheckHolds
  <2> QED
    BY <1>3, <2>2 DEF WalkInCheckHolds, SessionsOK, HoldsOK, BookingsOK, sessionVars,
                      holdVars, bookingVars
<1>4. ASSUME NEW w \in Requests, NEW b \in Bookings, WalkInInsert(w, b) PROVE RowsOK'
  <2>1. req[w].slot \in Slots
    BY <1>4 DEF WalkInInsert, RequestsOK, RequestOK, Request, ForSlot, Points
  <2>2. BookingsOK'
    BY <1>4, <2>1, InsertOK DEF WalkInInsert, BookingStatus
  <2>3. RequestsOK'
    BY <1>4, EndOK DEF WalkInInsert
  <2> QED
    BY <1>4, <2>2, <2>3 DEF WalkInInsert, SessionsOK, HoldsOK, sessionVars, holdVars
<1>5. ASSUME NEW w \in Requests, MoveCheckBookings(w) PROVE RowsOK'
  <2>1. RequestOK([req[w] EXCEPT !.at = "move.holds"]) /\ "move.holds" \in Points
    BY <1>5 DEF MoveCheckBookings, RequestsOK, RequestOK, Request, Points, ForSession,
                ForBooking, ForSlot
  <2>2. RequestsOK'
    BY <1>5, <2>1, EndOK, GotoOK DEF MoveCheckBookings
  <2> QED
    BY <1>5, <2>2 DEF MoveCheckBookings, SessionsOK, HoldsOK, BookingsOK, sessionVars,
                      holdVars, bookingVars
<1>6. ASSUME NEW w \in Requests, MoveCheckHolds(w) PROVE RowsOK'
  <2>1. RequestOK([req[w] EXCEPT !.at = "move.commit"]) /\ "move.commit" \in Points
    BY <1>6 DEF MoveCheckHolds, RequestsOK, RequestOK, Request, Points, ForSession,
                ForBooking, ForSlot
  <2>2. RequestsOK'
    BY <1>6, <2>1, EndOK, GotoOK DEF MoveCheckHolds
  <2> QED
    BY <1>6, <2>2 DEF MoveCheckHolds, SessionsOK, HoldsOK, BookingsOK, sessionVars,
                      holdVars, bookingVars
<1>7. ASSUME NEW w \in Requests, MoveCommit(w) PROVE RowsOK'
  <2>1. req[w].slot \in Slots
    BY <1>7 DEF MoveCommit, RequestsOK, RequestOK, Request, ForSlot, Points
  <2>2. RequestsOK'
    BY <1>7, EndOK DEF MoveCommit
  <2> QED
    BY <1>7, <2>1, <2>2 DEF MoveCommit, SessionsOK, HoldsOK, BookingsOK, sessionVars, holdVars
<1> QED
  BY <1>1, <1>2, <1>3, <1>4, <1>5, <1>6, <1>7 DEF Desk

LEMMA PortalOK == ASSUME TypeOK, Portal PROVE RowsOK'
<1> USE DEF TypeOK, RowsOK
<1>1. ASSUME NEW w \in Requests, NEW b \in Bookings, NEW slot \in Slots, PortalRead(w, b, slot)
      PROVE RowsOK'
  <2> DEFINE q == [Idle EXCEPT !.at = "portal.check", !.b = b, !.slot = slot]
  <2>1. q \in Request /\ RequestOK(q)
    BY DEF Idle, Request, Points, RequestOK, ForSession, ForBooking, ForSlot
  <2>2. RequestsOK'
    BY <1>1, <2>1, StepOK DEF PortalRead, Begin
  <2> QED
    BY <1>1, <2>2 DEF PortalRead, SessionsOK, HoldsOK, BookingsOK, sessionVars, holdVars,
                      bookingVars
<1>2. ASSUME NEW w \in Requests, PortalCheck(w) PROVE RowsOK'
  <2>1. RequestOK([req[w] EXCEPT !.at = "portal.commit"]) /\ "portal.commit" \in Points
    BY <1>2 DEF PortalCheck, RequestsOK, RequestOK, Request, Points, ForSession,
                ForBooking, ForSlot
  <2>2. RequestsOK'
    BY <1>2, <2>1, EndOK, GotoOK DEF PortalCheck
  <2> QED
    BY <1>2, <2>2 DEF PortalCheck, SessionsOK, HoldsOK, BookingsOK, sessionVars,
                      holdVars, bookingVars
<1>3. ASSUME NEW w \in Requests, PortalCommit(w) PROVE RowsOK'
  <2>1. req[w].slot \in Slots
    BY <1>3 DEF PortalCommit, RequestsOK, RequestOK, Request, ForSlot, Points
  <2>2. RequestsOK'
    BY <1>3, EndOK DEF PortalCommit
  <2> QED
    BY <1>3, <2>1, <2>2 DEF PortalCommit, SessionsOK, HoldsOK, BookingsOK, sessionVars, holdVars
<1> QED
  BY <1>1, <1>2, <1>3 DEF Portal

LEMMA JobsOK == ASSUME TypeOK, Jobs PROVE RowsOK'
<1> USE DEF TypeOK, RowsOK
<1>1. ASSUME NEW h \in Holds, Lapse(h) PROVE RowsOK'
  BY <1>1 DEF Lapse, SessionsOK, HoldsOK, BookingsOK, RequestsOK, sessionVars, bookingVars
<1>2. ASSUME ExpireReservations PROVE RowsOK'
  BY <1>2 DEF ExpireReservations, Lapsed, SessionsOK, HoldsOK, HoldStatus, BookingsOK,
              RequestsOK, sessionVars, bookingVars
<1>3. ASSUME SweepRead PROVE RowsOK'
  BY <1>3 DEF SweepRead, SessionsOK, HoldsOK, BookingsOK, RequestsOK, sessionVars, holdVars,
              bookingVars
<1>4. ASSUME SweepWrite PROVE RowsOK'
  <2>1. HoldsOK'
    BY <1>4, ReleaseOK DEF SweepWrite
  <2> QED
    BY <1>4, <2>1 DEF SweepWrite, SessionsOK, SessionStatus, BookingsOK, RequestsOK, bookingVars
<1> QED
  BY <1>1, <1>2, <1>3, <1>4 DEF Jobs

LEMMA WriteStatusOK ==
  ASSUME TypeOK, NEW b \in Bookings, NEW status \in BookingStatus, WriteStatus(b, status)
  PROVE  RowsOK'
BY DEF WriteStatus, TypeOK, RowsOK, SessionsOK, HoldsOK, BookingsOK, BookingStatus, RequestsOK,
       sessionVars, holdVars

-----------------------------------------------------------------------------
(* Only the commit of /complete converts a hold, completes a session or    *)
(* records a hold in a booking; every other step is quiet about all three. *)
Over == {"COMPLETED", "ABANDONED"}

Quiet ==
  /\ \A h \in Holds : hStatus'[h] = "CONFIRMED" <=> hStatus[h] = "CONFIRMED"
  /\ \A h \in Holds : hStatus[h] # "NONE" => hStatus'[h] # "NONE" /\ hSession'[h] = hSession[h]
  /\ \A s \in Sessions : sStatus[s] \in Over => sStatus'[s] \in Over
  /\ \A s \in Sessions : sStatus'[s] = "COMPLETED" => sStatus[s] = "COMPLETED"
  /\ \A b \in Bookings : bHold'[b] = bHold[b]
  /\ \A b \in Bookings : bHold[b] # NoHold => bSession'[b] = bSession[b]

(* Releasing HELD rows converts none, un-converts none. *)
LEMMA ReleaseQuiet ==
  ASSUME HoldsOK, NEW ss, ReleaseAllFor(ss)
  PROVE  /\ \A h \in Holds : hStatus'[h] = "CONFIRMED" <=> hStatus[h] = "CONFIRMED"
         /\ \A h \in Holds : hStatus[h] # "NONE" => hStatus'[h] # "NONE" /\ hSession'[h] = hSession[h]
BY DEF HoldsOK, ReleaseAllFor

(* A row inserted from no hold leaves the record of the holds as it is. *)
LEMMA InsertQuiet ==
  ASSUME BookingsOK, NEW b \in Bookings, NEW status, NEW s, NEW slot, NEW staff,
         InsertBooking(b, status, s, NoHold, slot, staff)
  PROVE  /\ \A a \in Bookings : bHold'[a] = bHold[a]
         /\ \A a \in Bookings : bHold[a] # NoHold => bSession'[a] = bSession[a]
BY DEF BookingsOK, InsertBooking

LEMMA WidgetQuiet ==
  ASSUME TypeOK, Widget
  PROVE  Quiet \/ \E w \in Requests, b \in Bookings : CompleteCommit(w, b)
<1> USE DEF TypeOK, RowsOK
<1>1. ASSUME NEW s \in Sessions, CreateSession(s) PROVE Quiet
  BY <1>1 DEF CreateSession, Quiet, Over, SessionsOK, holdVars, bookingVars
<1>2. ASSUME NEW s \in Sessions, NEW staff, UpdateSession(s, staff) PROVE Quiet
  BY <1>2 DEF UpdateSession, Quiet, holdVars, bookingVars
<1>3. ASSUME NEW s \in Sessions, Release(s) PROVE Quiet
  BY <1>3, ReleaseQuiet DEF Release, Quiet, sessionVars, bookingVars
<1>4. ASSUME NEW w \in Requests, AbandonRelease(w) PROVE Quiet
  BY <1>4, ReleaseQuiet DEF AbandonRelease, Quiet, sessionVars, bookingVars
<1>5. ASSUME NEW w \in Requests, AbandonWrite(w) PROVE Quiet
  BY <1>5 DEF AbandonWrite, Quiet, Over, SessionsOK, holdVars, bookingVars
<1>6. ASSUME NEW w \in Requests, NEW h \in Holds, ReserveInsert(w, h) PROVE Quiet
  BY <1>6 DEF ReserveInsert, Quiet, HoldsOK, sessionVars, bookingVars
<1>7. ASSUME NEW w \in Requests, NEW b \in Bookings, PayCreate(w, b) PROVE Quiet
  BY <1>7, InsertQuiet DEF PayCreate, Quiet, sessionVars, holdVars
<1>8. ASSUME UNCHANGED <<sessionVars, holdVars, bookingVars>> PROVE Quiet
  BY <1>8 DEF Quiet, sessionVars, holdVars, bookingVars
<1> QED
  BY <1>1, <1>2, <1>3, <1>4, <1>5, <1>6, <1>7, <1>8
     DEF Widget, ReserveCheckHolds, AbandonRead, CompleteRead, PayRead, ReserveCheckBookings,
         CompleteFindHold, PayFindHold, PayLookup, PayCharge, RequestDies

LEMMA OthersQuiet ==
  ASSUME TypeOK,
         \/ Desk \/ Portal \/ Jobs \/ UNCHANGED vars
         \/ \E b \in Bookings, status \in WrittenStatus : WriteStatus(b, status)
  PROVE  Quiet
<1> USE DEF TypeOK, RowsOK
<1>1. ASSUME UNCHANGED <<sessionVars, holdVars, bHold, bSession>> PROVE Quiet
  BY <1>1 DEF Quiet, sessionVars, holdVars
<1>2. ASSUME Desk PROVE Quiet
  <2>1. ASSUME NEW w \in Requests, NEW b \in Bookings, WalkInInsert(w, b) PROVE Quiet
    BY <2>1, InsertQuiet DEF WalkInInsert, Quiet, sessionVars, holdVars
  <2> QED
    BY <1>1, <1>2, <2>1 DEF Desk, WalkInCheckBookings, MoveRead, WalkInCheckHolds,
                            MoveCheckBookings, MoveCheckHolds, MoveCommit, bookingVars
<1>3. ASSUME Portal PROVE Quiet
  BY <1>1, <1>3 DEF Portal, PortalRead, PortalCheck, PortalCommit, bookingVars
<1>4. ASSUME Jobs PROVE Quiet
  <2>1. ASSUME NEW h \in Holds, Lapse(h) PROVE Quiet
    BY <2>1 DEF Lapse, Quiet, sessionVars, bookingVars
  <2>2. ASSUME ExpireReservations PROVE Quiet
    BY <2>2 DEF ExpireReservations, Lapsed, HoldsOK, Quiet, sessionVars, bookingVars
  <2>3. ASSUME SweepRead PROVE Quiet
    BY <1>1, <2>3 DEF SweepRead, bookingVars
  <2>4. ASSUME SweepWrite PROVE Quiet
    BY <2>4, ReleaseQuiet DEF SweepWrite, SessionsOK, Quiet, Over, bookingVars
  <2> QED
    BY <1>4, <2>1, <2>2, <2>3, <2>4 DEF Jobs
<1>5. ASSUME NEW b \in Bookings, NEW status, WriteStatus(b, status) PROVE Quiet
  BY <1>1, <1>5 DEF WriteStatus
<1>6. ASSUME UNCHANGED vars PROVE Quiet
  BY <1>1, <1>6 DEF vars, bookingVars
<1> QED
  BY <1>2, <1>3, <1>4, <1>5, <1>6

(* A step is quiet or is the commit of one /complete. *)
LEMMA QuietOrCommit ==
  ASSUME TypeOK, [Next]_vars
  PROVE  Quiet \/ \E w \in Requests, b \in Bookings : CompleteCommit(w, b)
BY WidgetQuiet, OthersQuiet DEF Next

-----------------------------------------------------------------------------
(* A request at the commit of /complete was there before the step with the *)
(* same session and hold, or has just found a live hold of its session.    *)
LEMMA ReachesCommit ==
  ASSUME TypeOK, [Next]_vars, NEW w \in Requests, req'[w].at = "complete.commit"
  PROVE  \/ req'[w] = req[w]
         \/ \E h \in Holds : CompleteFindHold(w, h)
<1> USE DEF TypeOK, RowsOK, RequestsOK, Request
<1>1. ASSUME NEW v \in Requests, End(v) PROVE req'[w] = req[w]
  BY <1>1 DEF End, Idle
<1>2. ASSUME NEW v \in Requests, NEW p, p # "complete.commit", Goto(v, p)
      PROVE  req'[w] = req[w]
  BY <1>2 DEF Goto
<1>3. ASSUME NEW v \in Requests, NEW q, q.at # "complete.commit", Begin(v, q)
      PROVE  req'[w] = req[w]
  BY <1>3 DEF Begin
<1>4. CASE req' = req
  BY <1>4
<1>5. CASE Widget
  <2>1. ASSUME NEW v \in Requests, NEW h \in Holds, PayFindHold(v, h) PROVE req'[w] = req[w]
    BY <2>1 DEF PayFindHold
  <2>2. ASSUME NEW v \in Requests, PayLookup(v) PROVE req'[w] = req[w]
    BY <2>2, <1>2 DEF PayLookup
  <2>3. ASSUME NEW v \in Requests, NEW b \in Bookings, PayCreate(v, b) PROVE req'[w] = req[w]
    BY <2>3 DEF PayCreate
  <2>4. ASSUME NEW v \in Requests, NEW h \in Holds, CompleteFindHold(v, h)
        PROVE  req'[w] = req[w] \/ CompleteFindHold(w, h)
    BY <2>4 DEF CompleteFindHold
  <2>5. ASSUME NEW v \in Requests, NEW s \in Sessions,
               \/ \E slot \in Slots, staff \in Staff \cup {NoStaff} :
                    ReserveCheckHolds(v, s, slot, staff)
               \/ AbandonRead(v, s) \/ CompleteRead(v, s) \/ PayRead(v, s)
        PROVE  req'[w] = req[w]
    BY <2>5, <1>3 DEF ReserveCheckHolds, AbandonRead, CompleteRead, PayRead, Idle
  <2>6. ASSUME NEW v \in Requests, ReserveCheckBookings(v) \/ AbandonRelease(v)
        PROVE  req'[w] = req[w]
    BY <2>6, <1>1, <1>2 DEF ReserveCheckBookings, AbandonRelease
  <2> QED
    BY <1>5, <1>1, <1>4, <2>1, <2>2, <2>3, <2>4, <2>5, <2>6
       DEF Widget, CreateSession, UpdateSession, Release, ReserveInsert, AbandonWrite,
           CompleteCommit, PayCharge, RequestDies
<1>6. CASE Desk
  <2>1. ASSUME NEW v \in Requests, NEW slot \in Slots,
               WalkInCheckBookings(v, slot) \/ \E b \in Bookings : MoveRead(v, b, slot)
        PROVE  req'[w] = req[w]
    BY <2>1, <1>3 DEF WalkInCheckBookings, MoveRead, Idle
  <2>2. ASSUME NEW v \in Requests,
               WalkInCheckHolds(v) \/ MoveCheckBookings(v) \/ MoveCheckHolds(v)
        PROVE  req'[w] = req[w]
    BY <2>2, <1>1, <1>2 DEF WalkInCheckHolds, MoveCheckBookings, MoveCheckHolds
  <2> QED
    BY <1>6, <1>1, <2>1, <2>2 DEF Desk, WalkInInsert, MoveCommit
<1>7. CASE Portal
  <2>1. ASSUME NEW v \in Requests, NEW b \in Bookings, NEW slot \in Slots, PortalRead(v, b, slot)
        PROVE  req'[w] = req[w]
    BY <2>1, <1>3 DEF PortalRead, Idle
  <2>2. ASSUME NEW v \in Requests, PortalCheck(v) PROVE req'[w] = req[w]
    BY <2>2, <1>1, <1>2 DEF PortalCheck
  <2> QED
    BY <1>7, <1>1, <2>1, <2>2 DEF Portal, PortalCommit
<1>8. CASE Jobs
  BY <1>8, <1>4 DEF Jobs, Lapse, ExpireReservations, SweepRead, SweepWrite
<1>9. ASSUME NEW b \in Bookings, NEW status, WriteStatus(b, status) PROVE req'[w] = req[w]
  BY <1>9 DEF WriteStatus
<1> QED
  BY <1>4, <1>5, <1>6, <1>7, <1>8, <1>9 DEF Next, vars

(* The hold a /complete carries is never taken away from under it. *)
LEMMA CarriedOK == ASSUME TypeOK, [Next]_vars PROVE CarriedHoldOK'
<1> SUFFICES ASSUME NEW w \in Requests, req'[w].at = "complete.commit"
             PROVE  hStatus'[req'[w].h] # "NONE" /\ hSession'[req'[w].h] = req'[w].s
  BY DEF CarriedHoldOK
<1>1. /\ \A h \in Holds : hStatus[h] # "NONE" => hStatus'[h] # "NONE" /\ hSession'[h] = hSession[h]
  BY QuietOrCommit DEF Quiet, CompleteCommit, TypeOK, RowsOK, HoldsOK
<1>2. CASE req'[w] = req[w]
  BY <1>1, <1>2 DEF TypeOK, RowsOK, RequestsOK, RequestOK, CarriedHoldOK
<1>3. ASSUME NEW h \in Holds, CompleteFindHold(w, h)
      PROVE  hStatus'[req'[w].h] # "NONE" /\ hSession'[req'[w].h] = req'[w].s
  BY <1>3 DEF CompleteFindHold, LiveHold, TypeOK, RowsOK, HoldsOK, RequestsOK, Request, holdVars
<1> QED
  BY <1>2, <1>3, ReachesCommit

(* Rows that exist are filled in, requests carry what their next statement *)
(* needs, and the hold that /complete carries is its session's.            *)
LEMMA TypeStep == ASSUME TypeOK, [Next]_vars PROVE TypeOK'
<1>1. ASSUME UNCHANGED vars PROVE RowsOK'
  BY <1>1 DEF vars, sessionVars, holdVars, bookingVars, TypeOK, RowsOK, SessionsOK, HoldsOK,
              BookingsOK, RequestsOK
<1>2. RowsOK'
  BY <1>1, WidgetOK, DeskOK, PortalOK, JobsOK, WriteStatusOK, WrittenAreStatuses DEF Next
<1> QED
  BY <1>2, CarriedOK DEF TypeOK

THEOREM TypeInvariant == Spec => []TypeOK
BY InitOK, TypeStep, PTL DEF Spec

(* A converted hold stays converted, whatever runs at the same time. *)
THEOREM ConvertedStays == Spec => ConvertedIsFinal
<1>1. ASSUME TypeOK, [Next]_vars, NEW h \in Holds, hStatus[h] = "CONFIRMED"
      PROVE  hStatus'[h] = "CONFIRMED"
  BY <1>1, QuietOrCommit DEF Quiet, CompleteCommit, TypeOK, RowsOK, HoldsOK
<1>2. TypeOK /\ [Next]_vars =>
        [\A h \in Holds : hStatus[h] = "CONFIRMED" => hStatus'[h] = "CONFIRMED"]_vars
  BY <1>1
<1> QED
  BY <1>2, TypeInvariant, PTL DEF Spec, ConvertedIsFinal

-----------------------------------------------------------------------------
LEMMA AtomicInit == Init => CompletionIsAtomic
BY DEF Init, CompletionIsAtomic

(* A quiet step keeps the three tables in agreement. *)
LEMMA AtomicQuiet == ASSUME TypeOK, CompletionIsAtomic, Quiet PROVE CompletionIsAtomic'
<1> USE DEF CompletionIsAtomic, Quiet, Over, TypeOK, RowsOK
<1>1. ASSUME NEW h \in Holds, hStatus'[h] = "CONFIRMED"
      PROVE  /\ sStatus'[hSession'[h]] \in {"COMPLETED", "ABANDONED"}
             /\ \E b \in Bookings : bHold'[b] = h /\ bSession'[b] = hSession'[h]
  <2>1. hStatus[h] = "CONFIRMED" /\ hSession'[h] = hSession[h] /\ hSession[h] \in Sessions
    BY <1>1 DEF HoldsOK
  <2>2. PICK b \in Bookings : bHold[b] = h /\ bSession[b] = hSession[h]
    BY <2>1
  <2>3. bHold'[b] = h /\ bSession'[b] = hSession'[h]
    BY <2>1, <2>2, NullsAreNoRows
  <2> QED
    BY <2>1, <2>3
<1>2. ASSUME NEW b \in Bookings, bHold'[b] # NoHold PROVE hStatus'[bHold'[b]] = "CONFIRMED"
  BY <1>2 DEF BookingsOK
<1>3. ASSUME NEW s \in Sessions, sStatus'[s] = "COMPLETED"
      PROVE  \E h \in Holds : hStatus'[h] = "CONFIRMED" /\ hSession'[h] = s
  BY <1>3
<1> QED
  BY <1>1, <1>2, <1>3

(* The commit of /complete writes all three. *)
LEMMA AtomicCommit ==
  ASSUME TypeOK, CompletionIsAtomic, NEW w \in Requests, NEW b \in Bookings, CompleteCommit(w, b)
  PROVE  CompletionIsAtomic'
<1> DEFINE s == req[w].s
           h == req[w].h
<1>1. h \in Holds /\ s \in Sessions /\ hSession[h] = s
  BY DEF TypeOK, RowsOK, RequestsOK, RequestOK, CarriedHoldOK, CompleteCommit, ForSession
<1>2. /\ bStatus[b] = "NONE" /\ bHold[b] = NoHold
      /\ bHold' = [bHold EXCEPT ![b] = h] /\ bSession' = [bSession EXCEPT ![b] = s]
      /\ hStatus' = [hStatus EXCEPT ![h] = "CONFIRMED"] /\ hSession' = hSession
      /\ sStatus' = [sStatus EXCEPT ![s] = "COMPLETED"]
  BY DEF CompleteCommit, InsertBooking, TypeOK, RowsOK, BookingsOK
<1>3. /\ hStatus \in [Holds -> HoldStatus] /\ sStatus \in [Sessions -> SessionStatus]
      /\ bHold \in [Bookings -> Holds \cup {NoHold}]
      /\ bSession \in [Bookings -> Sessions \cup {NoSession}]
      /\ \A g \in Holds : hStatus[g] # "NONE" => hSession[g] \in Sessions
  BY DEF TypeOK, RowsOK, SessionsOK, HoldsOK, BookingsOK
<1> HIDE DEF s, h
<1>4. ASSUME NEW g \in Holds, hStatus'[g] = "CONFIRMED"
      PROVE  /\ sStatus'[hSession'[g]] \in {"COMPLETED", "ABANDONED"}
             /\ \E a \in Bookings : bHold'[a] = g /\ bSession'[a] = hSession'[g]
  <2>1. CASE g = h
    BY <1>1, <1>2, <1>3, <2>1
  <2>2. CASE g # h
    <3>1. PICK a \in Bookings : bHold[a] = g /\ bSession[a] = hSession[g]
      BY <1>2, <1>3, <1>4, <2>2 DEF CompletionIsAtomic
    <3>2. a # b
      BY <1>2, <3>1, NullsAreNoRows
    <3> QED
      BY <1>2, <1>3, <1>4, <2>2, <3>1, <3>2 DEF CompletionIsAtomic, SessionStatus, HoldStatus
  <2> QED
    BY <2>1, <2>2
<1>5. ASSUME NEW a \in Bookings, bHold'[a] # NoHold PROVE hStatus'[bHold'[a]] = "CONFIRMED"
  BY <1>1, <1>2, <1>3, <1>5 DEF CompletionIsAtomic
<1>6. ASSUME NEW r \in Sessions, sStatus'[r] = "COMPLETED"
      PROVE  \E g \in Holds : hStatus'[g] = "CONFIRMED" /\ hSession'[g] = r
  BY <1>1, <1>2, <1>3, <1>6 DEF CompletionIsAtomic
<1> QED
  BY <1>4, <1>5, <1>6 DEF CompletionIsAtomic

(* /complete is all or nothing, whatever runs at the same time. *)
THEOREM Atomicity == Spec => []CompletionIsAtomic
<1>1. TypeOK /\ CompletionIsAtomic /\ [Next]_vars => CompletionIsAtomic'
  BY QuietOrCommit, AtomicQuiet, AtomicCommit
<1> QED
  BY <1>1, AtomicInit, TypeInvariant, PTL DEF Spec

-----------------------------------------------------------------------------
(* The double-booking argument: with one request at a time and a service   *)
(* without staff, the checks of the handlers suffice, for any number of    *)
(* sessions, holds, bookings and slots, while holds lapse and the jobs run *)
(* between the statements of the request.                                  *)

(* What the SELECTs have told a request. *)
NoHoldOver(slot) == \A h \in Holds : LiveHold(h) => ~Overlap(hSlot[h], slot)

NoBookingOver(slot, except) ==
  \A b \in Bookings \ {except} : Active(b) => ~Overlap(bSlot[b], slot)

OwnClaims(s, slot) ==
  /\ \A h \in Holds : LiveHold(h) /\ Overlap(hSlot[h], slot) => hSession[h] = s
  /\ \A b \in Bookings : Active(b) /\ Overlap(bSlot[b], slot) => bSession[b] = s

(* What a request knows when it reaches each statement; it holds until the *)
(* request executes it, because nobody else makes a claim meanwhile.       *)
Knows(q) ==
  /\ q.at \in {"reserve.bookings", "reserve.insert", "walkin.insert", "move.commit"} =>
       NoHoldOver(q.slot)
  /\ q.at \in {"reserve.insert", "walkin.holds", "walkin.insert"} =>
       NoBookingOver(q.slot, NoBooking)
  /\ q.at \in {"move.holds", "move.commit"} => NoBookingOver(q.slot, q.b)
  /\ q.at \in {"complete.commit", "pay.lookup", "pay.create"} => OwnClaims(q.s, q.slot)
  /\ q.at = "pay.charge" => bSession[q.b] = q.s

(* A step that makes no claim: live holds and active bookings only shrink. *)
NoClaim ==
  /\ \A h \in Holds : hLive'[h] => hLive[h]
  /\ \A b \in Bookings : bStatus'[b] \in ActiveStatus => bStatus[b] \in ActiveStatus
  /\ UNCHANGED <<hSession, hSlot, bSession, bSlot>>

-----------------------------------------------------------------------------
(* Overlapping is symmetric, and a slot overlaps itself. *)
LEMMA OverlapSymmetric == \A x, y : Overlap(x, y) <=> Overlap(y, x)
BY DEF Overlap

LEMMA OverlapReflexive == \A x \in Slots : Overlap(x, x)
BY SlotsAreIntervals DEF Overlap

(* Without staff the WHERE clauses look at every row. *)
LEMMA ConflictsSeen ==
  ASSUME TypeOK, NEW slot
  PROVE  /\ ~HoldConflict(slot, NoStaff) <=> NoHoldOver(slot)
         /\ \A b : ~BookingConflict(slot, NoStaff, b) <=> NoBookingOver(slot, b)
BY DEF HoldConflict, BookingConflict, NoHoldOver, NoBookingOver, SameStaff

LEMMA ExclusiveStays == ASSUME TypeOK, Exclusive, NoClaim PROVE Exclusive'
BY DEF Exclusive, NoClaim, LiveHold, Active

LEMMA KnowsStays == ASSUME NEW q, Knows(q), NoClaim PROVE Knows(q)'
BY DEF Knows, NoClaim, NoHoldOver, NoBookingOver, OwnClaims, LiveHold, Active

(* The claims of a session that holds a slot are the only ones there. *)
LEMMA HolderOwns ==
  ASSUME TypeOK, Exclusive, NEW h \in Holds, LiveHold(h)
  PROVE  OwnClaims(hSession[h], hSlot[h]) /\ hSlot[h] \in Slots
<1>1. hSlot[h] \in Slots
  BY DEF TypeOK, RowsOK, HoldsOK, LiveHold
<1>2. ASSUME NEW g \in Holds, LiveHold(g), Overlap(hSlot[g], hSlot[h])
      PROVE  hSession[g] = hSession[h]
  BY <1>2 DEF Exclusive
<1>3. ASSUME NEW b \in Bookings, Active(b), Overlap(bSlot[b], hSlot[h])
      PROVE  bSession[b] = hSession[h]
  BY <1>3, OverlapSymmetric DEF Exclusive
<1> QED
  BY <1>1, <1>2, <1>3 DEF OwnClaims

(* A booking made where only its session has claims. *)
LEMMA InsertExclusive ==
  ASSUME TypeOK, Exclusive, NEW b \in Bookings, NEW status \in ActiveStatus, NEW s, NEW h,
         NEW slot, NEW staff, InsertBooking(b, status, s, h, slot, staff),
         \A g \in Holds : hLive'[g] => hLive[g], UNCHANGED <<hSession, hSlot>>,
         \/ OwnClaims(s, slot) /\ s # NoSession
         \/ NoHoldOver(slot) /\ NoBookingOver(slot, NoBooking)
  PROVE  Exclusive'
<1>1. /\ bStatus' = [bStatus EXCEPT ![b] = status] /\ bSlot' = [bSlot EXCEPT ![b] = slot]
      /\ bSession' = [bSession EXCEPT ![b] = s]
      /\ b \in DOMAIN bStatus /\ b \in DOMAIN bSlot /\ b \in DOMAIN bSession
  BY DEF InsertBooking, TypeOK, RowsOK, BookingsOK
<1>2. \A a \in Bookings \ {b} : bStatus'[a] = bStatus[a] /\ bSlot'[a] = bSlot[a]
                                /\ bSession'[a] = bSession[a]
  BY <1>1
<1>3. bStatus'[b] = status /\ bSlot'[b] = slot /\ bSession'[b] = s
  BY <1>1
<1>4. ASSUME NEW g \in Holds, hLive'[g], Overlap(hSlot'[g], slot) PROVE s = hSession'[g]
  BY <1>4 DEF OwnClaims, NoHoldOver, LiveHold
<1>5. ASSUME NEW a \in Bookings \ {b}, bStatus'[a] \in ActiveStatus, Overlap(bSlot'[a], slot)
      PROVE  bSession'[a] = s /\ s # NoSession
  BY <1>2, <1>5, NullsAreNoRows DEF OwnClaims, NoBookingOver, Active
<1>6. \A g, f \in Holds : hLive'[g] /\ hLive'[f] /\ g # f => ~Overlap(hSlot'[g], hSlot'[f])
  BY DEF Exclusive, LiveHold
<1>7. \A g \in Holds, a \in Bookings : hLive'[g] /\ bStatus'[a] \in ActiveStatus
        /\ Overlap(hSlot'[g], bSlot'[a]) => bSession'[a] = hSession'[g]
  BY <1>2, <1>3, <1>4 DEF Exclusive, LiveHold, Active
<1>8. \A a, c \in Bookings : bStatus'[a] \in ActiveStatus /\ bStatus'[c] \in ActiveStatus /\ a # c
        /\ Overlap(bSlot'[a], bSlot'[c]) => bSession'[a] = bSession'[c] /\ bSession'[a] # NoSession
  BY <1>2, <1>3, <1>5, OverlapSymmetric DEF Exclusive, Active
<1> QED
  BY <1>6, <1>7, <1>8 DEF Exclusive, LiveHold, Active

(* A booking moved to where nobody else has a claim. *)
LEMMA MoveExclusive ==
  ASSUME TypeOK, Exclusive, NEW b \in Bookings, NEW slot,
         NoHoldOver(slot), NoBookingOver(slot, b), bSlot' = [bSlot EXCEPT ![b] = slot],
         UNCHANGED <<holdVars, bStatus, bSession>>
  PROVE  Exclusive'
<1>1. bSlot'[b] = slot /\ \A a \in Bookings \ {b} : bSlot'[a] = bSlot[a]
  BY DEF TypeOK, RowsOK, BookingsOK
<1>2. \A g \in Holds, a \in Bookings : hLive'[g] /\ bStatus'[a] \in ActiveStatus
        /\ Overlap(hSlot'[g], bSlot'[a]) => bSession'[a] = hSession'[g]
  BY <1>1 DEF Exclusive, NoHoldOver, LiveHold, Active, holdVars
<1>3. \A a, c \in Bookings : bStatus'[a] \in ActiveStatus /\ bStatus'[c] \in ActiveStatus /\ a # c
        /\ Overlap(bSlot'[a], bSlot'[c]) => bSession'[a] = bSession'[c] /\ bSession'[a] # NoSession
  BY <1>1, OverlapSymmetric DEF Exclusive, NoBookingOver, Active
<1> QED
  BY <1>2, <1>3 DEF Exclusive, LiveHold, Active, holdVars

-----------------------------------------------------------------------------
(* The invariant: what is claimed is exclusive, and the request knows what *)
(* its checks have shown.                                                  *)
Informed == \A w \in Requests : Knows(req[w])

LEMMA ExclusionInit == Init => Exclusive /\ Informed
BY DEF Init, Exclusive, LiveHold, Active, ActiveStatus, Informed, Knows, Idle

(* The steps of the clock, the jobs and the status handlers claim nothing. *)
LEMMA ReleaseNoClaim ==
  ASSUME TypeOK, NEW ss, ReleaseAllFor(ss), UNCHANGED bookingVars PROVE NoClaim
BY DEF TypeOK, RowsOK, HoldsOK, ReleaseAllFor, NoClaim, bookingVars

LEMMA JobsNoClaim == ASSUME TypeOK, Jobs PROVE NoClaim /\ UNCHANGED req
<1>1. ASSUME NEW h \in Holds, Lapse(h) PROVE NoClaim
  BY <1>1 DEF Lapse, NoClaim, bookingVars, TypeOK, RowsOK, HoldsOK
<1>2. ASSUME ExpireReservations \/ SweepRead PROVE NoClaim
  BY <1>2 DEF ExpireReservations, SweepRead, NoClaim, holdVars, bookingVars
<1>3. ASSUME SweepWrite PROVE NoClaim
  BY <1>3, ReleaseNoClaim DEF SweepWrite
<1> QED
  BY <1>1, <1>2, <1>3 DEF Jobs, Lapse, ExpireReservations, SweepRead, SweepWrite

LEMMA ChangeNoClaim ==
  ASSUME TypeOK, NEW b \in Bookings, NEW status, ChangeStatus(b, status)
  PROVE  NoClaim /\ UNCHANGED req
BY DEF ChangeStatus, WriteStatus, ValidTransitions, ActiveStatus, NoClaim, holdVars, TypeOK,
       RowsOK, BookingsOK

-----------------------------------------------------------------------------
(* One request, no staff. *)
LEMMA WidgetExclusive ==
  ASSUME NEW w, Requests = {w}, Staff = {}, TypeOK, Exclusive, Informed, Widget
  PROVE  Exclusive' /\ Informed'
<1> DEFINE q == req[w]
<1>1. /\ Knows(q) /\ q \in Request /\ RequestOK(q)
      /\ req \in [Requests -> Request] /\ w \in Requests /\ q.staff = NoStaff
  BY DEF Informed, TypeOK, RowsOK, RequestsOK, Request
<1>2. ASSUME NEW r, r = req'[w], Knows(r)' PROVE Informed'
  BY <1>2 DEF Informed, Knows
<1>3. ASSUME End(w) PROVE Informed'
  BY <1>1, <1>3 DEF End, Idle, Informed, Knows
<1>4. ASSUME NoClaim, UNCHANGED req PROVE Exclusive' /\ Informed'
  <2>1. PICK r : r = req[w]
    OBVIOUS
  <2>2. Knows(r)'
    BY <1>1, <1>4, <2>1, KnowsStays
  <2> QED
    BY <1>2, <1>4, <2>1, <2>2, ExclusiveStays
<1>5. ASSUME UNCHANGED <<holdVars, bookingVars>> PROVE NoClaim
  BY <1>5 DEF NoClaim, holdVars, bookingVars
<1>6. ASSUME UNCHANGED <<holdVars, bookingVars>>, Knows(req'[w]) PROVE Exclusive' /\ Informed'
  <2>1. PICK r : r = req'[w]
    OBVIOUS
  <2>2. Knows(r)'
    BY <1>5, <1>6, <2>1, KnowsStays
  <2> QED
    BY <1>2, <1>5, <1>6, <2>1, <2>2, ExclusiveStays
<1>7. ASSUME NEW s \in Sessions,
             \/ CreateSession(s)
             \/ \E staff \in Staff \cup {NoStaff} : UpdateSession(s, staff)
             \/ Release(s)
      PROVE  Exclusive' /\ Informed'
  BY <1>4, <1>5, <1>7, ReleaseNoClaim DEF CreateSession, UpdateSession, Release
<1>8. ASSUME NEW s \in Sessions, NEW slot \in Slots, ReserveCheckHolds(w, s, slot, NoStaff)
      PROVE  Exclusive' /\ Informed'
  <2>1. NoHoldOver(slot)
    BY <1>8, ConflictsSeen DEF ReserveCheckHolds
  <2>2. req'[w].at = "reserve.bookings" /\ req'[w].slot = slot
    BY <1>1, <1>8 DEF ReserveCheckHolds, Begin, Idle
  <2> QED
    BY <1>6, <1>8, <2>1, <2>2 DEF ReserveCheckHolds, Knows
<1>9. ASSUME ReserveCheckBookings(w) PROVE Exclusive' /\ Informed'
  <2>1. CASE BookingConflict(q.slot, q.staff, NoBooking)
    BY <1>3, <1>5, <1>9, <2>1, ExclusiveStays DEF ReserveCheckBookings
  <2>2. CASE ~BookingConflict(q.slot, q.staff, NoBooking)
    <3>1. NoHoldOver(q.slot) /\ NoBookingOver(q.slot, NoBooking)
      BY <1>1, <1>9, <2>2, ConflictsSeen DEF ReserveCheckBookings, Knows
    <3>2. req'[w].at = "reserve.insert" /\ req'[w].slot = q.slot
      BY <1>1, <1>9, <2>2 DEF ReserveCheckBookings, Goto, Request
    <3> QED
      BY <1>6, <1>9, <3>1, <3>2 DEF ReserveCheckBookings, Knows
  <2> QED
    BY <2>1, <2>2
<1>10. ASSUME NEW h \in Holds, ReserveInsert(w, h) PROVE Exclusive' /\ Informed'
  <2>1. NoHoldOver(q.slot) /\ NoBookingOver(q.slot, NoBooking)
    BY <1>1, <1>10 DEF ReserveInsert, Knows
  <2>2. /\ hSlot'[h] = q.slot
        /\ \A g \in Holds \ {h} : hLive'[g] = hLive[g] /\ hSlot'[g] = hSlot[g]
                                  /\ hSession'[g] = hSession[g]
        /\ UNCHANGED <<bStatus, bSlot, bSession>>
    BY <1>10 DEF ReserveInsert, TypeOK, RowsOK, HoldsOK, bookingVars
  <2>3. \A b \in Bookings : Active(b) => ~Overlap(hSlot'[h], bSlot[b])
    BY <2>1, <2>2, OverlapSymmetric, NullsAreNoRows DEF NoBookingOver
  <2>4. Exclusive'
    BY <2>1, <2>2, <2>3, OverlapSymmetric DEF Exclusive, NoHoldOver, LiveHold, Active
  <2> QED
    BY <1>3, <1>10, <2>4 DEF ReserveInsert
<1>11. ASSUME NEW s \in Sessions, AbandonRead(w, s) \/ CompleteRead(w, s) \/ PayRead(w, s)
       PROVE  Exclusive' /\ Informed'
  <2>1. req'[w].at \in {"abandon.release", "complete.hold", "pay.hold"}
    BY <1>1, <1>11 DEF AbandonRead, CompleteRead, PayRead, Begin, Idle
  <2>2. Knows(req'[w])
    BY <2>1 DEF Knows
  <2> QED
    BY <1>6, <1>11, <2>2 DEF AbandonRead, CompleteRead, PayRead
<1>12. ASSUME AbandonRelease(w) PROVE Exclusive' /\ Informed'
  <2>1. req'[w].at = "abandon.write"
    BY <1>1, <1>12 DEF AbandonRelease, Goto, Request
  <2>2. Informed'
    BY <2>1 DEF Informed, Knows
  <2> QED
    BY <1>12, <2>2, ReleaseNoClaim, ExclusiveStays DEF AbandonRelease
<1>13. ASSUME AbandonWrite(w) \/ PayCharge(w) \/ RequestDies(w) PROVE Exclusive' /\ Informed'
  BY <1>3, <1>5, <1>13, ExclusiveStays DEF AbandonWrite, PayCharge, RequestDies
<1>14. ASSUME NEW h \in Holds, CompleteFindHold(w, h) \/ PayFindHold(w, h)
       PROVE  Exclusive' /\ Informed'
  <2>1. OwnClaims(hSession[h], hSlot[h]) /\ hSession[h] = q.s
    BY <1>14, HolderOwns DEF CompleteFindHold, PayFindHold
  <2>2. /\ req'[w].at \in {"complete.commit", "pay.lookup"}
        /\ req'[w].s = q.s /\ req'[w].slot = hSlot[h]
    BY <1>1, <1>14 DEF CompleteFindHold, PayFindHold, Request
  <2>3. Knows(req'[w])
    BY <2>1, <2>2 DEF Knows
  <2> QED
    BY <1>6, <1>14, <2>3 DEF CompleteFindHold, PayFindHold
<1>15. ASSUME NEW b \in Bookings, CompleteCommit(w, b) PROVE Exclusive' /\ Informed'
  <2>1. OwnClaims(q.s, q.slot) /\ q.s # NoSession
    BY <1>1, <1>15, NullsAreNoRows DEF CompleteCommit, Knows, RequestOK, ForSession
  <2>2. (IF AutoConfirm THEN "CONFIRMED" ELSE "PENDING") \in ActiveStatus
    BY DEF ActiveStatus
  <2>3. \A g \in Holds : hLive'[g] => hLive[g]
    BY <1>15 DEF CompleteCommit, TypeOK, RowsOK, HoldsOK
  <2>4. Exclusive'
    BY <1>15, <2>1, <2>2, <2>3, InsertExclusive DEF CompleteCommit
  <2> QED
    BY <1>3, <1>15, <2>4 DEF CompleteCommit
<1>16. ASSUME PayLookup(w) PROVE Exclusive' /\ Informed'
  <2>1. OwnClaims(q.s, q.slot) /\ q.slot \in Slots
    BY <1>1, <1>16 DEF PayLookup, Knows, RequestOK, ForSlot, Points
  <2>2. CASE Goto(w, "pay.create")
    <3>1. req'[w].at = "pay.create" /\ req'[w].s = q.s /\ req'[w].slot = q.slot
      BY <1>1, <2>2 DEF Goto, Request
    <3>2. Knows(req'[w])
      BY <2>1, <3>1 DEF Knows
    <3> QED
      BY <1>6, <1>16, <3>2 DEF PayLookup
  <2>3. ASSUME NEW b \in Payable(q.slot), req' = [req EXCEPT ![w].at = "pay.charge", ![w].b = b]
        PROVE  Exclusive' /\ Informed'
    <3>1. bSession[b] = q.s
      BY <2>1, OverlapReflexive DEF Payable, OwnClaims, Active, ActiveStatus
    <3>2. req'[w].at = "pay.charge" /\ req'[w].s = q.s /\ req'[w].b = b
      BY <1>1, <2>3 DEF Request
    <3>3. Knows(req'[w])
      BY <3>1, <3>2 DEF Knows
    <3> QED
      BY <1>6, <1>16, <3>3 DEF PayLookup
  <2> QED
    BY <1>16, <2>2, <2>3 DEF PayLookup
<1>17. ASSUME NEW b \in Bookings, PayCreate(w, b) PROVE Exclusive' /\ Informed'
  <2>1. OwnClaims(q.s, q.slot) /\ q.s # NoSession
    BY <1>1, <1>17, NullsAreNoRows DEF PayCreate, Knows, RequestOK, ForSession
  <2>2. "PENDING" \in ActiveStatus
    BY DEF ActiveStatus
  <2>3. Exclusive'
    BY <1>17, <2>1, <2>2, InsertExclusive DEF PayCreate, holdVars
  <2>4. req'[w].at = "pay.charge" /\ req'[w].s = q.s /\ req'[w].b = b
    BY <1>1, <1>17 DEF PayCreate, Request
  <2>5. bSession'[b] = q.s
    BY <1>17 DEF PayCreate, InsertBooking, TypeOK, RowsOK, BookingsOK
  <2>6. Informed'
    BY <2>4, <2>5 DEF Informed, Knows
  <2> QED
    BY <2>3, <2>6
<1> QED
  BY <1>7, <1>8, <1>9, <1>10, <1>11, <1>12, <1>13, <1>14, <1>15, <1>16, <1>17 DEF Widget

LEMMA DeskExclusive ==
  ASSUME NEW w, Requests = {w}, Staff = {}, TypeOK, Exclusive, Informed, Desk
  PROVE  Exclusive' /\ Informed'
<1> DEFINE q == req[w]
<1>1. /\ Knows(q) /\ q \in Request /\ RequestOK(q)
      /\ req \in [Requests -> Request] /\ w \in Requests
  BY DEF Informed, TypeOK, RowsOK, RequestsOK
<1>2. ASSUME End(w) PROVE Informed'
  BY <1>1, <1>2 DEF End, Idle, Informed, Knows
<1>3. ASSUME UNCHANGED <<holdVars, bookingVars>> PROVE NoClaim
  BY <1>3 DEF NoClaim, holdVars, bookingVars
<1>4. ASSUME UNCHANGED <<holdVars, bookingVars>>, Knows(req'[w]) PROVE Exclusive' /\ Informed'
  <2>1. PICK r : r = req'[w]
    OBVIOUS
  <2>2. Knows(r)'
    BY <1>3, <1>4, <2>1, KnowsStays
  <2> QED
    BY <1>3, <1>4, <2>1, <2>2, ExclusiveStays DEF Informed, Knows
<1>5. ASSUME UNCHANGED <<holdVars, bookingVars>>, End(w) PROVE Exclusive' /\ Informed'
  BY <1>2, <1>3, <1>5, ExclusiveStays
<1>6. ASSUME NEW slot \in Slots, WalkInCheckBookings(w, slot) PROVE Exclusive' /\ Informed'
  <2>1. NoBookingOver(slot, NoBooking)
    BY <1>6, ConflictsSeen DEF WalkInCheckBookings
  <2>2. req'[w].at = "walkin.holds" /\ req'[w].slot = slot
    BY <1>1, <1>6 DEF WalkInCheckBookings, Begin, Idle
  <2>3. Knows(req'[w])
    BY <2>1, <2>2 DEF Knows
  <2> QED
    BY <1>4, <1>6, <2>3 DEF WalkInCheckBookings
<1>7. ASSUME NEW b \in Bookings, NEW slot \in Slots, MoveRead(w, b, slot)
      PROVE  Exclusive' /\ Informed'
  <2>1. req'[w].at = "move.bookings"
    BY <1>1, <1>7 DEF MoveRead, Begin, Idle
  <2>2. Knows(req'[w])
    BY <2>1 DEF Knows
  <2> QED
    BY <1>4, <1>7, <2>2 DEF MoveRead
<1>8. ASSUME WalkInCheckHolds(w) PROVE Exclusive' /\ Informed'
  <2>1. CASE ~HoldConflict(q.slot, NoStaff)
    <3>1. NoHoldOver(q.slot) /\ NoBookingOver(q.slot, NoBooking)
      BY <1>1, <1>8, <2>1, ConflictsSeen DEF WalkInCheckHolds, Knows
    <3>2. req'[w].at = "walkin.insert" /\ req'[w].slot = q.slot
      BY <1>1, <1>8, <2>1 DEF WalkInCheckHolds, Goto, Request
    <3>3. Knows(req'[w])
      BY <3>1, <3>2 DEF Knows
    <3> QED
      BY <1>4, <1>8, <3>3 DEF WalkInCheckHolds
  <2> QED
    BY <1>5, <1>8, <2>1 DEF WalkInCheckHolds
<1>9. ASSUME NEW b \in Bookings, WalkInInsert(w, b) PROVE Exclusive' /\ Informed'
  <2>1. NoHoldOver(q.slot) /\ NoBookingOver(q.slot, NoBooking)
    BY <1>1, <1>9 DEF WalkInInsert, Knows
  <2>2. "CONFIRMED" \in ActiveStatus
    BY DEF ActiveStatus
  <2>3. Exclusive'
    BY <1>9, <2>1, <2>2, InsertExclusive DEF WalkInInsert, holdVars
  <2> QED
    BY <1>2, <1>9, <2>3 DEF WalkInInsert
<1>10. ASSUME MoveCheckBookings(w) PROVE Exclusive' /\ Informed'
  <2>1. CASE ~BookingConflict(q.slot, NoStaff, q.b)
    <3>1. NoBookingOver(q.slot, q.b)
      BY <2>1, ConflictsSeen
    <3>2. req'[w].at = "move.holds" /\ req'[w].slot = q.slot /\ req'[w].b = q.b
      BY <1>1, <1>10, <2>1 DEF MoveCheckBookings, Goto, Request
    <3>3. Knows(req'[w])
      BY <3>1, <3>2 DEF Knows
    <3> QED
      BY <1>4, <1>10, <3>3 DEF MoveCheckBookings
  <2> QED
    BY <1>5, <1>10, <2>1 DEF MoveCheckBookings
<1>11. ASSUME MoveCheckHolds(w) PROVE Exclusive' /\ Informed'
  <2>1. CASE ~HoldConflict(q.slot, NoStaff)
    <3>1. NoHoldOver(q.slot) /\ NoBookingOver(q.slot, q.b)
      BY <1>1, <1>11, <2>1, ConflictsSeen DEF MoveCheckHolds, Knows
    <3>2. req'[w].at = "move.commit" /\ req'[w].slot = q.slot /\ req'[w].b = q.b
      BY <1>1, <1>11, <2>1 DEF MoveCheckHolds, Goto, Request
    <3>3. Knows(req'[w])
      BY <3>1, <3>2 DEF Knows
    <3> QED
      BY <1>4, <1>11, <3>3 DEF MoveCheckHolds
  <2> QED
    BY <1>5, <1>11, <2>1 DEF MoveCheckHolds
<1>12. ASSUME MoveCommit(w) PROVE Exclusive' /\ Informed'
  <2>1. NoHoldOver(q.slot) /\ NoBookingOver(q.slot, q.b) /\ q.b \in Bookings
    BY <1>1, <1>12 DEF MoveCommit, Knows, RequestOK, ForBooking
  <2>2. Exclusive'
    BY <1>12, <2>1, MoveExclusive DEF MoveCommit
  <2> QED
    BY <1>2, <1>12, <2>2 DEF MoveCommit
<1> QED
  BY <1>6, <1>7, <1>8, <1>9, <1>10, <1>11, <1>12 DEF Desk

LEMMA ExclusionStep ==
  ASSUME NEW w, Requests = {w}, Staff = {}, TypeOK, Exclusive, Informed, [DeskNext]_vars
  PROVE  Exclusive' /\ Informed'
<1>1. ASSUME NoClaim, UNCHANGED req PROVE Exclusive' /\ Informed'
  <2>1. PICK r : r = req[w]
    OBVIOUS
  <2>2. Knows(r)'
    BY <1>1, <2>1, KnowsStays DEF Informed
  <2> QED
    BY <1>1, <2>1, <2>2, ExclusiveStays DEF Informed, Knows
<1>2. CASE UNCHANGED vars
  BY <1>1, <1>2 DEF vars, holdVars, bookingVars, NoClaim
<1> QED
  BY <1>1, <1>2, WidgetExclusive, DeskExclusive, JobsNoClaim, ChangeNoClaim DEF DeskNext

(* DeskSpec is a part of Spec. *)
LEMMA DeskTypeStep == ASSUME TypeOK, [DeskNext]_vars PROVE TypeOK'
BY TypeStep DEF DeskNext, Next, ChangeStatus

(* With one request at a time no slot is claimed twice: live holds do not  *)
(* overlap, and bookings overlap claims of their own session only.         *)
THEOREM ExclusiveSlots ==
  ASSUME NEW w, Requests = {w}, Staff = {} PROVE DeskSpec => []Exclusive
<1>1. TypeOK /\ Exclusive /\ Informed /\ [DeskNext]_vars => (TypeOK /\ Exclusive /\ Informed)'
  BY ExclusionStep, DeskTypeStep
<1>2. Init => TypeOK /\ Exclusive /\ Informed
  BY InitOK, ExclusionInit
<1> QED
  BY <1>1, <1>2, PTL DEF DeskSpec

(* And /pay charges a booking of the session that pays, and no other.      *)
THEOREM PaysOwnBooking ==
  ASSUME NEW w, Requests = {w}, Staff = {} PROVE DeskSpec => []PaysForItsOwn
<1>1. TypeOK /\ Exclusive /\ Informed /\ [DeskNext]_vars => (TypeOK /\ Exclusive /\ Informed)'
  BY ExclusionStep, DeskTypeStep
<1>2. Init => TypeOK /\ Exclusive /\ Informed
  BY InitOK, ExclusionInit
<1>3. Informed => PaysForItsOwn
  BY DEF Informed, Knows, PaysForItsOwn
<1> QED
  BY <1>1, <1>2, <1>3, PTL DEF DeskSpec

-----------------------------------------------------------------------------
(* How far requests in flight together can overbook: the checks lock       *)
(* nothing, so the bound is the number of requests.                        *)

(* Of two sets whose sizes are bounded together, each may shrink. *)
LEMMA SmallerTogether ==
  ASSUME NEW A, NEW B, NEW A2, NEW B2, NEW N \in Nat,
         IsFiniteSet(A), IsFiniteSet(B), A2 \subseteq A, B2 \subseteq B,
         Cardinality(A) + Cardinality(B) <= N
  PROVE  IsFiniteSet(A2) /\ Cardinality(A2) + Cardinality(B2) <= N
BY FS_Subset, FS_CardinalityType

(* An element may leave one of them and another may join the other. *)
LEMMA TradedTogether ==
  ASSUME NEW A, NEW B, NEW N \in Nat, NEW a, NEW b,
         IsFiniteSet(A), IsFiniteSet(B), a \notin A, b \in B,
         Cardinality(A) + Cardinality(B) <= N
  PROVE  /\ IsFiniteSet(A \cup {a})
         /\ Cardinality(A \cup {a}) + Cardinality(B \ {b}) <= N
<1>1. IsFiniteSet(A \cup {a}) /\ Cardinality(A \cup {a}) = Cardinality(A) + 1
  BY FS_AddElement
<1>2. Cardinality(B \ {b}) = Cardinality(B) - 1
  BY FS_RemoveElement
<1> QED
  BY <1>1, <1>2, FS_CardinalityType

(* What is left when one of them is empty. *)
LEMMA AloneTogether ==
  ASSUME NEW S, IsFiniteSet(S), NEW B, B \subseteq S
  PROVE  /\ IsFiniteSet({})
         /\ Cardinality({}) + Cardinality(B) <= Cardinality(S)
BY FS_EmptySet, FS_Subset, FS_CardinalityType

-----------------------------------------------------------------------------
(* A hold and the requests that may still book it.  /complete counts as a  *)
(* booking of the hold from the moment it has found it live: while a hold  *)
(* is live it has no bookings, and then every booking of it is one of the  *)
(* requests that had found it.                                             *)
Booked(h)   == {b \in Bookings : bHold[b] = h}
Carriers(h) == {w \in Requests : req[w].at = "complete.commit" /\ req[w].h = h}

HoldBound(h) ==
  /\ IsFiniteSet(Booked(h))
  /\ Cardinality(Booked(h)) + Cardinality(Carriers(h)) <= Cardinality(Requests)

LEMMA HoldBoundInit ==
  ASSUME IsFiniteSet(Requests), Init, NEW h \in Holds PROVE HoldBound(h)
<1>1. Booked(h) = {}
  BY NullsAreNoRows DEF Init, Booked
<1>2. Carriers(h) \subseteq Requests
  BY DEF Carriers
<1> QED
  BY <1>1, <1>2, AloneTogether DEF HoldBound

(* A live hold has not been booked. *)
LEMMA LiveIsUnbooked ==
  ASSUME TypeOK, CompletionIsAtomic, NEW h \in Holds, LiveHold(h) PROVE Booked(h) = {}
<1> SUFFICES ASSUME NEW b \in Bookings, bHold[b] = h PROVE FALSE
  BY DEF Booked
<1>1. hStatus[h] = "CONFIRMED"
  BY NullsAreNoRows DEF CompletionIsAtomic
<1>2. hStatus[h] = "HELD"
  BY DEF LiveHold, TypeOK, RowsOK, HoldsOK
<1> QED
  BY <1>1, <1>2

LEMMA HoldBoundStep ==
  ASSUME IsFiniteSet(Requests), TypeOK, CompletionIsAtomic, [Next]_vars,
         NEW h \in Holds, HoldBound(h)
  PROVE  HoldBound(h)'
<1>0. /\ Carriers(h) \subseteq Requests /\ Carriers(h)' \subseteq Requests
      /\ IsFiniteSet(Carriers(h)) /\ Cardinality(Requests) \in Nat
  BY FS_Subset, FS_CardinalityType DEF Carriers
<1>1. ASSUME NEW w \in Requests, CompleteFindHold(w, h) PROVE HoldBound(h)'
  <2>1. Booked(h) = {}
    BY <1>1, LiveIsUnbooked DEF CompleteFindHold
  <2>2. Booked(h)' = {}
    BY <1>1, <2>1 DEF CompleteFindHold, Booked, bookingVars
  <2> QED
    BY <1>0, <2>2, AloneTogether DEF HoldBound
<1>2. ASSUME ~ \E w \in Requests : CompleteFindHold(w, h) PROVE HoldBound(h)'
  <2>1. ASSUME NEW w \in Requests, w \in Carriers(h)' PROVE req'[w] = req[w] /\ w \in Carriers(h)
    <3>1. ASSUME NEW g \in Holds, CompleteFindHold(w, g) PROVE g = h
      BY <2>1, <3>1 DEF CompleteFindHold, Carriers, TypeOK, RowsOK, RequestsOK, Request
    <3> QED
      BY <1>2, <2>1, <3>1, ReachesCommit DEF Carriers
  <2>2. Carriers(h)' \subseteq Carriers(h)
    BY <1>0, <2>1
  <2>3. CASE Quiet
    <3>1. Booked(h)' = Booked(h)
      BY <2>3 DEF Quiet, Booked
    <3> QED
      BY <1>0, <2>2, <3>1, SmallerTogether DEF HoldBound
  <2>4. ASSUME NEW w \in Requests, NEW b \in Bookings, CompleteCommit(w, b) PROVE HoldBound(h)'
    <3>1. /\ bHold[b] = NoHold
          /\ bHold' = [bHold EXCEPT ![b] = req[w].h]
          /\ req[w].h \in Holds
          /\ req[w].at = "complete.commit" /\ req'[w].at = "idle"
      BY <2>4 DEF CompleteCommit, InsertBooking, End, Idle, TypeOK, RowsOK, BookingsOK, RequestsOK,
                  RequestOK
    <3>2. CASE req[w].h = h
      <4>1. b \notin Booked(h) /\ w \in Carriers(h)
        BY <3>1, <3>2, NullsAreNoRows DEF Booked, Carriers
      <4>2. Booked(h)' = Booked(h) \cup {b}
        BY <3>1, <3>2 DEF Booked, TypeOK, RowsOK, BookingsOK
      <4>3. Carriers(h)' \subseteq Carriers(h) \ {w}
        BY <2>2, <3>1 DEF Carriers
      <4>4. /\ IsFiniteSet(Booked(h) \cup {b}) /\ IsFiniteSet(Carriers(h) \ {w})
            /\ Cardinality(Booked(h) \cup {b}) + Cardinality(Carriers(h) \ {w})
                 <= Cardinality(Requests)
        BY <1>0, <4>1, TradedTogether, FS_RemoveElement DEF HoldBound
      <4> QED
        BY <1>0, <4>2, <4>3, <4>4, SmallerTogether DEF HoldBound
    <3>3. CASE req[w].h # h
      <4>1. Booked(h)' = Booked(h)
        BY <3>1, <3>3, NullsAreNoRows DEF Booked, TypeOK, RowsOK, BookingsOK
      <4> QED
        BY <1>0, <2>2, <4>1, SmallerTogether DEF HoldBound
    <3> QED
      BY <3>2, <3>3
  <2> QED
    BY <2>3, <2>4, QuietOrCommit
<1> QED
  BY <1>1, <1>2

(* A hold is booked no more often than there are requests in flight,       *)
(* however often /complete is submitted for it.                            *)
THEOREM HoldsAreBookedBounded ==
  ASSUME IsFiniteSet(Requests) PROVE Spec => []BookingsPerHoldBounded
<1> DEFINE I == \A h \in Holds : HoldBound(h)
<1>1. Init => I
  BY HoldBoundInit
<1>2. TypeOK /\ CompletionIsAtomic /\ I /\ [Next]_vars => I'
  BY HoldBoundStep
<1>3. I => BookingsPerHoldBounded
  <2> SUFFICES ASSUME NEW h \in Holds, HoldBound(h)
               PROVE  Cardinality({b \in Bookings : bHold[b] = h}) <= Cardinality(Requests)
    BY DEF BookingsPerHoldBounded
  <2>1. Cardinality(Booked(h)) \in Nat /\ Cardinality(Carriers(h)) \in Nat /\ Cardinality(Requests) \in Nat
    BY FS_Subset, FS_CardinalityType DEF HoldBound, Carriers
  <2> QED
    BY <2>1 DEF HoldBound, Booked
<1> HIDE DEF I
<1> QED
  BY <1>1, <1>2, <1>3, TypeInvariant, Atomicity, PTL DEF Spec

-----------------------------------------------------------------------------
(* Holds that overlap, of one member of staff (or of no one), and requests *)
(* that are about to make another one like them: a request counts from the *)
(* moment it has seen no live hold in its way.                             *)
Reserving(w) == req[w].at \in {"reserve.bookings", "reserve.insert"}

Clash(hs, ws) ==
  /\ \A g, h \in hs : Overlap(hSlot[g], hSlot[h])
  /\ \A h \in hs, w \in ws : Overlap(hSlot[h], req[w].slot)

LiveFor(m)      == {h \in Holds : LiveHold(h) /\ hStaff[h] = m}
ReservingFor(m) == {w \in Requests : Reserving(w) /\ req[w].staff = m}

MemberBound(m) ==
  \A hs \in SUBSET LiveFor(m), ws \in SUBSET ReservingFor(m) :
    Clash(hs, ws) =>
      /\ IsFiniteSet(hs)
      /\ Cardinality(hs) + Cardinality(ws) <= Cardinality(Requests)

(* A request that is reserving was reserving before the step for the same  *)
(* slot and member, or has just seen that no live hold is in its way.      *)
LEMMA ReachesReserve ==
  ASSUME TypeOK, [Next]_vars, NEW w \in Requests, Reserving(w)'
  PROVE  \/ Reserving(w) /\ req'[w].slot = req[w].slot /\ req'[w].staff = req[w].staff
         \/ \E s \in Sessions, slot \in Slots, staff \in Staff \cup {NoStaff} :
              ReserveCheckHolds(w, s, slot, staff)
<1> DEFINE Same == Reserving(w) /\ req'[w].slot = req[w].slot /\ req'[w].staff = req[w].staff
<1> USE DEF TypeOK, RowsOK, RequestsOK, Request, Reserving
<1>1. ASSUME NEW v \in Requests, End(v) PROVE Same
  BY <1>1 DEF End, Idle
<1>2. ASSUME NEW v \in Requests, NEW p, p \notin {"reserve.bookings", "reserve.insert"}, Goto(v, p)
      PROVE  Same
  BY <1>2 DEF Goto
<1>3. ASSUME NEW v \in Requests, NEW q, q.at \notin {"reserve.bookings", "reserve.insert"}, Begin(v, q)
      PROVE  Same
  BY <1>3 DEF Begin
<1>4. CASE req' = req
  BY <1>4
<1>5. CASE Widget
  <2>1. ASSUME NEW v \in Requests, NEW h \in Holds, PayFindHold(v, h) \/ CompleteFindHold(v, h)
        PROVE  Same
    BY <2>1 DEF PayFindHold, CompleteFindHold
  <2>2. ASSUME NEW v \in Requests, PayLookup(v) PROVE Same
    BY <2>2, <1>2 DEF PayLookup
  <2>3. ASSUME NEW v \in Requests, NEW b \in Bookings, PayCreate(v, b) PROVE Same
    BY <2>3 DEF PayCreate
  <2>4. ASSUME NEW v \in Requests, NEW s \in Sessions, NEW slot \in Slots,
               NEW staff \in Staff \cup {NoStaff}, ReserveCheckHolds(v, s, slot, staff)
        PROVE  Same \/ ReserveCheckHolds(w, s, slot, staff)
    BY <2>4 DEF ReserveCheckHolds, Begin
  <2>5. ASSUME NEW v \in Requests, NEW s \in Sessions,
               AbandonRead(v, s) \/ CompleteRead(v, s) \/ PayRead(v, s)
        PROVE  Same
    BY <2>5, <1>3 DEF AbandonRead, CompleteRead, PayRead, Idle
  <2>6. ASSUME NEW v \in Requests, AbandonRelease(v) PROVE Same
    BY <2>6, <1>2 DEF AbandonRelease
  <2>7. ASSUME NEW v \in Requests, ReserveCheckBookings(v) PROVE Same
    BY <2>7, <1>1 DEF ReserveCheckBookings, Goto
  <2> QED
    BY <1>5, <1>1, <1>4, <2>1, <2>2, <2>3, <2>4, <2>5, <2>6, <2>7
       DEF Widget, CreateSession, UpdateSession, Release, ReserveInsert, AbandonWrite,
           CompleteCommit, PayCharge, RequestDies
<1>6. CASE Desk
  <2>1. ASSUME NEW v \in Requests, NEW slot \in Slots,
               WalkInCheckBookings(v, slot) \/ \E b \in Bookings : MoveRead(v, b, slot)
        PROVE  Same
    BY <2>1, <1>3 DEF WalkInCheckBookings, MoveRead, Idle
  <2>2. ASSUME NEW v \in Requests,
               WalkInCheckHolds(v) \/ MoveCheckBookings(v) \/ MoveCheckHolds(v)
        PROVE  Same
    BY <2>2, <1>1, <1>2 DEF WalkInCheckHolds, MoveCheckBookings, MoveCheckHolds
  <2> QED
    BY <1>6, <1>1, <2>1, <2>2 DEF Desk, WalkInInsert, MoveCommit
<1>7. CASE Portal
  <2>1. ASSUME NEW v \in Requests, NEW b \in Bookings, NEW slot \in Slots, PortalRead(v, b, slot)
        PROVE  Same
    BY <2>1, <1>3 DEF PortalRead, Idle
  <2>2. ASSUME NEW v \in Requests, PortalCheck(v) PROVE Same
    BY <2>2, <1>1, <1>2 DEF PortalCheck
  <2> QED
    BY <1>7, <1>1, <2>1, <2>2 DEF Portal, PortalCommit
<1>8. CASE Jobs
  BY <1>8, <1>4 DEF Jobs, Lapse, ExpireReservations, SweepRead, SweepWrite
<1>9. ASSUME NEW b \in Bookings, NEW status, WriteStatus(b, status) PROVE Same
  BY <1>9 DEF WriteStatus
<1> QED
  BY <1>4, <1>5, <1>6, <1>7, <1>8, <1>9 DEF Next, vars

(* A hold that is live was live before the step, for the same slot and     *)
(* member, or has just been inserted.                                      *)
LEMMA BecomesLive ==
  ASSUME TypeOK, [Next]_vars, NEW h \in Holds, LiveHold(h)'
  PROVE  \/ LiveHold(h) /\ hSlot'[h] = hSlot[h] /\ hStaff'[h] = hStaff[h]
         \/ \E w \in Requests : ReserveInsert(w, h)
<1> DEFINE Was == LiveHold(h) /\ hSlot'[h] = hSlot[h] /\ hStaff'[h] = hStaff[h]
<1> USE DEF TypeOK, RowsOK, HoldsOK, LiveHold
<1>1. ASSUME UNCHANGED holdVars PROVE Was
  BY <1>1 DEF holdVars
<1>2. ASSUME NEW ss, ReleaseAllFor(ss) PROVE Was
  BY <1>2 DEF ReleaseAllFor
<1>3. CASE Widget
  <2>1. ASSUME NEW w \in Requests, NEW b \in Bookings, CompleteCommit(w, b) PROVE Was
    BY <2>1 DEF CompleteCommit
  <2>2. ASSUME NEW w \in Requests, NEW g \in Holds, ReserveInsert(w, g)
        PROVE  Was \/ ReserveInsert(w, h)
    BY <2>2 DEF ReserveInsert
  <2> QED
    BY <1>3, <1>1, <1>2, <2>1, <2>2
       DEF Widget, CreateSession, UpdateSession, Release, ReserveCheckHolds, AbandonRead,
           CompleteRead, PayRead, ReserveCheckBookings, CompleteFindHold, PayFindHold,
           AbandonRelease, AbandonWrite, PayLookup, PayCreate, PayCharge, RequestDies
<1>4. CASE Desk
  BY <1>4, <1>1 DEF Desk, WalkInCheckBookings, MoveRead, WalkInCheckHolds, WalkInInsert,
                    MoveCheckBookings, MoveCheckHolds, MoveCommit
<1>5. CASE Portal
  BY <1>5, <1>1 DEF Portal, PortalRead, PortalCheck, PortalCommit
<1>6. CASE Jobs
  BY <1>6, <1>1, <1>2 DEF Jobs, Lapse, ExpireReservations, SweepRead, SweepWrite
<1>7. ASSUME NEW b \in Bookings, NEW status, WriteStatus(b, status) PROVE Was
  BY <1>7, <1>1 DEF WriteStatus
<1>8. ASSUME UNCHANGED vars PROVE Was
  BY <1>8, <1>1 DEF vars
<1> QED
  BY <1>3, <1>4, <1>5, <1>6, <1>7, <1>8 DEF Next

LEMMA MemberBoundInit ==
  ASSUME IsFiniteSet(Requests), Init, NEW m PROVE MemberBound(m)
<1>1. ASSUME NEW hs \in SUBSET LiveFor(m) PROVE hs = {}
  BY <1>1 DEF Init, LiveFor, LiveHold
<1>2. ASSUME NEW ws \in SUBSET ReservingFor(m) PROVE ws \subseteq Requests
  BY DEF ReservingFor
<1> QED
  BY <1>1, <1>2, AloneTogether DEF MemberBound

LEMMA MemberBoundStep ==
  ASSUME IsFiniteSet(Requests), TypeOK, [Next]_vars, NEW m, MemberBound(m)
  PROVE  MemberBound(m)'
<1> SUFFICES ASSUME NEW hs, NEW ws, hs \subseteq LiveFor(m)', ws \subseteq ReservingFor(m)', Clash(hs, ws)'
             PROVE  IsFiniteSet(hs) /\ Cardinality(hs) + Cardinality(ws) <= Cardinality(Requests)
  BY DEF MemberBound
<1>0. /\ ws \subseteq Requests /\ hs \subseteq Holds
      /\ \A h \in hs : LiveHold(h)' /\ hStaff'[h] = m
      /\ \A w \in ws : Reserving(w)' /\ req'[w].staff = m
      /\ \A g, h \in hs : Overlap(hSlot'[g], hSlot'[h])
      /\ \A h \in hs, w \in ws : Overlap(hSlot'[h], req'[w].slot)
  BY DEF LiveFor, ReservingFor, Clash, Overlap
<1>1. ASSUME NEW w \in ws, NEW s \in Sessions, NEW slot \in Slots, NEW staff \in Staff \cup {NoStaff},
             ReserveCheckHolds(w, s, slot, staff)
      PROVE  IsFiniteSet(hs) /\ Cardinality(hs) + Cardinality(ws) <= Cardinality(Requests)
  <2>1. req'[w].slot = slot /\ req'[w].staff = staff /\ staff = m
    BY <1>0, <1>1 DEF ReserveCheckHolds, Begin, Idle, TypeOK, RowsOK, RequestsOK
  <2>2. ASSUME NEW h \in hs PROVE FALSE
    <3>1. LiveHold(h) /\ hStaff[h] = m /\ Overlap(hSlot[h], slot)
      BY <1>0, <1>1, <2>1 DEF ReserveCheckHolds, holdVars, LiveHold
    <3> QED
      BY <1>0, <1>1, <2>1, <3>1 DEF ReserveCheckHolds, HoldConflict, SameStaff
  <2>3. hs = {}
    BY <2>2
  <2> QED
    BY <1>0, <2>3, AloneTogether
<1>2. ASSUME \A w \in ws : Reserving(w) /\ req'[w].slot = req[w].slot /\ req'[w].staff = req[w].staff
      PROVE  IsFiniteSet(hs) /\ Cardinality(hs) + Cardinality(ws) <= Cardinality(Requests)
  <2>1. ASSUME NEW h \in hs, NEW w \in Requests, ReserveInsert(w, h)
        PROVE  IsFiniteSet(hs) /\ Cardinality(hs) + Cardinality(ws) <= Cardinality(Requests)
    <3> DEFINE hs0 == hs \ {h}
               ws1 == ws \cup {w}
    <3>1. /\ Reserving(w) /\ w \notin ws
          /\ hSlot'[h] = req[w].slot /\ hStaff'[h] = req[w].staff
      BY <1>0, <2>1 DEF ReserveInsert, Reserving, End, Idle, TypeOK, RowsOK, RequestsOK, HoldsOK
    <3>2. ASSUME NEW g \in hs0
          PROVE  LiveHold(g) /\ hSlot'[g] = hSlot[g] /\ hStaff'[g] = hStaff[g]
      BY <1>0, <2>1 DEF ReserveInsert, LiveHold, TypeOK, RowsOK, HoldsOK
    <3>3. hs0 \in SUBSET LiveFor(m) /\ ws1 \in SUBSET ReservingFor(m)
      BY <1>0, <1>2, <3>1, <3>2 DEF LiveFor, ReservingFor
    <3>4. Clash(hs0, ws1)
      <4>1. ASSUME NEW g \in hs0, NEW k \in hs0 PROVE Overlap(hSlot[g], hSlot[k])
        BY <1>0, <3>2
      <4>2. ASSUME NEW g \in hs0, NEW v \in ws PROVE Overlap(hSlot[g], req[v].slot)
        BY <1>0, <1>2, <3>2
      <4>3. ASSUME NEW g \in hs0 PROVE Overlap(hSlot[g], req[w].slot)
        BY <1>0, <3>1, <3>2
      <4> QED
        BY <4>1, <4>2, <4>3 DEF Clash
    <3> HIDE DEF hs0, ws1
    <3>5. IsFiniteSet(hs0) /\ Cardinality(hs0) + Cardinality(ws1) <= Cardinality(Requests)
      BY <3>3, <3>4 DEF MemberBound
    <3>6. /\ hs = hs0 \cup {h} /\ h \notin hs0
          /\ ws = ws1 \ {w} /\ w \in ws1
      BY <3>1 DEF hs0, ws1
    <3>7. IsFiniteSet(ws1) /\ Cardinality(Requests) \in Nat
      BY <1>0, FS_Subset, FS_CardinalityType DEF ws1
    <3> QED
      BY <3>5, <3>6, <3>7, TradedTogether
  <2>2. ASSUME \A h \in hs : LiveHold(h) /\ hSlot'[h] = hSlot[h] /\ hStaff'[h] = hStaff[h]
        PROVE  IsFiniteSet(hs) /\ Cardinality(hs) + Cardinality(ws) <= Cardinality(Requests)
    <3>1. hs \in SUBSET LiveFor(m) /\ ws \in SUBSET ReservingFor(m)
      BY <1>0, <1>2, <2>2 DEF LiveFor, ReservingFor
    <3>2. Clash(hs, ws)
      BY <1>0, <1>2, <2>2 DEF Clash
    <3> QED
      BY <3>1, <3>2 DEF MemberBound
  <2> QED
    BY <1>0, <2>1, <2>2, BecomesLive
<1> QED
  BY <1>0, <1>1, <1>2, ReachesReserve

(* Live holds of one member that overlap never outnumber the requests.     *)
THEOREM HoldsOfOneBounded ==
  ASSUME IsFiniteSet(Requests) PROVE Spec => [](\A m \in Staff \cup {NoStaff} : MemberBound(m))
<1> DEFINE I == \A m \in Staff \cup {NoStaff} : MemberBound(m)
<1>1. Init => I
  BY MemberBoundInit
<1>2. TypeOK /\ I /\ [Next]_vars => I'
  BY MemberBoundStep
<1> HIDE DEF I
<1>3. Spec => []I
  BY <1>1, <1>2, TypeInvariant, PTL DEF Spec
<1> QED
  BY <1>3 DEF I

(* The widget with the jobs is a part of everything at once. *)
LEMMA WidgetIsPart == WidgetSpec => Spec
<1>1. [Widget \/ Jobs]_vars => [Next]_vars
  BY DEF Next
<1> QED
  BY <1>1, PTL DEF WidgetSpec, Spec

(* Without staff every hold is of no one, so live holds that overlap never *)
(* outnumber the requests.                                                 *)
THEOREM OverlapsAreBounded ==
  ASSUME IsFiniteSet(Requests), Staff = {}
  PROVE  Spec \/ WidgetSpec => []OverlappingHoldsBounded
<1>1. ASSUME TypeOK, MemberBound(NoStaff) PROVE OverlappingHoldsBounded
  <2> SUFFICES ASSUME NEW hs \in SUBSET {h \in Holds : LiveHold(h)},
                      \A g, h \in hs : Overlap(hSlot[g], hSlot[h])
               PROVE  Cardinality(hs) <= Cardinality(Requests)
    BY DEF OverlappingHoldsBounded
  <2>1. hs \in SUBSET LiveFor(NoStaff)
    BY <1>1 DEF LiveFor, TypeOK, RowsOK, HoldsOK
  <2>2. IsFiniteSet(hs) /\ Cardinality(hs) + Cardinality({}) <= Cardinality(Requests)
    BY <1>1, <2>1 DEF MemberBound, Clash
  <2>3. Cardinality({}) = 0 /\ Cardinality(hs) \in Nat /\ Cardinality(Requests) \in Nat
    BY <2>2, FS_CardinalityType, FS_EmptySet
  <2> QED
    BY <2>2, <2>3
<1>2. TypeOK /\ (\A m \in Staff \cup {NoStaff} : MemberBound(m)) => OverlappingHoldsBounded
  BY <1>1
<1> QED
  BY <1>2, HoldsOfOneBounded, TypeInvariant, WidgetIsPart, PTL
=============================================================================
