----------------------- MODULE BookingLifecycle_proofs -----------------------
(***************************************************************************)
(* Theorems of BookingLifecycle, for any number of requests in flight and  *)
(* any limit on moves.                                                     *)
(***************************************************************************)
EXTENDS BookingLifecycle, FiniteSetTheorems, TLAPS

(* What a request is about to write comes from a handler that accepted the *)
(* status it read.                                                         *)
Justified ==
  \A w \in Requests : req[w].at = "status.write" =>
    \E h \in Handlers :
      req[w].read \in h.from /\ req[w].to = h.to /\ req[w].stamp = h.stamp

Inv == TypeOK /\ Justified /\ ArrivedIsCheckedIn

(* Every handler writes a status that follows those it accepts, and stamps *)
(* what goes with it.                                                      *)
LEMMA HandlerOK ==
  ASSUME NEW h \in Handlers
  PROVE  /\ h.from \subseteq BookingStatus
         /\ h.to \in BookingStatus
         /\ h.stamp \in {"same", "NO_SHOW", "CHECKED_IN"}
         /\ h.to = "IN_PROGRESS" => h.stamp = "CHECKED_IN"
         /\ h.stamp = "NO_SHOW" => h.to = "NO_SHOW"
         /\ \A from \in h.from : h.to \in Follows(from)
<1> USE DEF Validated, ValidTransitions, BookingStatus, Follows
<1>1. CASE h = Confirm         BY <1>1 DEF Confirm
<1>2. CASE h = Cancel          BY <1>2 DEF Cancel
<1>3. CASE h = MarkNoShow      BY <1>3 DEF MarkNoShow
<1>4. CASE h = MarkArrived     BY <1>4 DEF MarkArrived
<1>5. CASE h = MarkCompleted   BY <1>5 DEF MarkCompleted
<1>6. CASE h = CancelBooking   BY <1>6 DEF CancelBooking
<1>7. CASE h = PaymentSuccess  BY <1>7 DEF PaymentSuccess
<1>8. CASE h = ApprovalDeadline BY <1>8 DEF ApprovalDeadline
<1>9. CASE h = PaymentDeadline BY <1>9 DEF PaymentDeadline
<1> QED BY <1>1, <1>2, <1>3, <1>4, <1>5, <1>6, <1>7, <1>8, <1>9 DEF Handlers

-----------------------------------------------------------------------------
(* The request's own state. *)

LEMMA BeginOK ==
  ASSUME Inv, NEW w \in Requests, NEW local \in Request, Begin(w, local),
         local.at = "status.write" =>
           \E h \in Handlers :
             local.read \in h.from /\ local.to = h.to /\ local.stamp = h.stamp
  PROVE  req' \in [Requests -> Request] /\ Justified'
BY DEF Inv, TypeOK, Justified, Begin

LEMMA GotoOK ==
  ASSUME Inv, NEW w \in Requests, NEW point \in Points \ {"status.write"}, Goto(w, point)
  PROVE  req' \in [Requests -> Request] /\ Justified' /\ req'[w].at = point
BY DEF Inv, TypeOK, Justified, Goto, Request

LEMMA EndOK ==
  ASSUME Inv, NEW w \in Requests, End(w)
  PROVE  req' \in [Requests -> Request] /\ Justified' /\ req'[w] = Idle
BY DEF Inv, TypeOK, Justified, End, Request, Idle, Points

LEMMA InitInv == Init => Inv
BY DEF Init, Inv, TypeOK, Justified, ArrivedIsCheckedIn, Idle, Request, Points, BookingStatus,
       CheckInStatus, Phases, JobPoints

-----------------------------------------------------------------------------
(* Each action preserves the invariant. *)

LEMMA StatusInv ==
  ASSUME Inv, NEW w \in Requests,
         (\E h \in Handlers : StatusRead(w, h)) \/ StatusWrite(w)
  PROVE  Inv'
<1>1. ASSUME NEW h \in Handlers, StatusRead(w, h) PROVE Inv'
  <2> DEFINE local == [at |-> "status.write", read |-> status, to |-> h.to, stamp |-> h.stamp]
  <2>1. local \in Request
    BY <1>1, HandlerOK DEF Inv, TypeOK, Request, Points, CheckInStatus
  <2>2. req' \in [Requests -> Request] /\ Justified'
    <3>1. Begin(w, local)  BY <1>1 DEF StatusRead
    <3>2. local.read \in h.from /\ local.to = h.to /\ local.stamp = h.stamp
      BY <1>1 DEF StatusRead
    <3> QED BY <1>1, <2>1, <3>1, <3>2, BeginOK
  <2> QED BY <1>1, <2>2 DEF Inv, TypeOK, ArrivedIsCheckedIn, StatusRead, row, time
<1>2. ASSUME StatusWrite(w) PROVE Inv'
  <2>1. PICK h \in Handlers :
          req[w].read \in h.from /\ req[w].to = h.to /\ req[w].stamp = h.stamp
    BY <1>2 DEF Inv, Justified, StatusWrite
  <2>2. req' \in [Requests -> Request] /\ Justified'
    BY <1>2, EndOK DEF StatusWrite
  <2>3. status' \in BookingStatus /\ last' \in BookingStatus /\ checkIn' \in CheckInStatus
    BY <1>2, <2>1, HandlerOK DEF Inv, TypeOK, StatusWrite, CheckInStatus
  <2>4. ArrivedIsCheckedIn'
    BY <1>2, <2>1, HandlerOK DEF StatusWrite, ArrivedIsCheckedIn
  <2> QED BY <1>2, <2>2, <2>3, <2>4 DEF Inv, TypeOK, StatusWrite, time
<1> QED BY <1>1, <1>2

LEMMA CheckInInv ==
  ASSUME Inv, NEW w \in Requests,
         CheckInRead(w) \/ CheckInWrite(w) \/ CheckOutRead(w) \/ CheckOutWrite(w)
  PROVE  Inv'
<1>1. ASSUME CheckInRead(w) \/ CheckOutRead(w) PROVE Inv'
  <2>1. PICK point \in {"checkIn.write", "checkOut.write"} :
          Begin(w, [Idle EXCEPT !.at = point, !.read = status])
    BY <1>1 DEF CheckInRead, CheckOutRead
  <2>2. [Idle EXCEPT !.at = point, !.read = status] \in Request
    BY DEF Inv, TypeOK, Idle, Request, Points
  <2>3. [Idle EXCEPT !.at = point, !.read = status].at # "status.write"
    BY DEF Idle
  <2>4. req' \in [Requests -> Request] /\ Justified'
    BY <2>1, <2>2, <2>3, BeginOK
  <2> QED BY <1>1, <2>4 DEF Inv, TypeOK, ArrivedIsCheckedIn, CheckInRead, CheckOutRead, row, time
<1>2. ASSUME CheckInWrite(w) \/ CheckOutWrite(w) PROVE Inv'
  <2>1. req' \in [Requests -> Request] /\ Justified'
    BY <1>2, EndOK DEF CheckInWrite, CheckOutWrite
  <2> QED BY <1>2, <2>1 DEF Inv, TypeOK, ArrivedIsCheckedIn, CheckInWrite, CheckOutWrite,
                            CheckInStatus, time
<1> QED BY <1>1, <1>2

LEMMA MoveInv ==
  ASSUME Inv, NEW w \in Requests,
         \/ RescheduleRead(w) \/ PortalRead(w) \/ PortalCount(w)
         \/ \E when \in Phases : RescheduleCommit(w, when)
         \/ PortalRow(w) \/ PortalTimes(w) \/ RequestDies(w)
  PROVE  Inv'
<1>1. ASSUME RescheduleRead(w) \/ PortalRead(w) PROVE Inv'
  <2>1. PICK point \in {"move.commit", "portal.count"} :
          Begin(w, [Idle EXCEPT !.at = point, !.read = status])
    BY <1>1 DEF RescheduleRead, PortalRead
  <2>2. [Idle EXCEPT !.at = point, !.read = status] \in Request
    BY DEF Inv, TypeOK, Idle, Request, Points
  <2>3. [Idle EXCEPT !.at = point, !.read = status].at # "status.write"
    BY DEF Idle
  <2>4. req' \in [Requests -> Request] /\ Justified'
    BY <2>1, <2>2, <2>3, BeginOK
  <2> QED BY <1>1, <2>4 DEF Inv, TypeOK, ArrivedIsCheckedIn, RescheduleRead, PortalRead, row, time
<1>2. ASSUME PortalCount(w) PROVE Inv'
  <2>1. req' \in [Requests -> Request] /\ Justified'
    BY <1>2, EndOK, GotoOK DEF PortalCount, Points
  <2> QED BY <1>2, <2>1 DEF Inv, TypeOK, ArrivedIsCheckedIn, PortalCount, row, time
<1>3. ASSUME NEW when \in Phases, RescheduleCommit(w, when) PROVE Inv'
  <2>1. req' \in [Requests -> Request] /\ Justified'
    BY <1>3, EndOK DEF RescheduleCommit
  <2>2. last' \in BookingStatus \cup {"NONE"} /\ moveRows' \in [{"desk", "client"} -> Nat]
    BY <1>3 DEF RescheduleCommit, AddMoveRow, Inv, TypeOK, Request
  <2> QED BY <1>3, <2>1, <2>2 DEF Inv, TypeOK, ArrivedIsCheckedIn, RescheduleCommit, row
<1>4. ASSUME PortalRow(w) PROVE Inv'
  <2>1. req' \in [Requests -> Request] /\ Justified'
    BY <1>4, GotoOK DEF PortalRow, Points
  <2>2. last' \in BookingStatus \cup {"NONE"} /\ moveRows' \in [{"desk", "client"} -> Nat]
    BY <1>4 DEF PortalRow, AddMoveRow, Inv, TypeOK, Request
  <2> QED BY <1>4, <2>1, <2>2 DEF Inv, TypeOK, ArrivedIsCheckedIn, PortalRow, row
<1>5. ASSUME PortalTimes(w) \/ RequestDies(w) PROVE Inv'
  <2>1. req' \in [Requests -> Request] /\ Justified'
    BY <1>5, EndOK DEF PortalTimes, RequestDies
  <2> QED BY <1>5, <2>1 DEF Inv, TypeOK, ArrivedIsCheckedIn, PortalTimes, RequestDies,
                            Phases, row, time
<1> QED BY <1>1, <1>2, <1>3, <1>4, <1>5

LEMMA JobInv ==
  ASSUME Inv, Job \/ JobDies \/ TimePasses
  PROVE  Inv'
<1>1. ASSUME req' = req PROVE Justified'
  BY <1>1 DEF Inv, Justified
<1>2. CASE NoShowRead \/ CompletedRead \/ JobDies
  BY <1>1, <1>2 DEF Inv, TypeOK, ArrivedIsCheckedIn, NoShowRead, CompletedRead, JobDies, JobGoes,
                    JobPoints, row, time
<1>3. CASE NoShowWrite
  BY <1>1, <1>3 DEF Inv, TypeOK, ArrivedIsCheckedIn, NoShowWrite, JobGoes, JobPoints,
                    CheckInStatus, time
<1>4. CASE CompletedWrite
  BY <1>1, <1>4 DEF Inv, TypeOK, ArrivedIsCheckedIn, CompletedWrite, JobGoes, JobPoints,
                    BookingStatus, time
<1>5. CASE TimePasses
  BY <1>1, <1>5 DEF Inv, TypeOK, ArrivedIsCheckedIn, TimePasses, Phases, row
<1> QED BY <1>2, <1>3, <1>4, <1>5 DEF Job

LEMMA StepInv == Inv /\ [Next]_vars => Inv'
<1> SUFFICES ASSUME Inv, [Next]_vars PROVE Inv'  OBVIOUS
<1>1. ASSUME NEW w \in Requests, Handle(w) PROVE Inv'
  BY <1>1, StatusInv, CheckInInv, MoveInv DEF Handle
<1>2. CASE UNCHANGED vars
  BY <1>2 DEF Inv, TypeOK, Justified, ArrivedIsCheckedIn, vars, row, time
<1> QED BY <1>1, <1>2, JobInv DEF Next

-----------------------------------------------------------------------------
(* Every variable keeps to its type: TypeOK holds in every state, however   *)
(* many handlers of the booking are in flight.                              *)
THEOREM BookingTypes == Spec => []TypeOK
<1>1. Inv => TypeOK  BY DEF Inv
<1> QED BY <1>1, InitInv, StepInv, PTL DEF Spec

(* Whatever handlers and jobs overlap, a booking that is IN_PROGRESS has a  *)
(* client who checked in: ArrivedIsCheckedIn.                               *)
THEOREM Arrived == Spec => []ArrivedIsCheckedIn
<1>1. Inv => ArrivedIsCheckedIn  BY DEF Inv
<1> QED BY <1>1, InitInv, StepInv, PTL DEF Spec

-----------------------------------------------------------------------------
(* The rules. *)

(* A request that writes on a status that has not changed keeps the rules. *)
LEMMA HandleRules ==
  ASSUME Inv, NEW w \in Requests, Handle(w), ~Stale(w) \/ req'[w] = req[w]
  PROVE  status' \in Follows(status) \cup {status} /\ last' \in {last, status'}
<1>1. ASSUME NEW h \in Handlers, StatusRead(w, h) PROVE status' = status /\ last' = last
  BY <1>1 DEF StatusRead, row
<1>2. CASE StatusWrite(w)
  <2>1. PICK h \in Handlers : req[w].read \in h.from /\ req[w].to = h.to
    BY <1>2 DEF Inv, Justified, StatusWrite
  <2>2. req[w].at # "idle" /\ req'[w] # req[w]
    BY <1>2 DEF StatusWrite, End, Idle, Inv, TypeOK
  <2>3. req[w].read = status
    BY <2>2 DEF Stale
  <2> QED BY <1>2, <2>1, <2>3, HandlerOK DEF StatusWrite
<1>3. CASE CheckInRead(w) \/ CheckInWrite(w) \/ CheckOutRead(w) \/ CheckOutWrite(w)
  BY <1>3 DEF CheckInRead, CheckInWrite, CheckOutRead, CheckOutWrite, row
<1>4. CASE RescheduleRead(w) \/ PortalRead(w) \/ PortalCount(w) \/ PortalTimes(w) \/ RequestDies(w)
  BY <1>4 DEF RescheduleRead, PortalRead, PortalCount, PortalTimes, RequestDies, row
<1>5. CASE PortalRow(w) \/ \E when \in Phases : RescheduleCommit(w, when)
  <2>1. req[w].at \in {"portal.row", "move.commit"} /\ last' = req[w].read /\ status' = status
    BY <1>5 DEF PortalRow, RescheduleCommit, AddMoveRow, row
  <2>2. req'[w] # req[w]
    BY <1>5 DEF PortalRow, RescheduleCommit, Goto, End, Idle, Inv, TypeOK, Request
  <2> QED BY <2>1, <2>2 DEF Stale
<1> QED BY <1>1, <1>2, <1>3, <1>4, <1>5 DEF Handle

(* A status changes as the documentation has it, and the history agrees,    *)
(* unless the writer's read is stale: RulesUnlessStale, the bound on what   *)
(* the handlers' unguarded updates can do.                                  *)
THEOREM Rules == Spec => RulesUnlessStale
<1> DEFINE ActedStale    == \E w \in Requests : Stale(w) /\ req'[w] # req[w]
           JobActedStale == job = "completed.write" /\ job' # job /\ status # "CONFIRMED"
           Kept == /\ ActedStale \/ status' \in Follows(status) \cup {status}
                   /\ ActedStale \/ JobActedStale \/ last' \in {last, status'}
<1>1. ASSUME Inv, [Next]_vars PROVE [Kept]_vars
  <2>1. ASSUME NEW w \in Requests, Handle(w) PROVE Kept
    BY <1>1, <2>1, HandleRules
  <2>2. CASE NoShowRead \/ NoShowWrite \/ CompletedRead \/ JobDies \/ TimePasses
    BY <2>2 DEF NoShowRead, NoShowWrite, CompletedRead, JobDies, TimePasses, row
  <2>3. CASE CompletedWrite
    BY <2>3 DEF CompletedWrite, JobGoes, Follows
  <2> QED BY <1>1, <2>1, <2>2, <2>3 DEF Next, Job
<1> QED BY <1>1, InitInv, StepInv, PTL DEF Spec, RulesUnlessStale

-----------------------------------------------------------------------------
(* The limits on moves.  A request that has passed a check counts as a move *)
(* already: with it the moves stay within the limit and what the others in  *)
(* flight may add.                                                          *)

Passed(point) == {w \in Requests : req[w].at = point}

Counted ==
  /\ moves + Cardinality(Passed("move.commit")) < MaxMoves + Cardinality(Requests)
  /\ moveRows["client"] + Cardinality(Passed("portal.row")) < MaxMoves + Cardinality(Requests)

LEMMA PassedSize ==
  ASSUME NEW point
  PROVE  /\ IsFiniteSet(Passed(point)) /\ Cardinality(Passed(point)) \in Nat
         /\ Cardinality(Passed(point)) <= Cardinality(Requests)
         /\ Cardinality(Requests) \in Nat /\ Cardinality(Requests) > 0
<1>1. Passed(point) \subseteq Requests
  BY DEF Passed
<1> QED
  BY <1>1, RequestsAreFinite, FS_Subset, FS_CardinalityType, FS_EmptySet

(* A request that leaves a point is one less that has passed the check. *)
LEMMA PassedLeaves ==
  ASSUME Inv, NEW w \in Requests, NEW point, req[w].at = point, req'[w].at # point,
         \A v \in Requests \ {w} : req'[v] = req[v]
  PROVE  Cardinality(Passed(point)') = Cardinality(Passed(point)) - 1
<1>1. w \in Passed(point) /\ Passed(point)' = Passed(point) \ {w}
  BY DEF Passed
<1> QED BY <1>1, PassedSize, FS_RemoveElement

(* Any other step takes no one to the point. *)
LEMMA PassedShrinks ==
  ASSUME NEW point, \A v \in Requests : req'[v].at = point => req[v].at = point
  PROVE  Cardinality(Passed(point)') \in Nat /\ Cardinality(Passed(point)') <= Cardinality(Passed(point))
<1>1. Passed(point)' \subseteq Passed(point)
  BY DEF Passed
<1> QED BY <1>1, PassedSize, FS_Subset, FS_CardinalityType

LEMMA PassedSizeNext ==
  ASSUME NEW point
  PROVE  /\ Cardinality(Passed(point)') \in Nat
         /\ Cardinality(Passed(point)') <= Cardinality(Requests)
         /\ Cardinality(Requests) \in Nat
<1>1. Passed(point)' \subseteq Requests
  BY DEF Passed
<1> QED BY <1>1, RequestsAreFinite, FS_Subset, FS_CardinalityType

LEMMA InitCounted == Init => Counted
<1> SUFFICES ASSUME Init PROVE Counted  OBVIOUS
<1>1. Passed("move.commit") = {} /\ Passed("portal.row") = {}
  BY DEF Passed, Init, Idle
<1> QED BY <1>1, PassedSize, FS_EmptySet, MaxMovesIsNat DEF Counted, Init

(* A check of a limit bounds what has passed it by all that are in flight. *)
LEMMA CheckCounted ==
  ASSUME Inv, Counted, NEW w \in Requests, RescheduleRead(w) \/ PortalCount(w)
  PROVE  Counted'
<1>1. CASE RescheduleRead(w)
  <2>1. req' = [req EXCEPT ![w] = [Idle EXCEPT !.at = "move.commit", !.read = status]]
    BY <1>1 DEF RescheduleRead, Begin
  <2>2. \A v \in Requests : req'[v].at = "portal.row" => req[v].at = "portal.row"
    BY <2>1 DEF Inv, TypeOK, Idle
  <2>3. moves < MaxMoves /\ moves' = moves /\ moveRows' = moveRows
    BY <1>1 DEF RescheduleRead, time
  <2>4. moves \in Nat /\ moveRows["client"] \in Nat
    BY DEF Inv, TypeOK
  <2>5. moves' + Cardinality(Passed("move.commit")') < MaxMoves + Cardinality(Requests)
    <3>1. /\ Cardinality(Passed("move.commit")') \in Nat
          /\ Cardinality(Passed("move.commit")') <= Cardinality(Requests)
          /\ Cardinality(Requests) \in Nat
      BY PassedSizeNext
    <3> QED BY <3>1, <2>3, <2>4, MaxMovesIsNat
  <2>6. moveRows'["client"] + Cardinality(Passed("portal.row")') < MaxMoves + Cardinality(Requests)
    BY <2>2, <2>3, <2>4, PassedShrinks, PassedSize, MaxMovesIsNat DEF Counted
  <2> QED BY <2>5, <2>6 DEF Counted
<1>2. CASE PortalCount(w)
  <2>1. \A v \in Requests : req'[v].at = "move.commit" => req[v].at = "move.commit"
    BY <1>2 DEF PortalCount, End, Goto, Idle, Inv, TypeOK, Request
  <2>2. moves' = moves /\ moveRows' = moveRows
    BY <1>2 DEF PortalCount, time
  <2>3. moves \in Nat /\ moveRows["client"] \in Nat /\ moveRows["desk"] \in Nat
    BY DEF Inv, TypeOK
  <2>4. moves' + Cardinality(Passed("move.commit")') < MaxMoves + Cardinality(Requests)
    BY <2>1, <2>2, <2>3, PassedShrinks, PassedSize, MaxMovesIsNat DEF Counted
  <2>5. moveRows'["client"] + Cardinality(Passed("portal.row")') < MaxMoves + Cardinality(Requests)
    <3>1. CASE moveRows["desk"] + moveRows["client"] >= MaxMoves
      <4>1. \A v \in Requests : req'[v].at = "portal.row" => req[v].at = "portal.row"
        BY <1>2, <3>1 DEF PortalCount, End, Idle, Inv, TypeOK
      <4> QED BY <4>1, <2>2, <2>3, PassedShrinks, PassedSize, MaxMovesIsNat DEF Counted
    <3>2. CASE ~(moveRows["desk"] + moveRows["client"] >= MaxMoves)
      <4>1. moveRows["client"] < MaxMoves
        BY <3>2, <2>3, MaxMovesIsNat
      <4>2. /\ Cardinality(Passed("portal.row")') \in Nat
            /\ Cardinality(Passed("portal.row")') <= Cardinality(Requests)
            /\ Cardinality(Requests) \in Nat
        BY PassedSizeNext
      <4> QED BY <4>1, <4>2, <2>2, <2>3, MaxMovesIsNat
    <3> QED BY <3>1, <3>2
  <2> QED BY <2>4, <2>5 DEF Counted
<1> QED BY <1>1, <1>2

(* A move that is written was counted already. *)
LEMMA WriteCounted ==
  ASSUME Inv, Counted, NEW w \in Requests,
         PortalRow(w) \/ \E when \in Phases : RescheduleCommit(w, when)
  PROVE  Counted'
<1>0. moves \in Nat /\ moveRows["client"] \in Nat /\ moveRows \in [{"desk", "client"} -> Nat]
  BY DEF Inv, TypeOK
<1>1. ASSUME NEW when \in Phases, RescheduleCommit(w, when) PROVE Counted'
  <2>1. /\ req[w].at = "move.commit" /\ req'[w].at # "move.commit"
        /\ \A v \in Requests \ {w} : req'[v] = req[v]
        /\ \A v \in Requests : req'[v].at = "portal.row" => req[v].at = "portal.row"
    BY <1>1 DEF RescheduleCommit, End, Idle, Inv, TypeOK
  <2>2. moves' = moves + 1 /\ moveRows'["client"] = moveRows["client"]
    BY <1>1, <1>0 DEF RescheduleCommit, AddMoveRow
  <2>3. Cardinality(Passed("move.commit")') = Cardinality(Passed("move.commit")) - 1
    BY <2>1, PassedLeaves
  <2> QED BY <1>0, <2>1, <2>2, <2>3, PassedShrinks, PassedSize, MaxMovesIsNat DEF Counted
<1>2. CASE PortalRow(w)
  <2>1. /\ req[w].at = "portal.row" /\ req'[w].at # "portal.row"
        /\ \A v \in Requests \ {w} : req'[v] = req[v]
        /\ \A v \in Requests : req'[v].at = "move.commit" => req[v].at = "move.commit"
    BY <1>2 DEF PortalRow, Goto, Inv, TypeOK, Request
  <2>2. moves' = moves /\ moveRows'["client"] \in {moveRows["client"], moveRows["client"] + 1}
    BY <1>2, <1>0 DEF PortalRow, AddMoveRow
  <2>3. Cardinality(Passed("portal.row")') = Cardinality(Passed("portal.row")) - 1
    BY <2>1, PassedLeaves
  <2> QED BY <1>0, <2>1, <2>2, <2>3, PassedShrinks, PassedSize, MaxMovesIsNat DEF Counted
<1> QED BY <1>1, <1>2

(* The other steps neither check a limit nor count a move. *)
LEMMA RestCounted ==
  ASSUME Inv, Counted, moves' = moves, moveRows' = moveRows,
         \A v \in Requests, point \in {"move.commit", "portal.row"} :
           req'[v].at = point => req[v].at = point
  PROVE  Counted'
<1>1. moves \in Nat /\ moveRows["client"] \in Nat
  BY DEF Inv, TypeOK
<1> QED BY <1>1, PassedShrinks, PassedSize, MaxMovesIsNat DEF Counted

LEMMA StepCounted == Inv /\ Counted /\ [Next]_vars => Counted'
<1> SUFFICES ASSUME Inv, Counted, [Next]_vars PROVE Counted'  OBVIOUS
<1>1. ASSUME NEW w \in Requests, Handle(w) PROVE Counted'
  <2>1. ASSUME NEW h \in Handlers, StatusRead(w, h) PROVE Counted'
    BY <2>1, RestCounted DEF StatusRead, Begin, Inv, TypeOK, time
  <2>2. CASE StatusWrite(w) \/ CheckInWrite(w) \/ CheckOutWrite(w) \/ PortalTimes(w) \/ RequestDies(w)
    BY <2>2, RestCounted DEF StatusWrite, CheckInWrite, CheckOutWrite, PortalTimes, RequestDies,
                             End, Idle, Inv, TypeOK, time
  <2>3. CASE CheckInRead(w) \/ CheckOutRead(w) \/ PortalRead(w)
    BY <2>3, RestCounted DEF CheckInRead, CheckOutRead, PortalRead, Begin, Idle, Inv, TypeOK, time
  <2> QED BY <1>1, <2>1, <2>2, <2>3, CheckCounted, WriteCounted DEF Handle
<1>2. CASE Job \/ JobDies \/ TimePasses \/ UNCHANGED vars
  BY <1>2, RestCounted DEF Job, NoShowRead, NoShowWrite, CompletedRead, CompletedWrite, JobDies,
                           TimePasses, vars, time
<1> QED BY <1>1, <1>2 DEF Next

(* Requests that are in flight together exceed a limit on moves by no more *)
(* than the others: MovesBounded.                                          *)
THEOREM MovesStayBounded == Spec => []MovesBounded
<1>1. Inv /\ Counted => MovesBounded
  BY PassedSize, MaxMovesIsNat DEF Inv, TypeOK, Counted, MovesBounded
<1> QED BY <1>1, InitInv, StepInv, InitCounted, StepCounted, PTL DEF Spec
=============================================================================
