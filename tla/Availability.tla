---------------------------- MODULE Availability ----------------------------
(***************************************************************************)
(* Which slots of one service a day offers, and what a client can then hold. *)
(*                                                                         *)
(* AvailabilityService cuts the day's rules into slots and drops those that   *)
(* meet a booking, a hold or an event of an external calendar; the page shows  *)
(* the rest; ReservationService later checks a chosen slot by rules of its     *)
(* own.  Times are steps of the day, one step for the grain of the rules.     *)
(***************************************************************************)
EXTENDS Naturals, FiniteSets

CONSTANTS
  DayEnd,      \* bound: last time of the day
  Duration, Before, After,  \* the service: its length and the buffers around it
  Venues,      \* venues of the tenant
  Staff,       \* members who offer the service
  None,        \* no venue, or no member
  Windows,     \* rules the tenant may have, [from, to, venue, own]: own for the service's
  FirstRules,  \* the rules at the start
  RulesMove,   \* whether staff add and remove rules
  Fresh,       \* whether clients choose from a page loaded after the last change
  MaxBusy      \* bound: what occupies the day at once

AvailabilityAssumption ==
  /\ {DayEnd, Before, After, MaxBusy} \subseteq Nat /\ Duration \in Nat \ {0}
  /\ None \notin Venues \cup Staff /\ FirstRules \subseteq Windows
  /\ Windows \subseteq [from: 0 .. DayEnd, to: 0 .. DayEnd, venue: Venues \cup {None}, own: BOOLEAN]
  /\ {RulesMove, Fresh} \subseteq BOOLEAN

VARIABLES
  rules,    \* active rules of the weekday
  blocked,  \* whether the date is blocked
  busy,     \* what occupies the day: [kind, start, end, venue, staff]
  page      \* what a client sees: [venue, staff, slots]

vars == <<rules, blocked, busy, page>>

Slot  == [start: 0 .. DayEnd + Before, end: 0 .. DayEnd + Before + Duration]
Kinds == {"booking", "hold", "calendar"}
Empty == [venue |-> None, staff |-> None, slots |-> {}]

TypeOK ==
  /\ rules \subseteq Windows /\ blocked \in BOOLEAN
  /\ busy \subseteq [kind: Kinds, start: 0 .. DayEnd, end: 0 .. DayEnd,
                     venue: Venues \cup {None}, staff: Staff \cup {None}]
  /\ page.venue \in Venues \cup {None} /\ page.staff \in Staff \cup {None} /\ page.slots \subseteq Slot

Init == rules = FirstRules /\ blocked = FALSE /\ busy = {} /\ page = Empty

-----------------------------------------------------------------------------
Meets(a, b) == a.start < b.end /\ a.end > b.start

(* buildRulesByDay: the service's own rules replace those of the tenant.      *)
RulesFor(venue) ==
  LET own    == {r \in rules : r.own /\ (venue # None => r.venue = venue)}
      tenant == {r \in rules : ~r.own /\ (venue # None => r.venue \in {venue, None})}
  IN  IF own # {} THEN own ELSE tenant

(* Broken: calendars are left out.                                           *)
ConflictsNoCalendar(venue, staff) ==
  {b \in busy : /\ b.kind # "calendar" /\ (venue # None => b.venue = venue)
                /\ staff # None => b.staff = staff}

(* Bookings and holds count for the venue and the member asked for; an event   *)
(* of a calendar counts for its member, or for all.                           *)
Conflicts(venue, staff) ==
  {b \in busy : /\ b.kind # "calendar" /\ venue # None => b.venue = venue
                /\ staff # None => b.staff = staff}

(* generateSlotsForWindow: the buffer after a slot need not fit.              *)
generateSlotsForWindow(r) ==
  LET step == Before + Duration + After IN
  {[start |-> r.from + k * step + Before, end |-> r.from + k * step + Before + Duration] :
     k \in {k \in 0 .. DayEnd : r.from + k * step + Before + Duration <= r.to}}

(* Broken: holds are not asked for.                                          *)
OfferedDespiteHolds(venue, staff) ==
  IF blocked THEN {}
  ELSE {s \in UNION {generateSlotsForWindow(r) : r \in RulesFor(venue)} :
          \A b \in Conflicts(venue, staff) : b.kind # "hold" => ~Meets(s, b)}

(* getAvailableSlots.                                                        *)
Offered(venue, staff) ==
  IF blocked THEN {}
  ELSE {s \in UNION {generateSlotsForWindow(r) : r \in RulesFor(venue)} :
          \A b \in Conflicts(venue, staff) : ~Meets(s, b)}

(* reserveSlot: a member's slots if one is named, all otherwise; no venue and   *)
(* no calendar.                                                              *)
CanHold(s, staff) ==
  \A b \in busy : b.kind # "calendar" /\ (staff # None => b.staff = staff) => ~Meets(s, b)

-----------------------------------------------------------------------------
Load(venue, staff) ==
  /\ page' = [venue |-> venue, staff |-> staff, slots |-> Offered(venue, staff)]
  /\ UNCHANGED <<rules, blocked, busy>>

reserveSlot(s) ==
  /\ s \in page.slots /\ Cardinality(busy) < MaxBusy
  /\ Fresh => s \in Offered(page.venue, page.staff)
  /\ CanHold(s, page.staff)
  /\ busy' = busy \cup {[kind |-> "hold", start |-> s.start, end |-> s.end,
                         venue |-> page.venue, staff |-> page.staff]}
  /\ UNCHANGED <<rules, blocked, page>>

Confirm(b) ==
  /\ b.kind = "hold"
  /\ busy' = (busy \ {b}) \cup {[b EXCEPT !.kind = "booking"]}
  /\ UNCHANGED <<rules, blocked, page>>

Release(b) ==       \* a hold expires, a booking is cancelled, an event is removed
  /\ busy' = busy \ {b}
  /\ UNCHANGED <<rules, blocked, page>>

Import(start, end, staff) ==
  /\ start < end /\ Cardinality(busy) < MaxBusy
  /\ busy' = busy \cup {[kind |-> "calendar", start |-> start, end |-> end, venue |-> None, staff |-> staff]}
  /\ UNCHANGED <<rules, blocked, page>>

ChangeRule(r) ==    \* AvailabilityRulesService.create, update and remove
  /\ RulesMove
  /\ rules' = IF r \in rules THEN rules \ {r} ELSE rules \cup {r}
  /\ UNCHANGED <<blocked, busy, page>>

Block ==
  /\ blocked' = ~blocked
  /\ UNCHANGED <<rules, busy, page>>

Next ==
  \/ \E v \in Venues \cup {None}, m \in Staff \cup {None} : Load(v, m)
  \/ \E s \in page.slots : reserveSlot(s)
  \/ \E b \in busy : Confirm(b) \/ Release(b)
  \/ \E s, e \in 0 .. DayEnd, m \in Staff : Import(s, e, m)
  \/ \E r \in Windows : ChangeRule(r)
  \/ Block

Spec == Init /\ [][Next]_vars

-----------------------------------------------------------------------------
Taken == {b \in busy : b.kind # "calendar"}

(* A slot offered for a member, or for none, can be held at that moment: the   *)
(* two services agree on what is free (getAvailableSlots, reserveSlot).        *)
OfferedCanBeHeld ==
  \A v \in Venues \cup {None}, m \in Staff \cup {None} : \A s \in Offered(v, m) : CanHold(s, m)

(* Between two that are taken lies at least the buffer after the one and the   *)
(* buffer before the other (generateSlotsForWindow).                          *)
BuffersKept ==
  \A a, b \in Taken : a # b /\ a.staff = b.staff /\ a.start <= b.start => a.end + After + Before <= b.start

(* No two slots offered at once meet (generateSlotsForWindow).                *)
OfferedApart ==
  \A v \in Venues \cup {None} : \A s, t \in Offered(v, None) : s # t => ~Meets(s, t)

(* A slot has room for its buffers in the rule it is cut from.                *)
BuffersFit ==
  \A r \in rules : \A s \in generateSlotsForWindow(r) : s.start - Before >= r.from /\ s.end + After <= r.to

(* A slot is not held while an external calendar has an event there           *)
(* (reserveSlot).                                                            *)
ClearOfEvents ==
  \A b \in busy' \ busy : b.kind = "hold" =>
    \A e \in busy : e.kind = "calendar" /\ (b.staff # None => e.staff = b.staff) => ~Meets(b, e)
NotOverEvent == [][ClearOfEvents]_vars

(* A slot is not held on a date that is blocked (reserveSlot).                 *)
OnOpenDate == (\E b \in busy' \ busy : b.kind = "hold") => ~blocked
NotOnBlocked == [][OnOpenDate]_vars
=============================================================================
