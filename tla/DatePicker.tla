---------------------------- MODULE DatePicker ----------------------------
(***************************************************************************)
(* The date and time step of the booking wizard: a day is selected, its    *)
(* free times are fetched and polled, the answers come in any order, and a *)
(* time is reserved.  A listing is the set of times an answer holds; the   *)
(* key that polling compares is the listing itself.                        *)
(***************************************************************************)
EXTENDS Naturals, FiniteSets

CONSTANTS
  Dates,       \* days, as numbers
  Hours,       \* the times of a day that may be free
  None,        \* null
  MaxFetches,  \* bound: requests for listings under way at once
  MaxPicks,    \* bound: what the client does before being content
  MaxChanges   \* bound: times taken or freed by others

DatesAssumption == Dates \subseteq Nat /\ None \notin Dates /\ None # "asked"

Times == [date : Dates, hour : Hours]

VARIABLES
  free,      \* at the server: the times that can be reserved
  selected,  \* selectedDate
  slots,     \* timeSlots, shown under the heading of the selected date
  prevKey,   \* prevSlotsRef
  loading, error,
  fetches,   \* requests for a day's listing under way
  next,      \* "Next Available" under way: None, "asked", "answered"
  effect,    \* the effect of a new selection has still to run
  chosen,    \* the time that was reserved
  picks, changes

shown == <<selected, slots, prevKey, loading, error>>
vars == <<free, shown, fetches, next, effect, chosen, picks, changes>>

Listing(d) == {x \in free : x.date = d}

Init ==
  /\ free \in SUBSET Times
  /\ selected = None /\ slots = {} /\ prevKey = {} /\ loading = FALSE /\ error = "none"
  /\ fetches = {} /\ next = None /\ effect = FALSE /\ chosen = None
  /\ picks = 0 /\ changes = 0

Choosing == chosen = None
Room == Cardinality(fetches) < MaxFetches
Picks == Room /\ picks < MaxPicks /\ picks' = picks + 1
-----------------------------------------------------------------------------
(* fetchTimeSlots(date, silent): a fetch that is not silent clears the     *)
(* list and the message, not the key.                                      *)
Asks(d, silent) == fetches' = fetches \cup {[date |-> d, silent |-> silent, answer |-> None]}
FetchLoudly(d) ==
  /\ Asks(d, FALSE)
  /\ loading' = TRUE /\ error' = "none" /\ slots' = {}

(* A click selects, and its effect runs at once. *)
selectDate(d) ==
  /\ Choosing /\ Picks /\ ~effect
  /\ selected' = d /\ FetchLoudly(d)
  /\ UNCHANGED <<free, prevKey, next, effect, chosen, changes>>

Retry ==
  /\ Choosing /\ Picks /\ ~effect /\ error # "none" /\ selected # None
  /\ FetchLoudly(selected)
  /\ UNCHANGED <<free, selected, prevKey, next, effect, chosen, changes>>

(* Every thirty seconds. *)
Poll ==
  /\ Choosing /\ ~effect /\ selected # None
  /\ Room /\ Asks(selected, TRUE)
  /\ UNCHANGED <<free, shown, next, effect, chosen, picks, changes>>

(* The server looks the day up at one moment; the answer arrives later.    *)
Served(f) ==
  /\ f.answer = None
  /\ fetches' = (fetches \ {f}) \cup {[f EXCEPT !.answer = Listing(f.date)]}
  /\ UNCHANGED <<free, shown, next, effect, chosen, picks, changes>>

Answered(f) ==
  /\ f.answer # None /\ ~effect
  /\ fetches' = fetches \ {f}
  /\ slots' = IF f.silent /\ f.answer = prevKey THEN slots ELSE f.answer
  /\ prevKey' = f.answer
  /\ loading' = IF f.silent THEN loading ELSE FALSE
  /\ UNCHANGED <<free, selected, error, next, effect, chosen, picks, changes>>

(* A poll that fails says nothing. *)
Fails(f) ==
  /\ ~effect
  /\ fetches' = fetches \ {f}
  /\ IF f.silent THEN UNCHANGED <<error, loading>> ELSE error' = "load" /\ loading' = FALSE
  /\ UNCHANGED <<free, selected, slots, prevKey, next, effect, chosen, picks, changes>>
-----------------------------------------------------------------------------
(* "Next Available": the answer selects its day and fills the list; the    *)
(* effect of the new selection runs after that was shown.                  *)
handleNextAvailable ==
  /\ Choosing /\ Picks /\ ~effect /\ next = None
  /\ next' = "asked" /\ error' = "none"
  /\ UNCHANGED <<free, selected, slots, prevKey, loading, fetches, effect, chosen, changes>>

NextDay == {d \in Dates : Listing(d) # {} /\ \A e \in Dates : e < d => Listing(e) = {}}

NextAnswered ==
  /\ next = "asked" /\ ~effect
  /\ next' = None
  /\ \/ \E d \in NextDay :
          /\ selected' = d /\ slots' = Listing(d) /\ prevKey' = Listing(d)
          /\ effect' = TRUE /\ UNCHANGED error
     \/ /\ error' = "next"
        /\ UNCHANGED <<selected, slots, prevKey, effect>>
  /\ UNCHANGED <<free, loading, fetches, chosen, picks, changes>>

EffectRuns ==
  /\ effect /\ effect' = FALSE
  /\ FetchLoudly(selected)
  /\ UNCHANGED <<free, selected, prevKey, next, chosen, picks, changes>>
-----------------------------------------------------------------------------
(* POST /reserve, answered at once here.  Refused with 409: a message, and *)
(* the day is fetched again, which clears the message.  Any other error is *)
(* a message.                                                              *)
Taken(x) == chosen' = x /\ free' = free \ {x} /\ UNCHANGED <<slots, loading, error, fetches>>
Failed == error' = "reserve" /\ UNCHANGED <<free, chosen, slots, loading, fetches>>
Enabled(x) == Choosing /\ Picks /\ ~effect /\ ~loading /\ error = "none" /\ x \in slots

\* Broken: refused, the list is cleared and the day is not fetched again.
reserveSlotIdle(x) ==
  /\ Enabled(x)
  /\ \/ x \in free /\ Taken(x)
     \/ x \notin free /\ slots' = {} /\ UNCHANGED <<free, chosen, loading, error, fetches>>
     \/ Failed
  /\ UNCHANGED <<selected, prevKey, next, effect, changes>>
reserveSlot(x) ==
  /\ Enabled(x)
  /\ \/ x \in free /\ Taken(x)
     \/ x \notin free /\ FetchLoudly(selected) /\ UNCHANGED <<free, chosen>>
     \/ Failed
  /\ UNCHANGED <<selected, prevKey, next, effect, changes>>

OthersChange ==
  \E x \in Times :
    /\ changes < MaxChanges /\ changes' = changes + 1
    /\ free' = IF x \in free THEN free \ {x} ELSE free \cup {x}
    /\ UNCHANGED <<shown, fetches, next, effect, chosen, picks>>

Client == (\E d \in Dates : selectDate(d)) \/ (\E x \in Times : reserveSlot(x)) \/ Retry \/ handleNextAvailable
FetchGoesOn(f) == Served(f) \/ Answered(f) \/ Fails(f)
Next == Client \/ Poll \/ (\E f \in fetches : FetchGoesOn(f)) \/ NextAnswered
        \/ EffectRuns \/ OthersChange

Spec == Init /\ [][Next]_vars

-----------------------------------------------------------------------------
(* The types of what the component keeps. *)
TypeOK ==
  /\ free \subseteq Times /\ slots \subseteq Times /\ prevKey \subseteq Times
  /\ selected \in Dates \cup {None}
  /\ loading \in BOOLEAN /\ effect \in BOOLEAN
  /\ error \in {"none", "load", "next", "reserve"}
  /\ \A f \in fetches : f.date \in Dates /\ f.silent \in BOOLEAN /\ (f.answer = None \/ f.answer \subseteq Times)
  /\ next \in {None, "asked"}
  /\ chosen \in Times \cup {None}

(* What polling compares with is what is listed, or the list was cleared   *)
(* and somebody is still to fill it: a poll that finds nothing new leaves  *)
(* nothing stale (date-time-picker-step.tsx, prevSlotsRef).                *)
ListIsKey ==
  \/ slots = prevKey
  \/ slots = {} /\ (error # "none" \/ effect \/ next # None \/ \E f \in fetches : ~f.silent)

(* "Available times for" a date lists times of that date. *)
HeadingIsRight == ~loading /\ error = "none" => \A x \in slots : x.date = selected

(* A refused reservation is followed by its message. *)
RefusalIsTold ==
  [][\A x \in slots : reserveSlot(x) /\ chosen' = None => error' # "none"]_vars

(* The list that "Next Available" brings is not taken off the page again.  *)
NoFlicker == [][EffectRuns => slots' = slots]_vars
=============================================================================
