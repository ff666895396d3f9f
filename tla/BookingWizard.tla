--------------------------- MODULE BookingWizard ---------------------------
(***************************************************************************)
(* The booking wizard of the public booking page: a browser tab that holds *)
(* a copy of its session, the session's row at the server, and the calls   *)
(* between the two, each of which may be answered late.                    *)
(*                                                                         *)
(* The slots do not overlap each other, all belong to one service, and     *)
(* Base is its price; one add-on, of price AddOn, may be chosen.           *)
(***************************************************************************)
EXTENDS Naturals, Sequences, FiniteSets

CONSTANTS
  Flows,        \* what services are set up with: [has, paid, preview]
  Slots,        \* times that can be reserved
  None,         \* JavaScript's undefined
  Base, AddOn,  \* prices
  Failures,     \* whether calls may fail or lose their answer
  MaxInFlight   \* bound: PATCHes (and, for a new hold, POSTs /reserve) under way at once

Optional == {"STAFF_SELECTION", "VENUE_SELECTION", "GUEST_COUNT", "QUESTIONNAIRE", "ADD_ONS"}
Flow == [has : SUBSET Optional, paid : BOOLEAN, preview : BOOLEAN]

(* The session's data: which answers it has, the slot and the total. *)
Data == [got : SUBSET (Optional \cup {"CLIENT_INFO"}), slot : Slots \cup {None},
         total : Nat \cup {None}]

WizardAssumption ==
  /\ Flows \subseteq Flow /\ {Base, AddOn} \subseteq Nat \ {0}
  /\ None \notin Slots \cup Nat /\ None \notin Data

VARIABLES
  flow,      \* the service's set-up
  srv,       \* the row: [step, data]
  held,      \* slots this session holds, not lapsed
  wasHeld,   \* slots it ever held (history)
  taken,     \* slots that others took
  bookings,  \* slots booked by this session
  page,      \* "list" of services, the "wizard", or the bank's page ("away")
  view,      \* the tab's copy of the row
  patches,   \* PATCHes under way
  reserves,  \* the picker's POSTs /reserve under way, with the PATCH each will send
  pays,      \* POSTs /pay under way
  ui,        \* what the payment step shows
  charged    \* slots whose booking was paid for

server == <<srv, held, wasHeld, taken, bookings, charged>>
vars == <<flow, srv, held, wasHeld, taken, bookings, page, view, patches,
          reserves, pays, ui, charged>>
-----------------------------------------------------------------------------
(* The steps of a service, in the order in which they are pushed. *)
IfHas(f, t) == IF t \in f.has THEN <<t>> ELSE <<>>
IfPaid(f)   == IF f.paid THEN <<"PAYMENT">> ELSE <<>>

stepsBefore(f) == IfHas(f, "STAFF_SELECTION") \o IfHas(f, "VENUE_SELECTION") \o IfHas(f, "GUEST_COUNT")
                    \o IfHas(f, "QUESTIONNAIRE") \o IfHas(f, "ADD_ONS")
resolveSteps(f) ==
  stepsBefore(f) \o <<"DATE_TIME_PICKER", "PRICING_SUMMARY", "CLIENT_INFO">> \o IfPaid(f) \o <<"CONFIRMATION">>

steps == resolveSteps(flow)
Type == IF page = "wizard" THEN steps[view.step] ELSE "none"

NoData == [got |-> {}, slot |-> None, total |-> None]
Or(new, old) == IF new = None THEN old ELSE new
Merge(old, new) == [got |-> old.got \cup new.got, slot |-> Or(new.slot, old.slot),
                    total |-> Or(new.total, old.total)]

(* Adding up the summary: the server never supplies a total of its own. *)
Subtotal(d) == Base + (IF "ADD_ONS" \in d.got THEN AddOn ELSE 0)
chargeAmount(d) == Or(d.total, Base)

(* What the step's own form adds to the data; one guest.  The summary keeps *)
(* a total that is there.                                                  *)
Given(t, d) ==
  CASE t = "PRICING_SUMMARY" -> [NoData EXCEPT !.total = Or(d.total, Subtotal(d))]
    [] t = "GUEST_COUNT"     -> [NoData EXCEPT !.got = {t}, !.total = Base]
    [] t = "VENUE_SELECTION" -> NoData
    [] OTHER                 -> [NoData EXCEPT !.got = {t}]
-----------------------------------------------------------------------------
Init ==
  /\ flow \in Flows
  /\ srv = [step |-> 1, data |-> NoData] /\ view = srv
  /\ page = "wizard"
  /\ held = {} /\ wasHeld = {} /\ taken = {} /\ bookings = {} /\ charged = {}
  /\ patches = {} /\ pays = {} /\ reserves = {}
  /\ ui = "none"

(* A PATCH: the step, the data (all of the tab's copy and what is new, or  *)
(* None) and whether the component that sent it waits for it, on the page. *)
(* Two forms and "Skip" do not wait, nor does "Back".                      *)
Waits == Type \notin {"VENUE_SELECTION", "QUESTIONNAIRE", "ADD_ONS"}
Patch(step, data) == [step |-> step, data |-> data, mine |-> Waits, st |-> "sent", row |-> None]
\* Broken: the picker's buttons stay enabled while a slot is reserved.
BusyForms == \E p \in patches : p.mine
Busy == \E p \in patches \cup {x.patch : x \in reserves} : p.mine

Send(p) ==
  /\ Cardinality(patches) < MaxInFlight
  /\ patches' = patches \cup {p}

nextStep == IF view.step + 1 <= Len(steps) THEN view.step + 1 ELSE Len(steps)

goToNextStep(new) == Patch(nextStep, IF new = None THEN None ELSE Merge(view.data, new))

(* A step's form is submitted. *)
Submit ==
  /\ Type \notin {"none", "DATE_TIME_PICKER", "PAYMENT", "CONFIRMATION"} /\ ~Busy
  /\ Send(goToNextStep(IF Type = "VENUE_SELECTION" THEN None ELSE Given(Type, view.data)))
  /\ UNCHANGED <<flow, server, page, view, reserves, pays, ui>>

(* The client leaves the add-ons without choosing one. *)
SubmitNothing ==
  /\ Type = "ADD_ONS" /\ ~Busy
  /\ Send(goToNextStep(NoData))
  /\ UNCHANGED <<flow, server, page, view, reserves, pays, ui>>

(* Two steps have a way back; it is not disabled by an earlier press. *)
goToPrevStep ==
  /\ Type \in {"QUESTIONNAIRE", "ADD_ONS"} /\ ~Busy /\ view.step > 1
  /\ Send(Patch(view.step - 1, None))
  /\ UNCHANGED <<flow, server, page, view, reserves, pays, ui>>
-----------------------------------------------------------------------------
(* The server reads the row, merges, and writes by id. *)
Became(p, q) == patches' = (patches \ {p}) \cup {q}

UpdateRead ==
  \E p \in patches :
    /\ p.st = "sent"
    /\ Became(p, [p EXCEPT !.st = "read", !.row = IF p.data = None THEN None ELSE srv])
    /\ UNCHANGED <<flow, server, page, view, reserves, pays, ui>>

Written(p) ==
  [step |-> p.step, data |-> IF p.data = None THEN srv.data ELSE Merge(p.row.data, p.data)]

UpdateWrite ==
  \E p \in patches :
    /\ p.st = "read"
    /\ srv' = Written(p)
    /\ Became(p, [p EXCEPT !.st = "done", !.row = Written(p)])
    /\ UNCHANGED <<flow, held, wasHeld, taken, bookings, charged, page, view, reserves, pays, ui>>

(* The tab takes the answer for its session, even after the client left    *)
(* the wizard. A step of another type is a new component: it waits for     *)
(* nothing, and a payment step asks at once.                               *)
Gone(S) == {[x EXCEPT !.mine = FALSE] : x \in S}
GoneReserves == {[x EXCEPT !.patch.mine = FALSE] : x \in reserves}

Shows(row, rest) ==
  /\ view' = row /\ page' = "wizard"
  /\ IF page = "list" \/ steps[row.step] # steps[view.step]
     THEN /\ patches' = Gone(rest) /\ reserves' = GoneReserves
          /\ IF steps[row.step] = "PAYMENT" /\ ~flow.preview
             THEN /\ pays' = Gone(pays) \cup {[mine |-> TRUE, st |-> "sent", slot |-> None]}
                  /\ ui' = "loading"
             ELSE /\ pays' = Gone(pays)
                  /\ ui' = IF steps[row.step] = "PAYMENT" THEN "form" ELSE "none"
     ELSE patches' = rest /\ UNCHANGED <<reserves, pays, ui>>

PatchAnswered ==
  \E p \in patches :
    /\ p.st = "done" /\ page # "away"
    /\ Shows(p.row, patches \ {p})
    /\ UNCHANGED <<flow, server>>

(* An error or a lost answer: a banner, and the form can be sent again. *)
PatchFails ==
  \E p \in patches :
    /\ Failures
    /\ patches' = patches \ {p}
    /\ UNCHANGED <<flow, server, page, view, reserves, pays, ui>>
-----------------------------------------------------------------------------
(* The picker. What follows a reservation was fixed when it was asked for. *)
reserveSlot(s) ==
  /\ Type = "DATE_TIME_PICKER" /\ ~Busy /\ Cardinality(reserves) + Cardinality(patches) < MaxInFlight
  /\ reserves' = reserves \cup
       {[st |-> "sent", patch |-> goToNextStep([NoData EXCEPT !.slot = s]), slot |-> s]}
  /\ UNCHANGED <<flow, server, page, view, patches, pays, ui>>

Free(s) == s \notin taken \cup held \cup bookings

Told(x, answer) == reserves' = (reserves \ {x}) \cup {[x EXCEPT !.st = answer]}

ReserveServed ==
  \E x \in reserves :
    /\ x.st = "sent"
    /\ \/ /\ Free(x.slot)
          /\ held' = held \cup {x.slot} /\ wasHeld' = wasHeld \cup {x.slot}
          /\ Told(x, "ok")
       \/ ~Free(x.slot) /\ Told(x, "refused") /\ UNCHANGED <<held, wasHeld>>
    /\ UNCHANGED <<flow, srv, taken, bookings, charged, page, view, patches, pays, ui>>

(* 201: the slot goes into the data; anything else: a message. *)
ReserveAnswered ==
  \E x \in reserves :
    /\ reserves' = reserves \ {x}
    /\ \/ x.st = "ok" /\ page # "away" /\ Send(x.patch)
       \/ (x.st = "refused" \/ Failures) /\ UNCHANGED patches
    /\ UNCHANGED <<flow, server, page, view, pays, ui>>
-----------------------------------------------------------------------------
(* POST /pay: one hold of the session that has not lapsed, in no order; a  *)
(* booking of its hours is found or made.                                  *)
PayServed ==
  \E c \in pays :
    /\ c.st = "sent"
    /\ \/ /\ held # {} /\ "CLIENT_INFO" \in srv.data.got
          /\ \E s \in held :
               /\ bookings' = bookings \cup {s}
               /\ pays' = (pays \ {c}) \cup {[c EXCEPT !.st = "ok", !.slot = s]}
       \/ /\ held = {} \/ "CLIENT_INFO" \notin srv.data.got \/ Failures
          /\ pays' = (pays \ {c}) \cup {[c EXCEPT !.st = "failed"]}
          /\ UNCHANGED bookings
    /\ UNCHANGED <<flow, srv, held, wasHeld, taken, charged, page, view, patches, reserves, ui>>

(* An answer to a component that is gone is dropped. *)
PayAnswered ==
  \E c \in pays :
    /\ c.st # "sent" /\ (c.st = "ok" /\ c.mine => ui = "loading")
    /\ IF ~c.mine
       THEN pays' = pays \ {c} /\ UNCHANGED ui
       ELSE IF c.st = "ok"
            THEN ui' = "form" /\ UNCHANGED pays
            ELSE ui' = "error" /\ pays' = pays \ {c}
    /\ UNCHANGED <<flow, server, page, view, patches, reserves>>

Secret == CHOOSE c \in pays : c.mine

(* The button of the error box; the effect that asks does not run again. *)
tryAgain ==
  /\ Type = "PAYMENT" /\ ui = "error"
  /\ ui' = "loading"
  /\ UNCHANGED <<flow, server, page, view, patches, reserves, pays>>

(* The card is charged, here or at the bank, which returns to the page.    *)
Pay ==
  /\ Type = "PAYMENT" /\ ui = "form"
  /\ ui' = "processing"
  /\ IF flow.preview THEN UNCHANGED charged ELSE charged' = charged \cup {Secret.slot}
  /\ \/ Send(goToNextStep(None)) /\ UNCHANGED page
     \/ ~flow.preview /\ page' = "away" /\ UNCHANGED patches
  /\ UNCHANGED <<flow, srv, held, wasHeld, taken, bookings, view, reserves, pays>>

(* The session was in the tab's memory only. *)
Leave ==
  /\ page = "wizard"
  /\ page' = "list" /\ ui' = "none"
  /\ patches' = Gone(patches) /\ reserves' = GoneReserves /\ pays' = Gone(pays)
  /\ UNCHANGED <<flow, server, view>>
-----------------------------------------------------------------------------
(* Five minutes pass; another client books. *)
Lapse ==
  \E s \in held :
    /\ held' = held \ {s}
    /\ UNCHANGED <<flow, srv, wasHeld, taken, bookings, charged, page, view, patches, reserves, pays, ui>>

OtherTakes ==
  \E s \in Slots :
    /\ Free(s)
    /\ taken' = taken \cup {s}
    /\ UNCHANGED <<flow, srv, held, wasHeld, bookings, charged, page, view, patches, reserves, pays, ui>>

Forward == \/ Submit \/ SubmitNothing \/ \E s \in Slots : reserveSlot(s)
           \/ Pay
Answers == UpdateRead \/ UpdateWrite \/ PatchAnswered \/ ReserveServed \/ ReserveAnswered
           \/ PayServed \/ PayAnswered
World == Lapse \/ OtherTakes
Next == Forward \/ goToPrevStep \/ tryAgain \/ Leave \/ Answers \/ PatchFails \/ World

Spec == Init /\ [][Next]_vars

(* The network answers, whatever the client does. *)
AnsweredSpec == Spec /\ WF_vars(Answers)
-----------------------------------------------------------------------------
Row == [step : 1..Len(steps), data : Data]
PatchType == [step : 1..Len(steps), data : Data \cup {None}, mine : BOOLEAN,
              st : {"sent", "read", "done"}, row : Row \cup {None}]

(* The types of the tab's and the server's state. *)
TypeOK ==
  /\ flow \in Flows
  /\ srv \in Row /\ view \in Row
  /\ held \subseteq Slots /\ wasHeld \subseteq Slots /\ taken \subseteq Slots
  /\ bookings \subseteq Slots /\ charged \subseteq Slots
  /\ page \in {"list", "wizard", "away"}
  /\ patches \subseteq PatchType
  /\ reserves \subseteq [st : {"sent", "ok", "refused"}, patch : PatchType, slot : Slots]
  /\ pays \subseteq [mine : BOOLEAN, st : {"sent", "ok", "failed"}, slot : Slots \cup {None}]
  /\ ui \in {"none", "loading", "form", "error", "processing"}

(* Whatever was lost or late, the slot in the session's data is one that   *)
(* the session was given (reserveSlot's handling of 409 and other answers).*)
ShownWasHeld == \A d \in {srv.data, view.data} : d.slot # None => d.slot \in wasHeld

(* The tab never runs ahead of the row, nor lags more than the one step    *)
(* whose answer it waits for or has lost.                                  *)
ViewFollows == page = "wizard" => view.step <= srv.step /\ srv.step <= view.step + 1

(* The slot on the page is the one whose booking was charged.              *)
ShownIsCharged == charged \subseteq {srv.data.slot}

(* "Booking Confirmed!" is shown for a booking. *)
ShownIsBooked == Type = "CONFIRMATION" /\ ~flow.preview => bookings # {}

(* The amount on the button is the amount of the intent. *)
ShownIsAsked == Type = "PAYMENT" /\ ui = "form" => chargeAmount(view.data) = Base

(* Past the summary, the total holds what the summary lists. *)
TotalIsListed ==
  Type \in {"CLIENT_INFO", "PAYMENT", "CONFIRMATION"} /\ Cardinality(patches) = 0
    => view.data.total = Subtotal(view.data)

(* A preview holds no slot. *)
PreviewHoldsNothing == flow.preview => wasHeld = {}

(* After "Try Again" the page stops waiting. *)
TriesAgain == [](ui = "loading" => <>(ui # "loading"))

(* What a step's form sent and was acknowledged stays in the row. *)
AnswersKept == [][page = "wizard" /\ srv' # srv => srv.data.got \subseteq srv'.data.got]_vars
=============================================================================
