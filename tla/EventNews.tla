------------------------------- MODULE EventNews -------------------------------
(***************************************************************************)
(* Who is told of what happens to a booking.  Each change emits an event.  *)
(* WorkflowEngineService answers it with messages one after another: those *)
(* the platform always sends, and the automations of the business.  The    *)
(* SMS listener dispatches a job for the owner's telephone, which is put   *)
(* off while it is night, and which Inngest runs again when it throws.      *)
(*                                                                         *)
(* The stages of workflows are in WorkflowExecution, the invoice in         *)
(* InvoiceBook, browser notifications in PushDelivery.                     *)
(***************************************************************************)
EXTENDS Naturals, Sequences, FiniteSets

CONSTANTS
  Members,       \* owners and admins, in the order they are read
  Automations,   \* per event, actions of its active workflow_automations
  DayHours,      \* hours of a day
  QuietStart, QuietEnd,
  Tries,         \* attempts that Inngest makes
  Faults,        \* whether statements and calls fail
  MaxEvents, MaxTime   \* bounds: events; hours, the last day of which nothing happens in

Kinds == {"CREATED", "CONFIRMED", "RESCHEDULED", "CANCELLED", "COMPLETED", "NO_SHOW"}

NewsAssumption ==
  /\ Members \in Seq(STRING) /\ {Tries, MaxEvents, MaxTime} \subseteq Nat /\ Tries > 0 /\ Faults \in BOOLEAN
  /\ DayHours \in Nat \ {0} /\ {QuietStart, QuietEnd} \subseteq 0 .. DayHours - 1
  /\ Automations \in [Kinds -> Seq(STRING)] /\ DayHours <= MaxTime

VARIABLES
  now,       \* hours that have passed
  status,    \* bookings.status; NONE: not made yet
  heard,     \* the events so far
  engine,    \* per event: [at, i]; i: the task that its handler is at
  told,      \* per event: the tasks that were carried out
  failed,    \* history: per event, the tasks whose error was logged
  sms,       \* per event: [at, wake, tries] of the owner's SMS
  texts,     \* per event: SMS that the provider accepted
  rows       \* per event: communications rows of channel SMS that say SENT

vars == <<now, status, heard, engine, told, failed, sms, texts, rows>>

Sms     == Kinds \ {"CREATED"}
Ids     == 1 .. MaxEvents

(* What is done about an event, in order.  The tasks of a group share a try: *)
(* an error in one skips the rest of the group.                              *)
Staff(what)  == [i \in DOMAIN Members |-> [to |-> Members[i], what |-> what, group |-> 0]]
Client(what) == <<[to |-> "client", what |-> what, group |-> 0]>>
Flows(k)     == [i \in DOMAIN Automations[k] |-> [to |-> "client", what |-> Automations[k][i], group |-> i]]

Tasks(k) ==
  CASE k = "CREATED"     -> Staff("staff-approval-required")
    [] k = "CONFIRMED"   -> Flows(k)
    [] k = "RESCHEDULED" -> Client("booking-rescheduled") \o Flows(k)
    [] k = "CANCELLED"   -> Client("booking-cancellation")
    [] k = "COMPLETED"   -> Flows(k)
    [] k = "NO_SHOW"     -> Staff("booking-no-show")

NoEngine == [at |-> "none", i |-> 1]
NoSms   == [at |-> "none", wake |-> 0, tries |-> 0]

TypeOK ==
  /\ now \in 0 .. MaxTime /\ status \in {"NONE", "PENDING", "CONFIRMED", "CANCELLED", "COMPLETED", "NO_SHOW"}
  /\ heard \in Seq(Kinds) /\ Len(heard) <= MaxEvents
  /\ \A e \in Ids :
       /\ engine[e].at \in {"none", "look", "send", "done"} /\ engine[e].i \in Nat \ {0}
       /\ told[e] \subseteq Nat /\ failed[e] \subseteq Nat
       /\ sms[e].at \in {"none", "waiting", "send", "record", "ended"} /\ sms[e].tries \in 0 .. Tries
       /\ sms[e].wake \in Nat /\ texts[e] \in Nat /\ rows[e] \in Nat

Init ==
  /\ now \in 0 .. DayHours - 1 /\ status \in {"NONE", "PENDING", "CONFIRMED"} /\ heard = <<>>
  /\ engine = [e \in Ids |-> NoEngine] /\ told = [e \in Ids |-> {}] /\ failed = [e \in Ids |-> {}]
  /\ sms = [e \in Ids |-> NoSms] /\ texts = [e \in Ids |-> 0] /\ rows = [e \in Ids |-> 0]

-----------------------------------------------------------------------------
(* Hours of the night; the night may span midnight.                         *)

InQuietHours(t) ==
  LET h == t % DayHours IN
  IF QuietStart > QuietEnd THEN h >= QuietStart \/ h < QuietEnd ELSE h >= QuietStart /\ h < QuietEnd

HoursUntilQuietEnd(t) ==
  LET h == t % DayHours IN
  IF h >= QuietStart THEN (DayHours - h) + QuietEnd ELSE QuietEnd - h

-----------------------------------------------------------------------------
(* The booking, as BookingLifecycle has it: every change emits its events,   *)
(* and every listener is called at once.                                     *)

Emit(s, kinds) ==
  /\ Len(heard) + Len(kinds) <= MaxEvents /\ now + DayHours <= MaxTime
  /\ status' = s /\ heard' = heard \o kinds
  /\ LET new == Len(heard) + 1 .. Len(heard) + Len(kinds)
         kind(e) == kinds[e - Len(heard)] IN
     /\ engine' = [e \in Ids |->
          IF e \in new THEN [at |-> IF kind(e) = "CREATED" THEN "look" ELSE "send", i |-> 1] ELSE engine[e]]
     /\ sms' = [e \in Ids |->
          IF e \in new /\ kind(e) \in Sms THEN [at |-> "waiting", wake |-> now, tries |-> 0] ELSE sms[e]]
  /\ UNCHANGED <<now, told, failed, texts, rows>>

Book(auto) ==
  /\ status = "NONE"
  /\ IF auto THEN Emit("CONFIRMED", <<"CREATED", "CONFIRMED">>) ELSE Emit("PENDING", <<"CREATED">>)

Confirm  == status = "PENDING" /\ Emit("CONFIRMED", <<"CONFIRMED">>)
Cancel   == status \in {"PENDING", "CONFIRMED"} /\ Emit("CANCELLED", <<"CANCELLED">>)
Move     == status \in {"PENDING", "CONFIRMED"} /\ Emit(status, <<"RESCHEDULED">>)
Complete == status = "CONFIRMED" /\ Emit("COMPLETED", <<"COMPLETED">>)
NoShow   == status = "CONFIRMED" /\ Emit("NO_SHOW", <<"NO_SHOW">>)

Tick == now < MaxTime /\ now' = now + 1 /\ UNCHANGED <<status, heard, engine, told, failed, sms, texts, rows>>

-----------------------------------------------------------------------------
(* The engine.                                                               *)

TasksOf(e) == Tasks(heard[e])
Engine(e, x) == engine' = [engine EXCEPT ![e] = x]

(* Staff are asked to approve what is still PENDING when it is looked at.    *)
Look(e) ==
  /\ engine[e].at = "look"
  /\ Engine(e, [at |-> IF status = "PENDING" THEN "send" ELSE "done", i |-> 1])
  /\ UNCHANGED <<now, status, heard, told, failed, sms, texts, rows>>

(* An automation's SMS to the client is dropped at night.                    *)
Dropped(t) == t.what = "SMS" /\ InQuietHours(now)

Carry(e) ==
  LET i == engine[e].i IN
  /\ engine[e].at = "send" /\ i <= Len(TasksOf(e))
  /\ told' = IF Dropped(TasksOf(e)[i]) THEN told ELSE [told EXCEPT ![e] = @ \cup {i}]
  /\ Engine(e, [engine[e] EXCEPT !.i = @ + 1])
  /\ UNCHANGED <<now, status, heard, failed, sms, texts, rows>>

SkipGroup(e) ==
  LET i == engine[e].i
      group == {j \in i .. Len(TasksOf(e)) : TasksOf(e)[j].group = TasksOf(e)[i].group} IN
  /\ Faults /\ engine[e].at = "send" /\ i <= Len(TasksOf(e))
  /\ failed' = [failed EXCEPT ![e] = @ \cup {i}]
  /\ Engine(e, [engine[e] EXCEPT !.i = @ + Cardinality(group)])
  /\ UNCHANGED <<now, status, heard, told, sms, texts, rows>>

Done(e) ==
  /\ engine[e].at = "send" /\ engine[e].i > Len(TasksOf(e))
  /\ Engine(e, [engine[e] EXCEPT !.at = "done"])
  /\ UNCHANGED <<now, status, heard, told, failed, sms, texts, rows>>

-----------------------------------------------------------------------------
(* The owner's SMS.                                                          *)

Sms1(e, x) == sms' = [sms EXCEPT ![e] = x] /\ UNCHANGED <<now, status, heard, engine, told, failed>>

(* At night the job is dispatched anew, for the morning.                     *)
Wake(e) ==
  /\ sms[e].at = "waiting" /\ sms[e].wake <= now
  /\ Sms1(e, IF InQuietHours(now) THEN [sms[e] EXCEPT !.wake = now + HoursUntilQuietEnd(now), !.tries = 0]
             ELSE [sms[e] EXCEPT !.at = "send"])
  /\ UNCHANGED <<texts, rows>>

(* What the provider refuses is recorded as FAILED, and not tried again.     *)
SendSms(e) ==
  /\ sms[e].at = "send"
  /\ \/ Sms1(e, [sms[e] EXCEPT !.at = "record"]) /\ texts' = [texts EXCEPT ![e] = @ + 1]
     \/ Faults /\ Sms1(e, [sms[e] EXCEPT !.at = "ended"]) /\ UNCHANGED texts
  /\ UNCHANGED rows

Record(e) ==
  /\ sms[e].at = "record" /\ Sms1(e, [sms[e] EXCEPT !.at = "ended"])
  /\ rows' = [rows EXCEPT ![e] = @ + 1] /\ UNCHANGED texts

(* A statement fails or the process dies: Inngest runs the job again.        *)
Throws(e) ==
  /\ Faults /\ (sms[e].at \in {"send", "record"} \/ (sms[e].at = "waiting" /\ sms[e].wake <= now))
  /\ Sms1(e, [sms[e] EXCEPT !.at = IF sms[e].tries + 1 < Tries THEN "waiting" ELSE "ended", !.tries = @ + 1])
  /\ UNCHANGED <<texts, rows>>

Handler(e) == Look(e) \/ Carry(e) \/ Done(e)
Job(e)     == Wake(e) \/ SendSms(e) \/ Record(e)

Next ==
  \/ \E auto \in BOOLEAN : Book(auto)
  \/ Confirm \/ Cancel \/ Move \/ Complete \/ NoShow \/ Tick
  \/ \E e \in Ids : Handler(e) \/ SkipGroup(e) \/ Job(e) \/ Throws(e)

Spec == Init /\ [][Next]_vars /\ WF_vars(Tick) /\ \A e \in Ids : WF_vars(Handler(e)) /\ WF_vars(Job(e))

-----------------------------------------------------------------------------
(* An error costs only what comes after it in its own try: once the engine   *)
(* is through with an event, each task of it was carried out, or failed, or   *)
(* came after a failure in its group.  (An automation's SMS may be dropped    *)
(* for the night.)                                                           *)
Excused(e, i) ==
  \/ TasksOf(e)[i].what = "SMS"
  \/ \E j \in failed[e] : j <= i /\ TasksOf(e)[j].group = TasksOf(e)[i].group

FailuresAreIsolated ==
  \A e \in DOMAIN heard :
    engine[e].at = "done" /\ (heard[e] = "CREATED" => engine[e].i > 1) =>
      \A i \in DOMAIN TasksOf(e) : i \in told[e] \/ Excused(e, i)

(* An SMS that is on record was sent, and is not sent again; without faults   *)
(* the owner has each once.  (An SMS that was sent and not recorded is sent   *)
(* again, by up to Tries attempts and, if the night has come, Tries more.)   *)
TextsAreAccounted ==
  \A e \in Ids :
    /\ rows[e] <= 1 /\ rows[e] <= texts[e]
    /\ rows[e] = 1 => sms[e].at = "ended"
    /\ ~Faults /\ sms[e].at = "ended" => texts[e] = 1 /\ rows[e] = 1

(* What waits for the morning is not put off again because of the night.      *)
WaitsForMorning == \A e \in Ids : sms[e].at = "waiting" /\ sms[e].wake > now => ~InQuietHours(sms[e].wake)

(* The owner is not woken.                                                   *)
NotWoken == \A e \in Ids : sms[e].at = "waiting" /\ sms'[e].at = "send" => ~InQuietHours(now)

(* While nothing fails, the owner hears of everything in the end.            *)
OwnerIsTold == \A e \in Ids : [](sms[e].at = "waiting" => <>(sms[e].at = "ended"))
=============================================================================
