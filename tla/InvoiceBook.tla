---------------------------- MODULE InvoiceBook ----------------------------
(***************************************************************************)
(* The invoices of one tenant in one month, and the payments and the       *)
(* deadline job around them.                                               *)
(*                                                                         *)
(* A confirmation emits BOOKING_CONFIRMED; the workflow engine then writes *)
(* an invoice and waits for nobody.  It looks for one, reads the highest   *)
(* number of the month, and inserts; the database keeps the number unique. *)
(* Staff and a card payment may both confirm a booking.                    *)
(***************************************************************************)
EXTENDS Naturals, FiniteSets

CONSTANTS
  Bookings,
  Base,           \* of the digits of an invoice number
  FirstLong,      \* the first number with more digits than numbers are padded to
  Used,           \* how many invoices the month has already
  Sources,        \* who confirms: staff, card
  Serial,         \* whether one confirmation is handled at a time
  Passing         \* whether the bookings' start passes

InvoiceAssumption ==
  /\ IsFiniteSet(Bookings) /\ {Base, FirstLong} \subseteq Nat \ {0, 1} /\ Used \in 0 .. FirstLong
  /\ Sources \subseteq {"staff", "card"} /\ {Serial, Passing} \subseteq BOOLEAN

Generators == Bookings \X Sources

VARIABLES
  booking,    \* per booking: its status
  due,        \* the bookings whose start, the due date, has passed
  received,   \* per booking: what SUCCEEDED payments amount to
  read,       \* bookings staff have read to confirm
  at,         \* per generator: where createForBooking is
  saw,        \* per generator: whether it found a SUCCEEDED payment
  number,     \* per generator: the number it took
  invoices,   \* the committed rows
  pdf,        \* per generator: its PDF job: none, sent, done, lost
  byHand,     \* history: bookings whose invoice staff marked paid
  job         \* the invoices as the deadline job read them

gen  == <<at, saw, number>>
vars == <<booking, due, received, read, gen, invoices, pdf, byHand, job>>

InvoiceRow == [booking: Bookings, by: Generators, number: Nat, status: {"DRAFT", "PAID", "OVERDUE"}]

TypeOK ==
  /\ booking \in [Bookings -> {"PENDING", "CONFIRMED", "CANCELLED", "COMPLETED"}]
  /\ due \subseteq Bookings /\ received \in [Bookings -> {"nothing", "deposit", "all"}]
  /\ read \subseteq Bookings
  /\ at \in [Generators -> {"idle", "look", "number", "insert", "commit", "done", "failed"}]
  /\ saw \in [Generators -> BOOLEAN] /\ number \in [Generators -> Nat]
  /\ \A i \in invoices : i \in InvoiceRow
  /\ pdf \in [Generators -> {"none", "sent", "done", "lost"}]
  /\ byHand \subseteq Bookings /\ \A i \in job : i \in InvoiceRow

Init ==
  /\ booking = [b \in Bookings |-> "PENDING"] /\ due = {} /\ read = {}
  /\ received = [b \in Bookings |-> "nothing"]
  /\ at = [g \in Generators |-> "idle"] /\ saw = [g \in Generators |-> FALSE]
  /\ number = [g \in Generators |-> 0] /\ invoices = {}
  /\ pdf = [g \in Generators |-> "none"] /\ byHand = {} /\ job = {}

Busy == \E g \in Generators : at[g] \notin {"idle", "done", "failed"}

-----------------------------------------------------------------------------
(* Confirmations and payments.                                               *)

StaffReads(b) ==
  /\ booking[b] = "PENDING" /\ b \notin read
  /\ read' = read \cup {b}
  /\ UNCHANGED <<booking, due, received, gen, invoices, pdf, byHand, job>>

(* The transition was checked on what was read; BOOKING_CONFIRMED is emitted. *)
StaffConfirms(b) ==
  /\ b \in read /\ "staff" \in Sources /\ at[<<b, "staff">>] = "idle"
  /\ Serial => ~Busy
  /\ booking' = [booking EXCEPT ![b] = "CONFIRMED"]
  /\ at' = [at EXCEPT ![<<b, "staff">>] = "look"]
  /\ UNCHANGED <<due, received, read, saw, number, invoices, pdf, byHand, job>>

(* handlePaymentSuccess of the booking's intent: a deposit or all of it.      *)
CardPays(b, amount) ==
  /\ "card" \in Sources /\ received[b] = "nothing" /\ booking[b] # "CANCELLED"
  /\ Serial => ~Busy
  /\ received' = [received EXCEPT ![b] = amount]
  /\ IF booking[b] = "PENDING"
       THEN /\ booking' = [booking EXCEPT ![b] = "CONFIRMED"]
            /\ at' = [at EXCEPT ![<<b, "card">>] = "look"]
       ELSE UNCHANGED <<booking, at>>
  /\ UNCHANGED <<due, read, saw, number, invoices, pdf, byHand, job>>

PaysTheRest(b) ==
  /\ received[b] = "deposit"
  /\ received' = [received EXCEPT ![b] = "all"]
  /\ UNCHANGED <<booking, due, read, gen, invoices, pdf, byHand, job>>

Cancel(b) ==
  /\ booking[b] \in {"PENDING", "CONFIRMED"}
  /\ booking' = [booking EXCEPT ![b] = "CANCELLED"]
  /\ UNCHANGED <<due, received, read, gen, invoices, pdf, byHand, job>>

StartPasses(b) ==
  /\ Passing /\ b \notin due
  /\ due' = due \cup {b}
  /\ UNCHANGED <<booking, received, read, gen, invoices, pdf, byHand, job>>

Complete(b) ==
  /\ b \in due /\ booking[b] = "CONFIRMED"
  /\ booking' = [booking EXCEPT ![b] = "COMPLETED"]
  /\ UNCHANGED <<due, received, read, gen, invoices, pdf, byHand, job>>

-----------------------------------------------------------------------------
(* createForBooking.                                                         *)

Look(g) ==
  /\ at[g] = "look"
  /\ at' = [at EXCEPT ![g] = IF \E i \in invoices : i.booking = g[1] THEN "done" ELSE "number"]
  /\ saw' = [saw EXCEPT ![g] = received[g[1]] # "nothing"]
  /\ UNCHANGED <<booking, due, received, read, number, invoices, pdf, byHand, job>>

(* Order of the padded numbers as strings: of two numbers the one with more  *)
(* digits than are padded to is compared by its leading digits.              *)
Longer(n) == n >= FirstLong
AsString(n) == IF Longer(n) THEN [head |-> n \div Base, tail |-> n % Base, long |-> 1]
                            ELSE [head |-> n, tail |-> 0, long |-> 0]
StringBefore(m, n) ==
  LET a == AsString(m)
      b == AsString(n)
  IN \/ a.head < b.head
     \/ a.head = b.head /\ a.long < b.long
     \/ a.head = b.head /\ a.long = b.long /\ a.tail < b.tail

Numbers == (1 .. Used) \cup {i.number : i \in invoices}
LastNumber ==
  IF Numbers = {} THEN 0
  ELSE CHOOSE n \in Numbers : \A m \in Numbers \ {n} : StringBefore(m, n)

TakeNumber(g) ==
  /\ at[g] = "number"
  /\ number' = [number EXCEPT ![g] = LastNumber + 1]
  /\ at' = [at EXCEPT ![g] = "insert"]
  /\ UNCHANGED <<booking, due, received, read, saw, invoices, pdf, byHand, job>>

(* Broken: no unique index.                                                  *)
InsertUnchecked(g) ==
  /\ at[g] = "insert"
  /\ at' = [at EXCEPT ![g] = "commit"] /\ pdf' = [pdf EXCEPT ![g] = "sent"]
  /\ UNCHANGED <<booking, due, received, read, saw, number, invoices, byHand, job>>

(* The unique index makes an insert wait for another transaction's row with  *)
(* the same number, and refuses it if that row is there.                     *)
Insert(g) ==
  /\ at[g] = "insert"
  /\ \A h \in Generators : at[h] = "commit" => number[h] # number[g]
  /\ \/ number[g] \in Numbers /\ at' = [at EXCEPT ![g] = "failed"] /\ UNCHANGED pdf
     \/ /\ number[g] \notin Numbers
        /\ at' = [at EXCEPT ![g] = "commit"]
        /\ pdf' = [pdf EXCEPT ![g] = "sent"]
  /\ UNCHANGED <<booking, due, received, read, saw, number, invoices, byHand, job>>

Commit(g) ==
  /\ at[g] = "commit"
  /\ at' = [at EXCEPT ![g] = "done"]
  /\ invoices' = invoices \cup
       {[booking |-> g[1], by |-> g, number |-> number[g],
         status |-> IF saw[g] THEN "PAID" ELSE "DRAFT"]}
  /\ UNCHANGED <<booking, due, received, read, saw, number, pdf, byHand, job>>

(* An invoice that is not there yet is skipped, and the job is done with.    *)
MakePdf(g) ==
  /\ pdf[g] = "sent"
  /\ pdf' = [pdf EXCEPT ![g] = IF \E i \in invoices : i.by = g THEN "done" ELSE "lost"]
  /\ UNCHANGED <<booking, due, received, read, gen, invoices, byHand, job>>

-----------------------------------------------------------------------------
SetStatus(i, s) == (invoices \ {i}) \cup {[i EXCEPT !.status = s]}

MarkPaid(i) ==
  /\ i \in invoices /\ i.status # "PAID"
  /\ invoices' = SetStatus(i, "PAID") /\ byHand' = byHand \cup {i.booking}
  /\ UNCHANGED <<booking, due, received, read, gen, pdf, job>>

JobReads ==
  /\ job = {}
  /\ job' = {i \in invoices : i.status # "PAID" /\ i.booking \in due}
  /\ job' # {}
  /\ UNCHANGED <<booking, due, received, read, gen, invoices, pdf, byHand>>

Now(i) == CHOOSE j \in invoices : j.by = i.by

(* One transaction per invoice read: the invoice's status is the one read,   *)
(* the booking's is read now; auto_cancel_on_overdue defaults to TRUE.       *)
JobEnforces(i) ==
  /\ i \in job
  /\ job' = job \ {i}
  /\ invoices' = IF i.status # "OVERDUE" THEN SetStatus(Now(i), "OVERDUE") ELSE invoices
  /\ booking' = IF booking[i.booking] \in {"PENDING", "CONFIRMED"}
                  THEN [booking EXCEPT ![i.booking] = "CANCELLED"] ELSE booking
  /\ UNCHANGED <<due, received, read, gen, pdf, byHand>>

-----------------------------------------------------------------------------
Generate(g) == Look(g) \/ TakeNumber(g) \/ Insert(g) \/ Commit(g)

Next ==
  \/ \E b \in Bookings :
       \/ StaffReads(b) \/ StaffConfirms(b) \/ PaysTheRest(b)
       \/ \E amount \in {"deposit", "all"} : CardPays(b, amount)
       \/ Cancel(b) \/ StartPasses(b) \/ Complete(b)
  \/ \E g \in Generators : Generate(g) \/ MakePdf(g)
  \/ \E i \in invoices : MarkPaid(i)
  \/ JobReads
  \/ \E i \in job : JobEnforces(i)

Spec == Init /\ [][Next]_vars

(* The handlers of an event go on, and Inngest runs the PDF job.             *)
FairSpec ==
  Spec /\ \A g \in Generators : WF_vars(Generate(g)) /\ WF_vars(MakePdf(g))

-----------------------------------------------------------------------------
(* However many confirmations are handled at once, the invoices of the month *)
(* are numbered 1, 2, 3, ... without a gap and without a number used twice.  *)
NumbersAreSequential == Numbers = 1 .. Used + Cardinality(invoices)

(* docs/help-center/payments-and-invoices/invoices.md: "Paid: Payment         *)
(* received in full".                                                         *)
PaidIsInFull ==
  \A i \in invoices : i.status = "PAID" => received[i.booking] = "all" \/ i.booking \in byHand

(* The same page: "Overdue: Past due date without full payment".              *)
OverdueIsUnpaid ==
  \A i \in invoices : i.status = "OVERDUE" => received[i.booking] # "all"

(* generate-invoice-pdf.function.ts: it renders the invoice "and updates the   *)
(* Invoice row with the URL".                                                  *)
PdfIsMade == \A g \in Generators : pdf[g] = "sent" ~> pdf[g] = "done"
=============================================================================
