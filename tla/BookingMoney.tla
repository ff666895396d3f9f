---------------------------- MODULE BookingMoney ----------------------------
(***************************************************************************)
(* What one client pays and gets back: the price of a service, the deposit,   *)
(* the platform's fee and commission, and the refund of a cancellation.       *)
(*                                                                         *)
(* Amounts are cents (in a deposit and in a policy dollars, as saved),       *)
(* computed exactly and rounded half up as Math.round does; the binary        *)
(* fractions of the code's dollars are not modelled.                          *)
(***************************************************************************)
EXTENDS Integers, Sequences, FiniteSets

CONSTANTS
  Forms,         \* services staff may save: [model, base, tiers, deposit, policy]
  None,          \* no configuration, or a number that is missing
  Duration,      \* minutes of a booking
  Guests,        \* guest counts
  MaxHours,      \* hours before the start at which the client books
  FeePercent, CommissionPercent, CommissionCap,
  Attempts,      \* bound: payment intents of a booking
  MaxBookings    \* bound: bookings of the client

(* The numbers of a price and of a policy are at least 0; a deposit is taken  *)
(* as it is sent.                                                            *)
BookingMoneyAssumption ==
  /\ {FeePercent, CommissionPercent, CommissionCap, Duration, MaxHours, Attempts, MaxBookings} \subseteq Nat
  /\ \A f \in Forms :
       /\ f.base \in Nat
       /\ f.deposit = None \/ f.deposit.amount = None \/ f.deposit.amount \in Int
       /\ f.policy = None \/ f.policy.free = None \/ {f.policy.free, f.policy.amount, f.policy.none} \subseteq Nat

VARIABLES
  service,   \* the service as saved
  bookings,  \* the client's bookings: [status, total, platform, hours]
  payments,  \* payments of all of them, oldest first: [of, amount, status, taken, fee, commission, back]
  refused    \* parts of a form, or of a charge, the API could not use

vars == <<service, bookings, payments, refused>>

HalfUp(a, b) == (2 * a + b) \div (2 * b)
Least(a, b)  == IF a <= b THEN a ELSE b
Most(a, b)   == IF a >= b THEN a ELSE b

TypeOK ==
  /\ service \in Forms
  /\ \A b \in DOMAIN bookings : bookings[b] \in
        [status: {"PENDING", "CONFIRMED", "CANCELLED"}, total: Nat, platform: BOOLEAN, hours: 0 .. MaxHours]
  /\ \A p \in DOMAIN payments : payments[p] \in
        [of: DOMAIN bookings, amount: Nat \ {0}, status: {"PENDING", "SUCCEEDED", "REFUNDED", "PARTIALLY_REFUNDED"},
         taken: Nat, fee: Nat, commission: Nat, back: Nat]
  /\ refused \subseteq {"tiers", "policy", "deposit"}

-----------------------------------------------------------------------------
(* parseTierConfig: anything but an array is no tiers.                        *)
parseTierConfig(tiers) == IF tiers.kind = "array" THEN tiers.rows ELSE <<>>

Tier(rows, guests) ==     \* the first that fits, else the last
  LET fits == {i \in DOMAIN rows : rows[i].min <= guests /\ guests <= rows[i].max} IN
  rows[IF fits = {} THEN Len(rows) ELSE CHOOSE i \in fits : \A j \in fits : i <= j]

calculatePrice(guests) ==
  LET rows == parseTierConfig(service.tiers) IN
  CASE service.model = "HOURLY"                 -> HalfUp(service.base * Duration, 60)
    [] service.model = "TIERED" /\ rows # <<>>  -> Tier(rows, guests).price * guests
    [] OTHER                                    -> service.base

(* A deposit that is nothing or everything is the full price.                 *)
resolvePaymentAmount(total) ==
  IF service.deposit = None THEN total
  ELSE LET deposit == IF service.deposit.type = "PERCENTAGE"
                      THEN HalfUp(total * service.deposit.amount, 100)
                      ELSE Least(service.deposit.amount * 100, total)
       IN  IF deposit >= total \/ deposit <= 0 THEN total ELSE deposit

(* The booking that is charged is itself a booking of the client.             *)
calculateReferralCommission(b) ==
  IF ~bookings[b].platform \/ \E c \in DOMAIN bookings : bookings[c].platform /\ bookings[c].status # "CANCELLED"
  THEN 0
  ELSE Least(HalfUp(bookings[b].total * CommissionPercent, 100), CommissionCap)

ApplicationFee(charge, commission) ==
  Least(HalfUp(charge * FeePercent, 100) + commission, Most(0, charge - 1))

(* evaluateCancellationPolicy, with normalizePolicy's defaults for what is     *)
(* missing: 24 hours, no fee, no hours without refund.                        *)
Default == [free |-> 24, type |-> "percentage", amount |-> 0, none |-> 0]

(* Broken: the fee is added.                                                 *)
evaluateCancellationPolicyAdded(raw, hours, total) ==
  LET policy == IF raw = None THEN Default ELSE raw
      fee    == IF policy.type = "fixed" THEN Least(policy.amount * 100, total) * 100 ELSE total * policy.amount
  IN  IF hours >= policy.free THEN [fee |-> 0, refund |-> total]
      ELSE [fee |-> HalfUp(fee, 100), refund |-> HalfUp(total * 100 + fee, 100)]

evaluateCancellationPolicy(raw, hours, total) ==
  LET policy == IF raw = None THEN Default ELSE raw
      fee    == IF policy.type = "fixed" THEN Least(policy.amount * 100, total) * 100 ELSE total * policy.amount
  IN  IF total <= 0 THEN [fee |-> 0, refund |-> 0]
      ELSE IF hours >= policy.free THEN [fee |-> 0, refund |-> total]
      ELSE IF policy.none > 0 /\ hours <= policy.none THEN [fee |-> total, refund |-> 0]
      ELSE [fee |-> HalfUp(fee, 100), refund |-> HalfUp(Most(total * 100 - fee, 0), 100)]

-----------------------------------------------------------------------------
Accepted(form) == form.tiers.kind # "array" /\ (form.policy # None => form.policy.free # None)

Init ==
  /\ service \in {f \in Forms : Accepted(f)}
  /\ bookings = <<>> /\ payments = <<>> /\ refused = {}

(* The validation of the API refuses an array of tiers and a policy with        *)
(* names it does not know.                                                   *)
Save(form) ==
  /\ service' = IF Accepted(form) THEN form ELSE service
  /\ refused' = refused \cup {part \in {"tiers", "policy"} :
                   \/ part = "tiers" /\ form.tiers.kind = "array"
                   \/ part = "policy" /\ form.policy # None /\ form.policy.free = None}
  /\ UNCHANGED <<bookings, payments>>

Book(guests, platform) ==
  /\ Len(bookings) < MaxBookings
  /\ bookings' = Append(bookings, [status |-> "PENDING", total |-> calculatePrice(guests),
                                   platform |-> platform, hours |-> MaxHours])
  /\ UNCHANGED <<service, payments, refused>>

(* processPaymentIntent: a deposit without a number is none Stripe takes.      *)
processPaymentIntent(b) ==
  /\ bookings[b].status = "PENDING" /\ bookings[b].total > 0
  /\ Cardinality({p \in DOMAIN payments : payments[p].of = b}) < Attempts
  /\ IF service.deposit # None /\ service.deposit.amount = None
     THEN refused' = refused \cup {"deposit"} /\ UNCHANGED payments
     ELSE LET charge     == resolvePaymentAmount(bookings[b].total)
              commission == calculateReferralCommission(b)
          IN  /\ payments' = Append(payments,
                   [of |-> b, amount |-> charge, status |-> "PENDING", taken |-> ApplicationFee(charge, commission),
                    fee |-> HalfUp(charge * FeePercent, 100), commission |-> commission, back |-> 0])
              /\ UNCHANGED refused
  /\ UNCHANGED <<service, bookings>>

Succeed(p) ==     \* the client pays (PaymentLifecycle has the details)
  /\ payments[p].status = "PENDING" /\ bookings[payments[p].of].status # "CANCELLED"
  /\ payments' = [payments EXCEPT ![p].status = "SUCCEEDED"]
  /\ bookings' = [bookings EXCEPT ![payments[p].of].status = "CONFIRMED"]
  /\ UNCHANGED <<service, refused>>

Tick(b) ==
  /\ bookings[b].hours > 0
  /\ bookings' = [bookings EXCEPT ![b].hours = @ - 1]
  /\ UNCHANGED <<service, payments, refused>>

Paid(b) == {p \in DOMAIN payments : payments[p].of = b /\ payments[p].status = "SUCCEEDED"}

(* cancel and cancelBooking: the policy is that of the day, and the newest      *)
(* payment that succeeded is the one refunded.                                *)
cancel(b) ==
  /\ bookings[b].status # "CANCELLED"
  /\ bookings' = [bookings EXCEPT ![b].status = "CANCELLED"]
  /\ IF Paid(b) = {} THEN UNCHANGED payments
     ELSE LET p      == CHOOSE p \in Paid(b) : \A q \in Paid(b) : q <= p
              refund == evaluateCancellationPolicy(service.policy, bookings[b].hours, payments[p].amount).refund
          IN  payments' = IF refund = 0 THEN payments
                          ELSE [payments EXCEPT ![p].back = @ + refund, ![p].status =
                                  IF refund >= payments[p].amount THEN "REFUNDED" ELSE "PARTIALLY_REFUNDED"]
  /\ UNCHANGED <<service, refused>>

Next ==
  \/ \E f \in Forms : Save(f)
  \/ \E g \in Guests, platform \in BOOLEAN : Book(g, platform)
  \/ \E b \in DOMAIN bookings : processPaymentIntent(b) \/ Tick(b) \/ cancel(b)
  \/ \E p \in DOMAIN payments : Succeed(p)

Spec == Init /\ [][Next]_vars

-----------------------------------------------------------------------------
(* One payment is never more than the booking (resolvePaymentAmount).          *)
ChargeWithinTotal == \A p \in DOMAIN payments : payments[p].amount <= bookings[payments[p].of].total

(* The business always receives at least one cent of a charge                  *)
(* (processPaymentIntent), also when the commission is counted on the whole     *)
(* booking and taken from a deposit.                                         *)
PayoutPositive ==
  \A b \in DOMAIN bookings : bookings[b].total > 0 /\ bookings[b].status = "PENDING" =>
     \A commission \in {0, Least(HalfUp(bookings[b].total * CommissionPercent, 100), CommissionCap)} :
        service.deposit = None \/ service.deposit.amount # None =>
           LET charge == resolvePaymentAmount(bookings[b].total) IN ApplicationFee(charge, commission) < charge

(* What is returned of a payment is at most the payment                         *)
(* (evaluateCancellationPolicy).                                              *)
RefundWithin == \A p \in DOMAIN payments : payments[p].back \in 0 .. payments[p].amount

(* Who cancels later gets no more (evaluateCancellationPolicy).                 *)
RefundFalls ==
  \A p \in DOMAIN payments, early, late \in 0 .. MaxHours : late <= early =>
     evaluateCancellationPolicy(service.policy, late, payments[p].amount).refund
       <= evaluateCancellationPolicy(service.policy, early, payments[p].amount).refund

(* What the business keeps and what the client gets make up the payment        *)
(* (evaluateCancellationPolicy).                                              *)
SplitsPayment ==
  \A p \in DOMAIN payments, hours \in 0 .. MaxHours :
     LET result == evaluateCancellationPolicy(service.policy, hours, payments[p].amount)
     IN  result.fee + result.refund = payments[p].amount

(* A booking cancelled in its free hours gives everything back.                *)
FreeReturnsAll ==
  [][\A b \in DOMAIN bookings :
       /\ bookings[b].status # "CANCELLED" /\ bookings'[b].status = "CANCELLED"
       /\ service.policy # None /\ bookings[b].hours >= service.policy.free
       => \A p \in Paid(b) : payments'[p].back = payments[p].amount]_vars

(* The first booking a client makes through the platform pays commission.       *)
FirstPaysCommission ==
  \A p \in DOMAIN payments : LET b == payments[p].of IN
     bookings[b].platform /\ (\A c \in 1 .. b - 1 : ~bookings[c].platform)
       /\ HalfUp(bookings[b].total * CommissionPercent, 100) > 0 => payments[p].commission > 0

(* What the documentation says to enter is taken.                             *)
TiersDocumented   == "tiers" \notin refused
PolicyDocumented  == "policy" \notin refused
DepositDocumented == "deposit" \notin refused
=============================================================================
