---------------------------- MODULE DiscountUse -----------------------------
(***************************************************************************)
(* The discount codes of one tenant: discounts.service.ts, and the booking    *)
(* sessions that redeem them.  A code is looked for before its row is          *)
(* written, and a use is counted after the row was looked at, each in a        *)
(* statement of its own and in no transaction.                                *)
(***************************************************************************)
EXTENDS Naturals, FiniteSets, FiniteSetsExt

CONSTANTS
  Discounts,   \* rows of discounts
  Codes,
  Sessions,    \* booking sessions, all for one service
  Price,       \* its base price
  Workers,     \* requests in flight
  Limits,      \* values of maxUses that are entered
  MaxTime,     \* bound of the clock
  MaxUses,     \* bound: uses of a row that are explored
  None

DiscountAssumption ==
  /\ None \notin Discounts \cup Codes \cup Sessions /\ Price \in Nat \ {0}
  /\ Limits \subseteq Nat \ {0} /\ MaxTime \in Nat /\ MaxUses \in Nat
  /\ IsFiniteSet(Discounts) /\ IsFiniteSet(Sessions) /\ IsFiniteSet(Workers)

VARIABLES
  row,       \* discounts: [made, code, application, until, minimum, limit, active, count]
  time,
  worker,    \* [at, d, s, code]: the local state of each request
  redeemed,  \* the answers "valid": which session got how many of which discount
  charged    \* what each session's booking costs, 0 before it is priced

vars == <<row, time, worker, redeemed, charged>>

Applications == {"CODE_REQUIRED", "ADMIN_ONLY"}
Idle == [at |-> "idle", d |-> None, s |-> None, code |-> None]

TypeOK ==
  /\ row \in [Discounts -> [made : BOOLEAN, code : Codes \cup {None}, application : Applications,
                           until : 0 .. MaxTime, minimum : {0, Price + 1}, limit : Limits \cup {0},
                           active : BOOLEAN, count : Nat]]
  /\ time \in 0 .. MaxTime
  /\ worker \in [Workers -> [at : {"idle", "insert", "update", "count"}, d : Discounts \cup {None},
                            s : Sessions \cup {None}, code : Codes \cup {None}]]
  /\ redeemed \in [Sessions -> [Discounts -> Nat]]
  /\ charged \in [Sessions -> {0, Price}]

Init ==
  /\ row = [d \in Discounts |-> [made |-> FALSE, code |-> None, application |-> "CODE_REQUIRED", until |-> 0,
                                minimum |-> 0, limit |-> 0, active |-> FALSE, count |-> 0]]
  /\ time = 0
  /\ worker = [w \in Workers |-> Idle]
  /\ redeemed = [s \in Sessions |-> [d \in Discounts |-> 0]]
  /\ charged = [s \in Sessions |-> 0]

Put(w, local) == worker' = [worker EXCEPT ![w] = local]
With(code)    == {d \in Discounts : row[d].made /\ row[d].code = code}

-----------------------------------------------------------------------------
(* create: the code is upper-cased, looked for, and inserted; no unique        *)
(* constraint stops the second row.                                          *)
CreateRead(w, d, code) ==
  /\ worker[w] = Idle /\ ~row[d].made /\ \A v \in Workers : worker[v].d # d
  /\ With(code) = {}
  /\ Put(w, [Idle EXCEPT !.at = "insert", !.d = d, !.code = code])
  /\ UNCHANGED <<row, time, redeemed, charged>>

CreateInsert(w, application, until, minimum, limit) ==
  /\ worker[w].at = "insert"
  /\ row' = [row EXCEPT ![worker[w].d] =
               [made |-> TRUE, code |-> worker[w].code, application |-> application, until |-> until,
                minimum |-> minimum, limit |-> limit, active |-> TRUE, count |-> 0]]
  /\ Put(w, Idle)
  /\ UNCHANGED <<time, redeemed, charged>>

(* update: the code is looked for in the other rows.                           *)
UpdateRead(w, d, code) ==
  /\ worker[w] = Idle /\ row[d].made
  /\ With(code) \ {d} = {}
  /\ Put(w, [Idle EXCEPT !.at = "update", !.d = d, !.code = code])
  /\ UNCHANGED <<row, time, redeemed, charged>>

UpdateWrite(w, limit, active) ==
  /\ worker[w].at = "update"
  /\ row' = [row EXCEPT ![worker[w].d].code = worker[w].code, ![worker[w].d].limit = limit, ![worker[w].d].active = active]
  /\ Put(w, Idle)
  /\ UNCHANGED <<time, redeemed, charged>>

deactivate(d) ==
  /\ row[d].made /\ row[d].active
  /\ row' = [row EXCEPT ![d].active = FALSE]
  /\ UNCHANGED <<time, worker, redeemed, charged>>

-----------------------------------------------------------------------------
(* validateCode, of a code that was found.  Nothing reads how it applies.       *)
validateCode(d) ==
  /\ row[d].active /\ time <= row[d].until
  /\ row[d].limit = 0 \/ row[d].count < row[d].limit    \* 0: no limit
  /\ Price >= row[d].minimum

(* validateForSession: one of the rows of the code ...                         *)
ApplyRead(w, s, d) ==
  /\ worker[w] = Idle /\ row[d].made /\ row[d].count < MaxUses
  /\ validateCode(d)
  /\ Put(w, [at |-> "count", d |-> d, s |-> s, code |-> row[d].code])
  /\ UNCHANGED <<row, time, redeemed, charged>>

(* Broken: the use of a code that was deactivated meanwhile is not counted.     *)
ApplyCountActive(w) ==
  LET d == worker[w].d IN
  /\ worker[w].at = "count"
  /\ row' = [row EXCEPT ![d].count = IF row[d].active THEN @ + 1 ELSE @]
  /\ redeemed' = [redeemed EXCEPT ![worker[w].s][d] = @ + 1]
  /\ Put(w, Idle)
  /\ UNCHANGED <<time, charged>>

(* ... and one more use, whatever the row has become.                          *)
ApplyCount(w) ==
  LET d == worker[w].d IN
  /\ worker[w].at = "count"
  /\ row' = [row EXCEPT ![d].count = @ + 1]
  /\ redeemed' = [redeemed EXCEPT ![worker[w].s][d] = @ + 1]
  /\ Put(w, Idle)
  /\ UNCHANGED <<time, charged>>

(* processPayment prices the booking by its service.                           *)
Charge(s) ==
  /\ charged[s] = 0
  /\ charged' = [charged EXCEPT ![s] = Price]
  /\ UNCHANGED <<row, time, worker, redeemed>>

Tick == time < MaxTime /\ time' = time + 1 /\ UNCHANGED <<row, worker, redeemed, charged>>

-----------------------------------------------------------------------------
Creates ==
  \E w \in Workers :
    \/ \E d \in Discounts, code \in Codes : CreateRead(w, d, code)
    \/ \E application \in Applications, until \in 0 .. MaxTime, minimum \in {0, Price + 1}, limit \in Limits :
         CreateInsert(w, application, until, minimum, limit)

Edits ==
  \/ \E w \in Workers :
       \/ \E d \in Discounts, code \in Codes : UpdateRead(w, d, code)
       \/ \E limit \in Limits, active \in BOOLEAN : UpdateWrite(w, limit, active)
  \/ \E d \in Discounts : deactivate(d)

Uses ==
  \/ \E w \in Workers : ApplyCount(w) \/ \E s \in Sessions, d \in Discounts : ApplyRead(w, s, d)
  \/ \E s \in Sessions : Charge(s)
  \/ Tick

Next == Creates \/ Edits \/ Uses
Spec == Init /\ [][Next]_vars

(* Codes that nobody edits.                                                   *)
KeptSpec == Init /\ [][Creates \/ Uses]_vars

(* The owner's pages alone.                                                   *)
OwnerSpec == Init /\ [][Creates \/ Edits]_vars

-----------------------------------------------------------------------------
(* Every answer that a code is valid is counted, also of requests that overlap *)
(* (validateForSession).                                                     *)
UsesCounted == \A d \in Discounts : row[d].count = MapThenSumSet(LAMBDA s : redeemed[s][d], Sessions)

(* More requests than one at a time can exceed the limit, by no more than       *)
(* there are beside one (validateForSession).                                 *)
OverrunBounded ==
  \A d \in Discounts : row[d].limit > 0 => row[d].count <= row[d].limit + Cardinality(Workers) - 1

(* Rows of one code are never more than the requests that wrote them at once   *)
(* (create, update).                                                         *)
CodesBounded == \A code \in Codes : Cardinality(With(code)) <= Cardinality(Workers)

(* The "Maximum number of times the code can be redeemed across all clients"   *)
(* (discounts.md), of a limit that nobody changes.                            *)
UsesWithinLimit == \A d \in Discounts : row[d].limit > 0 => row[d].count <= row[d].limit

(* "Unique discount code" (discounts.md).                                     *)
CodeIsUnique == \A code \in Codes : Cardinality(With(code)) <= 1

(* "Only staff can apply the discount" (discounts.md).                         *)
AdminOnlyKept ==
  \A d \in Discounts : row[d].application = "ADMIN_ONLY" => \A s \in Sessions : redeemed[s][d] = 0

(* "20% off a $100 service = $80" (discounts.md): a session that redeemed a     *)
(* code before it was priced pays less.                                       *)
DiscountTaken ==
  [][\A s \in Sessions : (charged[s] = 0 /\ charged'[s] > 0 /\ \E d \in Discounts : redeemed[s][d] > 0)
       => charged'[s] < Price]_vars
=============================================================================
