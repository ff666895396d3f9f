--------------------------- MODULE CircuitBreaker ---------------------------
(***************************************************************************)
(* The circuit breaker before calls to Stripe and Resend, for one scope    *)
(* and tenant, on the key-value store that replaced Redis: two rows of     *)
(* cache_entries, the failure counter and the state.                       *)
(*                                                                         *)
(* A row with a past expires_at is invisible to get, but it is a row:      *)
(* incr and expire find it until the hourly sweep deletes it.  Each store  *)
(* operation is one SQL statement; callers interleave between them.        *)
(***************************************************************************)
EXTENDS Naturals, FiniteSets

CONSTANTS
  Callers,        \* requests and jobs that call the service
  Threshold,      \* FAILURE_THRESHOLD
  MaxFailures,    \* a bound: failures recorded since the last success
  MaxDeaths       \* a bound: callers that die while they record a failure

BreakerAssumption ==
  IsFiniteSet(Callers) /\ Threshold \in Nat \ {0} /\ {MaxFailures, MaxDeaths} \subseteq Nat

VARIABLES
  count, ttl,     \* the counter row: its value (0: no row) and its expires_at
  state,          \* the state row: none, OPEN, or OPEN and expired
  caller,         \* the local state of each caller
  streak,         \* history: failures counted since the last success
  unopened,       \* history: failures counted since the last success or opening
  deaths          \* history: callers that died while they recorded a failure

rows == <<count, ttl, state>>
vars == <<count, ttl, state, caller, streak, unopened, deaths>>

Ttl      == {"none", "live", "expired"}       \* "none": NULL
StateRow == {"absent", "open", "expired"}
Points   == {"idle", "call", "success", "incr", "expire", "open"}
Idle     == [at |-> "idle", failures |-> 0]

TypeOK ==
  /\ count \in Nat /\ ttl \in Ttl /\ state \in StateRow
  /\ caller \in [Callers -> [at : Points, failures : Nat]]
  /\ streak \in Nat /\ unopened \in Nat /\ deaths \in Nat

Init ==
  /\ count = 0 /\ ttl = "none" /\ state = "absent"
  /\ caller = [w \in Callers |-> Idle]
  /\ streak = 0 /\ unopened = 0 /\ deaths = 0

Goto(w, point) == caller' = [caller EXCEPT ![w].at = point]
End(w)         == caller' = [caller EXCEPT ![w] = Idle]

-----------------------------------------------------------------------------
(* An expired OPEN row reads as no row: CLOSED and HALF_OPEN are the same.  *)
CanSend(w) ==
  /\ caller[w].at = "idle"
  /\ state # "open"
  /\ Goto(w, "call")
  /\ UNCHANGED <<rows, streak, unopened, deaths>>

CallSucceeds(w) ==
  /\ caller[w].at = "call"
  /\ Goto(w, "success")
  /\ UNCHANGED <<rows, streak, unopened, deaths>>

CallFails(w) ==
  /\ caller[w].at = "call"
  /\ streak < MaxFailures
  /\ Goto(w, "incr")
  /\ UNCHANGED <<rows, streak, unopened, deaths>>

(* Both keys in one DELETE. *)
RecordSuccess(w) ==
  /\ caller[w].at = "success"
  /\ count' = 0 /\ ttl' = "none" /\ state' = "absent"
  /\ streak' = 0 /\ unopened' = 0
  /\ End(w)
  /\ UNCHANGED deaths

(* INSERT ... ON CONFLICT DO UPDATE ... RETURNING: atomic; expires_at stays, *)
(* be it past.                                                               *)
RecordFailure(w) ==
  /\ caller[w].at = "incr"
  /\ count' = count + 1
  /\ streak' = streak + 1 /\ unopened' = unopened + 1
  /\ caller' = [caller EXCEPT ![w] = [at |-> "expire", failures |-> count + 1]]
  /\ UNCHANGED <<ttl, state, deaths>>

(* Broken: only the failure that reaches the threshold opens the circuit. *)
ExpireCounterOpensOnce(w) ==
  /\ caller[w].at = "expire"
  /\ ttl' = IF count > 0 THEN "live" ELSE ttl
  /\ IF caller[w].failures = Threshold THEN Goto(w, "open") ELSE End(w)
  /\ UNCHANGED <<count, state, streak, unopened, deaths>>

ExpireCounter(w) ==
  /\ caller[w].at = "expire"
  /\ ttl' = IF count > 0 THEN "live" ELSE ttl
  /\ IF caller[w].failures >= Threshold THEN Goto(w, "open") ELSE End(w)
  /\ UNCHANGED <<count, state, streak, unopened, deaths>>

Open(w) ==
  /\ caller[w].at = "open"
  /\ state' = "open"
  /\ unopened' = 0
  /\ End(w)
  /\ UNCHANGED <<count, ttl, streak, deaths>>

(* The process dies between two statements. *)
CallerDies(w) ==
  /\ caller[w].at # "idle"
  /\ deaths < MaxDeaths
  /\ deaths' = IF caller[w].at \in {"expire", "open"} THEN deaths + 1 ELSE deaths
  /\ End(w)
  /\ UNCHANGED <<rows, streak, unopened>>

(* Half an hour, five minutes pass. *)
CounterExpires ==
  /\ ttl = "live"
  /\ ttl' = "expired"
  /\ UNCHANGED <<count, state, caller, streak, unopened, deaths>>

OpenExpires ==
  /\ state = "open"
  /\ state' = "expired"
  /\ UNCHANGED <<count, ttl, caller, streak, unopened, deaths>>

Sweep ==
  /\ ttl = "expired" \/ state = "expired"
  /\ IF ttl = "expired"
     THEN count' = 0 /\ ttl' = "none" /\ streak' = 0 /\ unopened' = 0
     ELSE UNCHANGED <<count, ttl, streak, unopened>>
  /\ state' = IF state = "expired" THEN "absent" ELSE state
  /\ UNCHANGED <<caller, deaths>>

-----------------------------------------------------------------------------
Call(w) ==
  \/ CanSend(w) \/ CallSucceeds(w) \/ CallFails(w)
  \/ RecordSuccess(w) \/ RecordFailure(w) \/ ExpireCounter(w) \/ Open(w)
  \/ CallerDies(w)

Next ==
  \/ \E w \in Callers : Call(w)
  \/ CounterExpires \/ OpenExpires \/ Sweep

Spec == Init /\ [][Next]_vars

-----------------------------------------------------------------------------
(* A service that is down is called a bounded number of times before the     *)
(* circuit opens: Threshold calls fail, and the others then in flight; that   *)
(* is so the first time and each time the circuit has closed by itself.  A    *)
(* caller that dies before it opens the circuit costs one call more.          *)
CallsBounded == unopened <= Threshold - 1 + Cardinality(Callers) + deaths

(* A counter without a time to live, which nothing but a success would ever    *)
(* delete, is one that somebody is still recording a failure in, or died at.   *)
CounterHasTtl ==
  count > 0 /\ ttl = "none" => deaths > 0 \/ \E w \in Callers : caller[w].at = "expire"

(* "TTL for the failure counter (auto-reset after 30 minutes of no failures)" *)
(* says circuit-breaker.ts: a failure counted on an expired counter is the    *)
(* first of a new row.                                                        *)
CounterResets ==
  [][\A w \in Callers : RecordFailure(w) /\ ttl = "expired" => count' = 1]_vars

(* "One test request goes through", says circuit-breaker.ts of a circuit      *)
(* whose OPEN row has expired.                                                *)
OneTestRequest == state = "expired" => Cardinality({w \in Callers : caller[w].at = "call"}) <= 1
=============================================================================
