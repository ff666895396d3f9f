----------------------------- MODULE ManualSync -----------------------------
(***************************************************************************)
(* The limit on syncs asked for by hand: a counter in the cache that a     *)
(* request reads, compares and writes back.  The first write gives it a    *)
(* time to live of an hour; the cache's plain set takes that away again.   *)
(***************************************************************************)
EXTENDS Naturals, FiniteSets, Combinatorics

CONSTANTS
  Requests,   \* requests under way at once
  Limit,      \* 4
  Cap         \* bound: requests accepted while one counter lives

ManualSyncAssumption ==
  IsFiniteSet(Requests) /\ Requests # {} /\ {Limit, Cap} \subseteq Nat \ {0}

VARIABLES
  key,        \* the cache entry: [value, expires]; value 0: there is none
  read,       \* per request: the count it read
  at,         \* per request: idle, decide
  accepted    \* history: requests accepted since the entry was last missing

vars == <<key, read, at, accepted>>

TypeOK ==
  /\ key \in [value: 0 .. Limit, expires: BOOLEAN]
  /\ read \in [Requests -> 0 .. Limit] /\ at \in [Requests -> {"idle", "decide"}]
  /\ accepted \in 0 .. Cap

Missing == [value |-> 0, expires |-> FALSE]

Init ==
  /\ key = Missing /\ accepted = 0
  /\ read = [r \in Requests |-> 0] /\ at = [r \in Requests |-> "idle"]

-----------------------------------------------------------------------------
Ask(r) ==
  /\ at[r] = "idle"
  /\ read' = [read EXCEPT ![r] = key.value] /\ at' = [at EXCEPT ![r] = "decide"]
  /\ UNCHANGED <<key, accepted>>

Refuse(r) ==
  /\ at[r] = "decide" /\ read[r] >= Limit
  /\ at' = [at EXCEPT ![r] = "idle"]
  /\ UNCHANGED <<key, read, accepted>>

(* setex for the first request, set, which clears expiresAt, for the others.  *)
Written(count) == [value |-> count + 1, expires |-> count = 0]

Accept(r) ==
  /\ at[r] = "decide" /\ read[r] < Limit /\ accepted < Cap
  /\ key' = Written(read[r]) /\ accepted' = accepted + 1
  /\ at' = [at EXCEPT ![r] = "idle"]
  /\ UNCHANGED read

HourPasses ==
  /\ key.expires
  /\ key' = Missing /\ accepted' = 0
  /\ UNCHANGED <<read, at>>

Request(r) == Ask(r) \/ Refuse(r) \/ Accept(r)
Next == HourPasses \/ \E r \in Requests : Request(r)
Spec == Init /\ [][Next]_vars /\ WF_vars(HourPasses) /\ \A r \in Requests : WF_vars(Request(r))

-----------------------------------------------------------------------------
(* A request that read the counter long ago writes it back too low.  Still    *)
(* n requests at once are accepted a bounded number of times while the entry  *)
(* lives: less often than n of Limit + n can be chosen.                       *)
AcceptedBounded ==
  LET n == Cardinality(Requests) IN accepted < choose(Limit + n, n)

(* "Manual sync rate limit exceeded (max 4 per hour). Please wait before      *)
(* trying again": waiting helps.                                              *)
WaitingHelps == (key.value = Limit) ~> (key.value < Limit)
=============================================================================
