-------------------------- MODULE MCMessages_proofs --------------------------
(***************************************************************************)
(* Theorems about the components that MCMessages runs, for every value of  *)
(* their constants.  Each is an invariant of one component, which holds    *)
(* while that component steps and while the others do.                     *)
(***************************************************************************)
EXTENDS MCMessages, SetSums

-----------------------------------------------------------------------------
(* The circuit breaker.  Who has counted a failure that reaches the        *)
(* threshold opens the circuit or dies; each such caller may have counted  *)
(* one failure more than the threshold allows.                             *)
Opening(local) ==
  local.at = "open" \/ (local.at = "expire" /\ local.failures >= BreakerThreshold)

Openers == {w \in BreakerCallers : Opening(breakerCaller[w])}

BreakerInv ==
  /\ Breaker!TypeOK /\ Breaker!CounterHasTtl
  /\ breakerUnopened <= breakerCount
  /\ breakerUnopened <= BreakerThreshold - 1 + Cardinality(Openers) + breakerDeaths

(* An instance has its own copy of the operators its module extends.       *)
LEMMA BreakerFinite ==
  ASSUME NEW S
  PROVE  (Breaker!IsFiniteSet(S) <=> IsFiniteSet(S)) /\ Breaker!Cardinality(S) = Cardinality(S)
<1>1. Breaker!IsFiniteSet(S) <=> IsFiniteSet(S)
  BY DEF Breaker!IsFiniteSet, IsFiniteSet
<1>2. Breaker!Cardinality(S) = Cardinality(S)
  BY DEF Breaker!Cardinality, Cardinality
<1> QED
  BY <1>1, <1>2

LEMMA BreakerConstants ==
  IsFiniteSet(BreakerCallers) /\ BreakerThreshold \in Nat \ {0}
<1>1. Breaker!BreakerAssumption
  BY MessagesAssumption
<1> QED
  BY <1>1, BreakerFinite DEF Breaker!BreakerAssumption

LEMMA OpenersCount ==
  /\ IsFiniteSet(Openers) /\ Cardinality(Openers) \in Nat
  /\ Cardinality(Openers) <= Cardinality(BreakerCallers)
  /\ Cardinality(BreakerCallers) \in Nat
<1>1. Openers \subseteq BreakerCallers
  BY DEF Openers
<1> QED
  BY <1>1, BreakerConstants, FS_Subset, FS_CardinalityType

LEMMA BreakerInit == Breaker!Init => BreakerInv
<1> SUFFICES ASSUME Breaker!Init PROVE BreakerInv
  OBVIOUS
<1>1. Breaker!TypeOK
  BY DEF Breaker!Init, Breaker!TypeOK, Breaker!Idle, Breaker!Points, Breaker!Ttl, Breaker!StateRow
<1>2. Cardinality(Openers) \in Nat
  BY OpenersCount
<1> QED
  BY <1>1, <1>2, BreakerConstants DEF Breaker!Init, Breaker!CounterHasTtl, BreakerInv

(* Where a step takes a caller, and what it does to the openers.           *)
LEMMA OpenersAfter ==
  ASSUME Breaker!TypeOK, NEW w \in BreakerCallers, NEW q \in [at : Breaker!Points, failures : Nat],
         breakerCaller' = [breakerCaller EXCEPT ![w] = q]
  PROVE  /\ breakerCaller' \in [BreakerCallers -> [at : Breaker!Points, failures : Nat]]
         /\ Cardinality(Openers') \in Nat
         /\ (Opening(q) <=> Opening(breakerCaller[w])) => Cardinality(Openers') = Cardinality(Openers)
         /\ Opening(q) /\ ~Opening(breakerCaller[w]) => Cardinality(Openers') = Cardinality(Openers) + 1
         /\ ~Opening(q) /\ Opening(breakerCaller[w]) => Cardinality(Openers') = Cardinality(Openers) - 1
<1>1. \A v \in BreakerCallers \ {w} : Opening(breakerCaller'[v]) <=> Opening(breakerCaller[v])
  BY DEF Breaker!TypeOK, Opening
<1>2. CASE Opening(q)
  <2>1. Openers' = Openers \cup {w}
    BY <1>1, <1>2 DEF Openers, Breaker!TypeOK
  <2>2. w \in Openers <=> Opening(breakerCaller[w])
    BY DEF Openers
  <2>3. /\ IsFiniteSet(Openers \cup {w}) /\ Cardinality(Openers \cup {w}) \in Nat
        /\ Opening(breakerCaller[w]) => Cardinality(Openers \cup {w}) = Cardinality(Openers)
        /\ ~Opening(breakerCaller[w]) => Cardinality(Openers \cup {w}) = Cardinality(Openers) + 1
    BY <2>2, OpenersCount, FS_AddElement, FS_CardinalityType
  <2>4. breakerCaller' \in [BreakerCallers -> [at : Breaker!Points, failures : Nat]]
    BY DEF Breaker!TypeOK
  <2> QED
    BY <1>2, <2>1, <2>3, <2>4
<1>3. CASE ~Opening(q)
  <2>1. Openers' = Openers \ {w}
    BY <1>1, <1>3 DEF Openers, Breaker!TypeOK
  <2>2. w \in Openers <=> Opening(breakerCaller[w])
    BY DEF Openers
  <2>3. /\ IsFiniteSet(Openers \ {w}) /\ Cardinality(Openers \ {w}) \in Nat
        /\ Opening(breakerCaller[w]) => Cardinality(Openers \ {w}) = Cardinality(Openers) - 1
        /\ ~Opening(breakerCaller[w]) => Cardinality(Openers \ {w}) = Cardinality(Openers)
    BY <2>2, OpenersCount, FS_RemoveElement, FS_CardinalityType
  <2>4. breakerCaller' \in [BreakerCallers -> [at : Breaker!Points, failures : Nat]]
    BY DEF Breaker!TypeOK
  <2> QED
    BY <1>3, <2>1, <2>3, <2>4
<1> QED
  BY <1>2, <1>3

LEMMA BreakerCallStep ==
  ASSUME BreakerInv, NEW w \in BreakerCallers, Breaker!Call(w) PROVE BreakerInv'
<1> DEFINE Local == [at : Breaker!Points, failures : Nat]
<1>0. /\ Breaker!TypeOK /\ breakerCaller[w] \in Local /\ Breaker!Idle \in Local
      /\ BreakerThreshold \in Nat /\ BreakerThreshold > 0
      /\ Cardinality(Openers) \in Nat
  BY BreakerConstants, OpenersCount
     DEF BreakerInv, Breaker!TypeOK, Breaker!Idle, Breaker!Points
<1> USE DEF BreakerInv, Breaker!CounterHasTtl
<1>1. ASSUME NEW p \in {"call", "success", "incr"}, Breaker!Goto(w, p), ~Opening(breakerCaller[w]),
             breakerCaller[w].at # "expire",
             UNCHANGED <<breakerCount, breakerTtl, breakerState, breakerStreak, breakerUnopened, breakerDeaths>>
      PROVE  BreakerInv'
  <2> DEFINE q == [breakerCaller[w] EXCEPT !.at = p]
  <2>1. q \in Local /\ breakerCaller' = [breakerCaller EXCEPT ![w] = q]
    BY <1>0, <1>1 DEF Breaker!Goto, Breaker!Points
  <2>2. ~Opening(q) /\ breakerCaller'[w].at # "expire"
    BY <1>0, <1>1, <2>1 DEF Opening, Breaker!TypeOK
  <2>3. /\ breakerCaller' \in [BreakerCallers -> Local]
        /\ Cardinality(Openers') = Cardinality(Openers)
    <3> HIDE DEF q
    <3> QED
      BY <1>0, <1>1, <2>1, <2>2, OpenersAfter
  <2>4. \A v \in BreakerCallers : breakerCaller[v].at = "expire" => breakerCaller'[v].at = "expire"
    BY <1>1, <2>1 DEF Breaker!TypeOK
  <2> QED
    BY <1>0, <1>1, <2>3, <2>4 DEF Breaker!TypeOK
<1>2. CASE Breaker!CanSend(w)
  BY <1>1, <1>2 DEF Breaker!CanSend, Breaker!rows, Opening
<1>3. CASE Breaker!CallSucceeds(w)
  BY <1>1, <1>3 DEF Breaker!CallSucceeds, Breaker!rows, Opening
<1>4. CASE Breaker!CallFails(w)
  BY <1>1, <1>4 DEF Breaker!CallFails, Breaker!rows, Opening
<1>5. CASE Breaker!RecordSuccess(w)
  <2>1. breakerCaller' \in [BreakerCallers -> Local] /\ Cardinality(Openers') \in Nat
    BY <1>0, <1>5, OpenersAfter DEF Breaker!RecordSuccess, Breaker!End
  <2> QED
    BY <1>0, <1>5, <2>1 DEF Breaker!RecordSuccess, Breaker!TypeOK, Breaker!Ttl, Breaker!StateRow
<1>6. CASE Breaker!RecordFailure(w)
  <2> DEFINE q == [at |-> "expire", failures |-> breakerCount + 1]
  <2>1. q \in Local /\ breakerCaller' = [breakerCaller EXCEPT ![w] = q] /\ breakerCaller'[w] = q
    BY <1>0, <1>6 DEF Breaker!RecordFailure, Breaker!Points, Breaker!TypeOK
  <2>2. ~Opening(breakerCaller[w]) /\ (Opening(q) <=> breakerCount + 1 >= BreakerThreshold)
    BY <1>6, <2>1 DEF Breaker!RecordFailure, Opening
  <2>3. /\ breakerCaller' \in [BreakerCallers -> Local]
        /\ Cardinality(Openers') =
             IF breakerCount + 1 >= BreakerThreshold THEN Cardinality(Openers) + 1 ELSE Cardinality(Openers)
    <3> HIDE DEF q
    <3> QED
      BY <1>0, <2>1, <2>2, OpenersAfter
  <2>4. /\ breakerCount' = breakerCount + 1 /\ breakerUnopened' = breakerUnopened + 1
        /\ breakerStreak' = breakerStreak + 1
        /\ UNCHANGED <<breakerTtl, breakerState, breakerDeaths>>
    BY <1>6 DEF Breaker!RecordFailure
  <2>5. Breaker!TypeOK'
    BY <2>3, <2>4 DEF Breaker!TypeOK
  <2>6. breakerUnopened' <= BreakerThreshold - 1 + Cardinality(Openers') + breakerDeaths'
    BY <1>0, <2>3, <2>4 DEF Breaker!TypeOK
  <2> QED
    BY <2>1, <2>4, <2>5, <2>6 DEF Breaker!TypeOK
<1>7. CASE Breaker!ExpireCounter(w)
  <2> DEFINE q == IF breakerCaller[w].failures >= BreakerThreshold
                  THEN [breakerCaller[w] EXCEPT !.at = "open"] ELSE Breaker!Idle
  <2>1. q \in Local /\ breakerCaller' = [breakerCaller EXCEPT ![w] = q] /\ breakerCaller'[w] = q
    BY <1>0, <1>7 DEF Breaker!ExpireCounter, Breaker!Goto, Breaker!End, Breaker!Points, Breaker!TypeOK
  <2>2. Opening(q) <=> Opening(breakerCaller[w])
    BY <1>0, <1>7, <2>1 DEF Breaker!ExpireCounter, Opening, Breaker!Idle
  <2>3. breakerCaller' \in [BreakerCallers -> Local] /\ Cardinality(Openers') = Cardinality(Openers)
    <3> HIDE DEF q
    <3> QED
      BY <1>0, <2>1, <2>2, OpenersAfter
  <2>4. /\ breakerTtl' = (IF breakerCount > 0 THEN "live" ELSE breakerTtl)
        /\ UNCHANGED <<breakerCount, breakerState, breakerStreak, breakerUnopened, breakerDeaths>>
    BY <1>7 DEF Breaker!ExpireCounter
  <2> HIDE DEF q
  <2> QED
    BY <1>0, <2>3, <2>4 DEF Breaker!TypeOK, Breaker!Ttl
<1>8. CASE Breaker!Open(w)
  <2>1. breakerCaller' \in [BreakerCallers -> Local] /\ Cardinality(Openers') \in Nat
    BY <1>0, <1>8, OpenersAfter DEF Breaker!Open, Breaker!End
  <2>2. \A v \in BreakerCallers : breakerCaller[v].at = "expire" => breakerCaller'[v].at = "expire"
    BY <1>8 DEF Breaker!Open, Breaker!End, Breaker!TypeOK
  <2> QED
    BY <1>0, <1>8, <2>1, <2>2 DEF Breaker!Open, Breaker!TypeOK, Breaker!StateRow
<1>9. CASE Breaker!CallerDies(w)
  <2>1. /\ breakerCaller' = [breakerCaller EXCEPT ![w] = Breaker!Idle]
        /\ UNCHANGED <<breakerCount, breakerTtl, breakerState, breakerStreak, breakerUnopened>>
        /\ breakerDeaths' =
             IF breakerCaller[w].at \in {"expire", "open"} THEN breakerDeaths + 1 ELSE breakerDeaths
    BY <1>9 DEF Breaker!CallerDies, Breaker!End, Breaker!rows
  <2>2. ~Opening(Breaker!Idle)
    BY DEF Opening, Breaker!Idle
  <2>3. /\ breakerCaller' \in [BreakerCallers -> Local] /\ Cardinality(Openers') \in Nat
        /\ Cardinality(Openers') =
             IF Opening(breakerCaller[w]) THEN Cardinality(Openers) - 1 ELSE Cardinality(Openers)
    BY <1>0, <2>1, <2>2, OpenersAfter
  <2>4. breakerUnopened' <= BreakerThreshold - 1 + Cardinality(Openers') + breakerDeaths'
    BY <1>0, <2>1, <2>3 DEF Opening, Breaker!TypeOK
  <2>5. Breaker!CounterHasTtl'
    BY <1>0, <2>1 DEF Breaker!TypeOK
  <2> QED
    BY <2>1, <2>3, <2>4, <2>5 DEF Breaker!TypeOK
<1> QED
  BY <1>2, <1>3, <1>4, <1>5, <1>6, <1>7, <1>8, <1>9 DEF Breaker!Call

LEMMA BreakerStep == ASSUME BreakerInv, [Breaker!Next]_breakerVars PROVE BreakerInv'
<1> USE DEF BreakerInv, Breaker!CounterHasTtl
<1>1. ASSUME UNCHANGED breakerCaller PROVE Openers' = Openers
  BY <1>1 DEF Openers, Opening
<1>2. Cardinality(Openers) \in Nat /\ BreakerThreshold \in Nat \ {0}
  BY OpenersCount, BreakerConstants
<1>3. CASE UNCHANGED breakerVars
  BY <1>1, <1>3 DEF breakerVars, Breaker!TypeOK
<1>4. CASE Breaker!CounterExpires
  BY <1>1, <1>4 DEF Breaker!CounterExpires, Breaker!TypeOK, Breaker!Ttl
<1>5. CASE Breaker!OpenExpires
  BY <1>1, <1>5 DEF Breaker!OpenExpires, Breaker!TypeOK, Breaker!StateRow
<1>6. CASE Breaker!Sweep
  BY <1>1, <1>2, <1>6 DEF Breaker!Sweep, Breaker!TypeOK, Breaker!Ttl, Breaker!StateRow
<1> QED
  BY <1>3, <1>4, <1>5, <1>6, BreakerCallStep DEF Breaker!Next

(* A step of the application is one of the breaker, or none of it.         *)
LEMMA BreakerTurns == ASSUME [Next]_vars PROVE [Breaker!Next]_breakerVars
BY DEF Next, Turn, NoticesNext, vars, NotNotice, NotBreaker, NotHook, NotFlow, NotWait, NotMail, NotInbox,
       NotSub, NotConnect, NotSync

(* A service that is down is called a bounded number of times before its   *)
(* circuit opens, and a counter that nothing would expire is one somebody  *)
(* died at: for any number of callers and any threshold.                   *)
THEOREM CircuitBounds == Spec => []CircuitOpens
<1>1. Init => BreakerInv
  BY BreakerInit DEF Init, Start
<1>2. BreakerInv /\ [Next]_vars => BreakerInv'
  BY BreakerStep, BreakerTurns
<1>3. BreakerInv => CircuitOpens
  <2> SUFFICES ASSUME BreakerInv PROVE Breaker!CallsBounded
    BY DEF BreakerInv, CircuitOpens
  <2> QED
    BY OpenersCount, BreakerConstants, BreakerFinite DEF BreakerInv, Breaker!TypeOK, Breaker!CallsBounded
<1> QED
  BY <1>1, <1>2, <1>3, PTL DEF Spec

-----------------------------------------------------------------------------
(* Outgoing webhooks.  Who has recorded a failure counts it, and who has   *)
(* counted enough disables the endpoint: each may still be missing from    *)
(* the counter, or from the decision.                                      *)
HookCounting  == {d \in HookDeliveries : hookAt[d] = "count"}
HookDisabling == {d \in HookDeliveries : hookAt[d] \in {"count", "disable"}}

HookTyped ==
  /\ Hook(FALSE)!TypeOK
  /\ \A d \in HookDeliveries :
       /\ hookEvent[d] = "none" => hookTries[d] = 0
       /\ hookEvent[d] = "waiting" => hookTries[d] < HookTries
       /\ hookEvent[d] # "running" => hookAt[d] = "idle"

HookCounted ==
  /\ hookEndpoint.exists => hookInRow <= hookEndpoint.failures + Cardinality(HookCounting) + hookCut
  /\ hookEndpoint.active => hookInRow <= HookThreshold - 1 + Cardinality(HookDisabling) + hookCut

HookInv == HookTyped /\ HookCounted

LEMMA HookConstants ==
  /\ IsFiniteSet(HookDeliveries) /\ HookThreshold \in Nat \ {0} /\ HookTries \in Nat \ {0}
  /\ MaxHookEnables \in Nat
<1>1. Hook(FALSE)!WebhookAssumption
  BY MessagesAssumption
<1>2. Hook(FALSE)!IsFiniteSet(HookDeliveries) <=> IsFiniteSet(HookDeliveries)
  BY DEF Hook!IsFiniteSet, IsFiniteSet
<1> QED
  BY <1>1, <1>2 DEF Hook!WebhookAssumption

LEMMA HookCounts ==
  /\ IsFiniteSet(HookCounting) /\ Cardinality(HookCounting) \in Nat
  /\ IsFiniteSet(HookDisabling) /\ Cardinality(HookDisabling) \in Nat
<1>1. HookCounting \subseteq HookDeliveries /\ HookDisabling \subseteq HookDeliveries
  BY DEF HookCounting, HookDisabling
<1> QED
  BY <1>1, HookConstants, FS_Subset, FS_CardinalityType

LEMMA HookInit == Hook(FALSE)!Init => HookInv
<1> SUFFICES ASSUME Hook(FALSE)!Init PROVE HookInv
  OBVIOUS
<1>1. HookTyped
  BY HookConstants DEF Hook!Init, HookTyped, Hook!TypeOK, Hook!Status, Hook!Points
<1>2. HookCounted
  BY HookConstants, HookCounts DEF Hook!Init, HookCounted
<1> QED
  BY <1>1, <1>2 DEF HookInv

(* A handler that goes from one point to another leaves the one set and    *)
(* enters the other.                                                       *)
LEMMA HookMoves ==
  ASSUME HookTyped, NEW d \in HookDeliveries, NEW p, hookAt' = [hookAt EXCEPT ![d] = p]
  PROVE  /\ hookAt[d] # "count" /\ p = "count" => Cardinality(HookCounting') = Cardinality(HookCounting) + 1
         /\ hookAt[d] = "count" /\ p # "count" => Cardinality(HookCounting') = Cardinality(HookCounting) - 1
         /\ (hookAt[d] = "count" <=> p = "count") => HookCounting' = HookCounting
         /\ hookAt[d] \notin {"count", "disable"} /\ p \in {"count", "disable"} =>
              Cardinality(HookDisabling') = Cardinality(HookDisabling) + 1
         /\ hookAt[d] \in {"count", "disable"} /\ p \notin {"count", "disable"} =>
              Cardinality(HookDisabling') = Cardinality(HookDisabling) - 1
         /\ (hookAt[d] \in {"count", "disable"} <=> p \in {"count", "disable"}) => HookDisabling' = HookDisabling
<1>1. hookAt \in [HookDeliveries -> Hook(FALSE)!Points]
  BY DEF HookTyped, Hook!TypeOK
<1>2. \A e \in HookDeliveries : hookAt'[e] = IF e = d THEN p ELSE hookAt[e]
  BY <1>1
<1>3. ASSUME hookAt[d] # "count", p = "count" PROVE HookCounting' = HookCounting \cup {d} /\ d \notin HookCounting
  BY <1>2, <1>3 DEF HookCounting
<1>4. ASSUME hookAt[d] = "count", p # "count" PROVE HookCounting' = HookCounting \ {d} /\ d \in HookCounting
  BY <1>2, <1>4 DEF HookCounting
<1>5. ASSUME hookAt[d] = "count" <=> p = "count" PROVE HookCounting' = HookCounting
  BY <1>2, <1>5 DEF HookCounting
<1>6. ASSUME hookAt[d] \notin {"count", "disable"}, p \in {"count", "disable"}
      PROVE  HookDisabling' = HookDisabling \cup {d} /\ d \notin HookDisabling
  BY <1>2, <1>6 DEF HookDisabling
<1>7. ASSUME hookAt[d] \in {"count", "disable"}, p \notin {"count", "disable"}
      PROVE  HookDisabling' = HookDisabling \ {d} /\ d \in HookDisabling
  BY <1>2, <1>7 DEF HookDisabling
<1>8. ASSUME hookAt[d] \in {"count", "disable"} <=> p \in {"count", "disable"} PROVE HookDisabling' = HookDisabling
  BY <1>2, <1>8 DEF HookDisabling
<1>9. ASSUME NEW S, IsFiniteSet(S), Cardinality(S) \in Nat
      PROVE  /\ d \notin S => Cardinality(S \cup {d}) = Cardinality(S) + 1
             /\ d \in S => Cardinality(S \ {d}) = Cardinality(S) - 1
  <2>1. d \notin S => Cardinality(S \cup {d}) = Cardinality(S) + 1
    BY <1>9, FS_AddElement
  <2>2. d \in S => Cardinality(S \ {d}) = Cardinality(S) - 1
    BY <1>9, FS_RemoveElement
  <2> QED
    BY <2>1, <2>2
<1>10. hookAt[d] # "count" /\ p = "count" => Cardinality(HookCounting') = Cardinality(HookCounting) + 1
  BY <1>3, <1>9, HookCounts
<1>11. hookAt[d] = "count" /\ p # "count" => Cardinality(HookCounting') = Cardinality(HookCounting) - 1
  BY <1>4, <1>9, HookCounts
<1>12. hookAt[d] \notin {"count", "disable"} /\ p \in {"count", "disable"} =>
         Cardinality(HookDisabling') = Cardinality(HookDisabling) + 1
  BY <1>6, <1>9, HookCounts
<1>13. hookAt[d] \in {"count", "disable"} /\ p \notin {"count", "disable"} =>
         Cardinality(HookDisabling') = Cardinality(HookDisabling) - 1
  BY <1>7, <1>9, HookCounts
<1> QED
  BY <1>5, <1>8, <1>10, <1>11, <1>12, <1>13

(* Types, of a step that moves a handler from one point to another.        *)
LEMMA HookMoveTyped ==
  ASSUME HookTyped, NEW d \in HookDeliveries,
         NEW p \in Hook(FALSE)!Points, NEW e \in {"none", "waiting", "running", "done"}, NEW n \in 0 .. HookTries,
         hookAt' = [hookAt EXCEPT ![d] = p], hookEvent' = [hookEvent EXCEPT ![d] = e],
         hookTries' = [hookTries EXCEPT ![d] = n],
         e = "none" => n = 0, e = "waiting" => n < HookTries, e # "running" => p = "idle",
         hookEndpoint' \in [exists: BOOLEAN, active: BOOLEAN, failures: Nat],
         hookStatus' \in [HookDeliveries -> Hook(FALSE)!Status], hookAttempts' \in [HookDeliveries -> Nat],
         hookSeen' \in [HookDeliveries -> Nat], hookEnables' \in 0 .. MaxHookEnables,
         hookInRow' \in Nat, hookCut' \in Nat
  PROVE  HookTyped'
<1>1. Hook(FALSE)!TypeOK'
  BY DEF HookTyped, Hook!TypeOK
<1>2. \A x \in HookDeliveries :
        /\ hookEvent'[x] = "none" => hookTries'[x] = 0
        /\ hookEvent'[x] = "waiting" => hookTries'[x] < HookTries
        /\ hookEvent'[x] # "running" => hookAt'[x] = "idle"
  BY DEF HookTyped, Hook!TypeOK
<1> QED
  BY <1>1, <1>2 DEF HookTyped

(* The counters, of a step that moves a handler: what the move takes from  *)
(* one side of the inequalities it gives to the other.  First the cases of *)
(* such a step, then what they do to the numbers.                          *)
HookResets == hookInRow' = 0

HookPasses(d, p) ==
  /\ hookEndpoint'.exists => hookEndpoint.exists
  /\ hookEndpoint'.active => hookEndpoint.active
  /\ hookEndpoint'.failures = hookEndpoint.failures
  /\ hookAt[d] \notin {"count", "disable"} /\ p \notin {"count", "disable"}
  /\ hookInRow' = hookInRow /\ hookCut' = hookCut

HookRecords(d, p) ==
  /\ hookEndpoint' = hookEndpoint
  /\ hookAt[d] \notin {"count", "disable"} /\ p = "count"
  /\ hookInRow' = hookInRow + 1 /\ hookCut' = hookCut

HookIsCut(d, p) ==
  /\ hookEndpoint' = hookEndpoint
  /\ hookAt[d] \in {"count", "disable"} /\ p \notin {"count", "disable"}
  /\ hookInRow' = hookInRow /\ hookCut' = hookCut + 1

HookAdds(d, p) ==
  /\ hookEndpoint.exists
  /\ hookEndpoint'.active => hookEndpoint.active
  /\ hookEndpoint'.failures = hookEndpoint.failures + 1
  /\ hookAt[d] = "count" /\ (p = "disable" \/ (p = "idle" /\ hookEndpoint.failures + 1 < HookThreshold))
  /\ hookInRow' = hookInRow /\ hookCut' = hookCut

HookDisables(d, p) ==
  /\ hookEndpoint.exists /\ ~hookEndpoint'.active
  /\ hookEndpoint'.failures = hookEndpoint.failures
  /\ hookAt[d] = "disable" /\ p = "idle"
  /\ hookInRow' = hookInRow /\ hookCut' = hookCut

LEMMA HookMoveCounted ==
  ASSUME HookInv, NEW d \in HookDeliveries, NEW p, hookAt' = [hookAt EXCEPT ![d] = p],
         hookEndpoint' \in [exists: BOOLEAN, active: BOOLEAN, failures: Nat], hookInRow' \in Nat, hookCut' \in Nat,
         \/ HookResets \/ HookPasses(d, p) \/ HookRecords(d, p)
         \/ HookIsCut(d, p) \/ HookAdds(d, p) \/ HookDisables(d, p)
  PROVE  HookCounted'
<1>1. HookTyped /\ HookCounted
  BY DEF HookInv
<1> DEFINE C == Cardinality(HookCounting)
           D == Cardinality(HookDisabling)
           cc == Cardinality(HookCounting')
           dd == Cardinality(HookDisabling')
           F == hookEndpoint.failures
           f == hookEndpoint'.failures
           K == hookCut
           k == hookCut'
           R == hookInRow
           r == hookInRow'
           E == hookEndpoint.exists
           e == hookEndpoint'.exists
           A == hookEndpoint.active
           a == hookEndpoint'.active
<1>2. /\ hookAt[d] # "count" /\ p = "count" => cc = C + 1
      /\ hookAt[d] = "count" /\ p # "count" => cc = C - 1
      /\ (hookAt[d] = "count" <=> p = "count") => cc = C
      /\ hookAt[d] \notin {"count", "disable"} /\ p \in {"count", "disable"} => dd = D + 1
      /\ hookAt[d] \in {"count", "disable"} /\ p \notin {"count", "disable"} => dd = D - 1
      /\ (hookAt[d] \in {"count", "disable"} <=> p \in {"count", "disable"}) => dd = D
  BY <1>1, HookMoves
<1>3. C \in Nat /\ D \in Nat
  BY HookCounts
<1>4. cc \in Nat /\ dd \in Nat
  <2>1. HookCounting' \subseteq HookDeliveries /\ HookDisabling' \subseteq HookDeliveries
    BY DEF HookCounting, HookDisabling
  <2> QED
    BY <2>1, HookConstants, FS_Subset, FS_CardinalityType
<1>5. /\ E => R <= F + C + K
      /\ A => R <= HookThreshold - 1 + D + K
  BY <1>1 DEF HookCounted
<1>6. /\ R \in Nat /\ K \in Nat /\ F \in Nat /\ f \in Nat
      /\ r \in Nat /\ k \in Nat /\ HookThreshold \in Nat /\ HookThreshold >= 1
  BY <1>1, HookConstants DEF HookTyped, Hook!TypeOK
<1>7. C <= D
  BY HookCounts, FS_Subset DEF HookCounting, HookDisabling
<1> DEFINE Goal == (e => r <= f + cc + k) /\ (a => r <= HookThreshold - 1 + dd + k)
<1>8. ASSUME HookResets PROVE r = 0
  BY <1>8 DEF HookResets
<1>9. ASSUME HookPasses(d, p) PROVE (e => E) /\ (a => A) /\ f = F /\ cc = C /\ dd = D /\ r = R /\ k = K
  BY <1>2, <1>9 DEF HookPasses
<1>10. ASSUME HookRecords(d, p)
       PROVE  e = E /\ a = A /\ f = F /\ cc = C + 1 /\ dd = D + 1 /\ r = R + 1 /\ k = K
  BY <1>2, <1>10 DEF HookRecords
<1>11. ASSUME HookIsCut(d, p)
       PROVE  e = E /\ a = A /\ f = F /\ (cc = C \/ cc = C - 1) /\ dd = D - 1 /\ r = R /\ k = K + 1
  BY <1>2, <1>11 DEF HookIsCut
<1>12. ASSUME HookAdds(d, p)
       PROVE  /\ E /\ (a => A) /\ f = F + 1 /\ cc = C - 1 /\ r = R /\ k = K
              /\ dd = D \/ (dd = D - 1 /\ F + 1 < HookThreshold)
  BY <1>2, <1>12 DEF HookAdds
<1>13. ASSUME HookDisables(d, p) PROVE E /\ ~a /\ f = F /\ cc = C /\ r = R /\ k = K
  BY <1>2, <1>13 DEF HookDisables
<1>14. ASSUME Goal PROVE HookCounted'
  BY <1>14 DEF HookCounted
<1> HIDE DEF C, D, cc, dd, F, f, K, k, R, r, E, e, A, a
<1>15. ASSUME HookResets PROVE Goal
  <2>1. f + cc + k \in Nat /\ (HookThreshold - 1) + dd + k \in Nat
    BY <1>4, <1>6
  <2> QED
    BY <1>8, <1>15, <2>1
<1>16. ASSUME HookPasses(d, p) PROVE Goal
  BY <1>3, <1>5, <1>6, <1>9, <1>16
<1>17. ASSUME HookRecords(d, p) PROVE Goal
  BY <1>3, <1>5, <1>6, <1>10, <1>17
<1>18. ASSUME HookIsCut(d, p) PROVE Goal
  BY <1>3, <1>5, <1>6, <1>11, <1>18
<1>19. ASSUME HookAdds(d, p) PROVE Goal
  BY <1>3, <1>5, <1>6, <1>7, <1>12, <1>19
<1>20. ASSUME HookDisables(d, p) PROVE Goal
  BY <1>3, <1>5, <1>6, <1>13, <1>20
<1> QED
  BY <1>14, <1>15, <1>16, <1>17, <1>18, <1>19, <1>20

LEMMA HookMove ==
  ASSUME HookInv, NEW d \in HookDeliveries,
         NEW p \in Hook(FALSE)!Points, NEW e \in {"none", "waiting", "running", "done"}, NEW n \in 0 .. HookTries,
         hookAt' = [hookAt EXCEPT ![d] = p], hookEvent' = [hookEvent EXCEPT ![d] = e],
         hookTries' = [hookTries EXCEPT ![d] = n],
         e = "none" => n = 0, e = "waiting" => n < HookTries, e # "running" => p = "idle",
         hookEndpoint' \in [exists: BOOLEAN, active: BOOLEAN, failures: Nat],
         hookStatus' \in [HookDeliveries -> Hook(FALSE)!Status], hookAttempts' \in [HookDeliveries -> Nat],
         hookSeen' \in [HookDeliveries -> Nat], hookEnables' \in 0 .. MaxHookEnables,
         hookInRow' \in Nat, hookCut' \in Nat,
         \/ HookResets \/ HookPasses(d, p) \/ HookRecords(d, p)
         \/ HookIsCut(d, p) \/ HookAdds(d, p) \/ HookDisables(d, p)
  PROVE  HookInv'
BY HookMoveTyped, HookMoveCounted DEF HookInv

(* The steps of a handler.                                                 *)
LEMMA HookHandlerStep ==
  ASSUME HookInv, NEW d \in HookDeliveries,
         \/ Hook(FALSE)!Create(d) \/ Hook(FALSE)!Step(d)
         \/ Hook(FALSE)!StatementFails(d) \/ Hook(FALSE)!HandlerDies(d)
  PROVE  HookInv'
<1> USE HookConstants
<1>t. HookTyped
  BY DEF HookInv
<1>u. /\ hookEndpoint \in [exists: BOOLEAN, active: BOOLEAN, failures: Nat]
      /\ hookStatus \in [HookDeliveries -> Hook(FALSE)!Status] /\ hookAttempts \in [HookDeliveries -> Nat]
      /\ hookEvent \in [HookDeliveries -> {"none", "waiting", "running", "done"}]
      /\ hookAt \in [HookDeliveries -> Hook(FALSE)!Points] /\ hookSeen \in [HookDeliveries -> Nat]
      /\ hookTries \in [HookDeliveries -> 0 .. HookTries]
      /\ hookEnables \in 0 .. MaxHookEnables /\ hookInRow \in Nat /\ hookCut \in Nat
  BY <1>t DEF HookTyped, Hook!TypeOK
<1>v. /\ hookEvent[d] = "none" => hookTries[d] = 0
      /\ hookEvent[d] = "waiting" => hookTries[d] < HookTries
      /\ hookEvent[d] # "running" => hookAt[d] = "idle"
  BY <1>t DEF HookTyped
<1>1. CASE Hook(FALSE)!Create(d)
  <2>1. HookPasses(d, hookAt[d])
    BY <1>1, <1>u, <1>v DEF Hook!Create, Hook!handler, Hook!history, Hook!delivery, HookPasses
  <2>2. /\ hookAt' = [hookAt EXCEPT ![d] = hookAt[d]] /\ hookEvent' = [hookEvent EXCEPT ![d] = hookEvent[d]]
        /\ hookTries' = [hookTries EXCEPT ![d] = hookTries[d]]
    BY <1>1, <1>u, <1>v DEF Hook!Create, Hook!handler, Hook!history, Hook!delivery
  <2>3. /\ hookEndpoint' \in [exists: BOOLEAN, active: BOOLEAN, failures: Nat]
        /\ hookStatus' \in [HookDeliveries -> Hook(FALSE)!Status] /\ hookAttempts' \in [HookDeliveries -> Nat]
        /\ hookSeen' \in [HookDeliveries -> Nat] /\ hookEnables' \in 0 .. MaxHookEnables
        /\ hookInRow' \in Nat /\ hookCut' \in Nat
    BY <1>1, <1>u DEF Hook!Create, Hook!handler, Hook!history, Hook!delivery, Hook!Status
  <2>4. /\ hookAt[d] \in Hook(FALSE)!Points /\ hookEvent[d] \in {"none", "waiting", "running", "done"} /\ hookTries[d] \in 0 .. HookTries
        /\ (hookEvent[d] = "none" => hookTries[d] = 0) /\ (hookEvent[d] = "waiting" => hookTries[d] < HookTries) /\ (hookEvent[d] # "running" => hookAt[d] = "idle")
    BY <1>1, <1>u, <1>v DEF Hook!Create, Hook!handler, Hook!history, Hook!delivery, Hook!Points
  <2> QED
    BY <2>1, <2>2, <2>3, <2>4, HookMove
<1>2. CASE Hook(FALSE)!Dispatch(d)
  <2>1. HookPasses(d, hookAt[d])
    BY <1>2, <1>u, <1>v DEF Hook!Dispatch, Hook!handler, Hook!history, Hook!delivery, HookPasses
  <2>2. /\ hookAt' = [hookAt EXCEPT ![d] = hookAt[d]] /\ hookEvent' = [hookEvent EXCEPT ![d] = "waiting"]
        /\ hookTries' = [hookTries EXCEPT ![d] = hookTries[d]]
    BY <1>2, <1>u, <1>v DEF Hook!Dispatch, Hook!handler, Hook!history, Hook!delivery
  <2>3. /\ hookEndpoint' \in [exists: BOOLEAN, active: BOOLEAN, failures: Nat]
        /\ hookStatus' \in [HookDeliveries -> Hook(FALSE)!Status] /\ hookAttempts' \in [HookDeliveries -> Nat]
        /\ hookSeen' \in [HookDeliveries -> Nat] /\ hookEnables' \in 0 .. MaxHookEnables
        /\ hookInRow' \in Nat /\ hookCut' \in Nat
    BY <1>2, <1>u DEF Hook!Dispatch, Hook!handler, Hook!history, Hook!delivery, Hook!Status
  <2>4. /\ hookAt[d] \in Hook(FALSE)!Points /\ "waiting" \in {"none", "waiting", "running", "done"} /\ hookTries[d] \in 0 .. HookTries
        /\ ("waiting" = "none" => hookTries[d] = 0) /\ ("waiting" = "waiting" => hookTries[d] < HookTries) /\ ("waiting" # "running" => hookAt[d] = "idle")
    BY <1>2, <1>u, <1>v DEF Hook!Dispatch, Hook!handler, Hook!history, Hook!delivery, Hook!Points
  <2> QED
    BY <2>1, <2>2, <2>3, <2>4, HookMove
<1>3. CASE Hook(FALSE)!Run(d)
  <2>1. HookPasses(d, "read")
    BY <1>3, <1>u, <1>v DEF Hook!Run, Hook!handler, Hook!history, Hook!delivery, HookPasses
  <2>2. /\ hookAt' = [hookAt EXCEPT ![d] = "read"] /\ hookEvent' = [hookEvent EXCEPT ![d] = "running"]
        /\ hookTries' = [hookTries EXCEPT ![d] = (hookTries[d] + 1)]
    BY <1>3, <1>u, <1>v DEF Hook!Run, Hook!handler, Hook!history, Hook!delivery
  <2>3. /\ hookEndpoint' \in [exists: BOOLEAN, active: BOOLEAN, failures: Nat]
        /\ hookStatus' \in [HookDeliveries -> Hook(FALSE)!Status] /\ hookAttempts' \in [HookDeliveries -> Nat]
        /\ hookSeen' \in [HookDeliveries -> Nat] /\ hookEnables' \in 0 .. MaxHookEnables
        /\ hookInRow' \in Nat /\ hookCut' \in Nat
    BY <1>3, <1>u DEF Hook!Run, Hook!handler, Hook!history, Hook!delivery, Hook!Status
  <2>4. /\ "read" \in Hook(FALSE)!Points /\ "running" \in {"none", "waiting", "running", "done"} /\ (hookTries[d] + 1) \in 0 .. HookTries
        /\ ("running" = "none" => (hookTries[d] + 1) = 0) /\ ("running" = "waiting" => (hookTries[d] + 1) < HookTries) /\ ("running" # "running" => "read" = "idle")
    BY <1>3, <1>u, <1>v DEF Hook!Run, Hook!handler, Hook!history, Hook!delivery, Hook!Points
  <2> QED
    BY <2>1, <2>2, <2>3, <2>4, HookMove
<1>4. CASE Hook(FALSE)!Read(d) /\ hookStatus[d] = "none"
  <2>1. HookPasses(d, "idle")
    BY <1>4, <1>u, <1>v DEF Hook!Read, Hook!handler, Hook!history, Hook!delivery, Hook!Return, HookPasses
  <2>2. /\ hookAt' = [hookAt EXCEPT ![d] = "idle"] /\ hookEvent' = [hookEvent EXCEPT ![d] = "done"]
        /\ hookTries' = [hookTries EXCEPT ![d] = hookTries[d]]
    BY <1>4, <1>u, <1>v DEF Hook!Read, Hook!handler, Hook!history, Hook!delivery, Hook!Return
  <2>3. /\ hookEndpoint' \in [exists: BOOLEAN, active: BOOLEAN, failures: Nat]
        /\ hookStatus' \in [HookDeliveries -> Hook(FALSE)!Status] /\ hookAttempts' \in [HookDeliveries -> Nat]
        /\ hookSeen' \in [HookDeliveries -> Nat] /\ hookEnables' \in 0 .. MaxHookEnables
        /\ hookInRow' \in Nat /\ hookCut' \in Nat
    BY <1>4, <1>u DEF Hook!Read, Hook!handler, Hook!history, Hook!delivery, Hook!Return, Hook!Status
  <2>4. /\ "idle" \in Hook(FALSE)!Points /\ "done" \in {"none", "waiting", "running", "done"} /\ hookTries[d] \in 0 .. HookTries
        /\ ("done" = "none" => hookTries[d] = 0) /\ ("done" = "waiting" => hookTries[d] < HookTries) /\ ("done" # "running" => "idle" = "idle")
    BY <1>4, <1>u, <1>v DEF Hook!Read, Hook!handler, Hook!history, Hook!delivery, Hook!Return, Hook!Points
  <2> QED
    BY <2>1, <2>2, <2>3, <2>4, HookMove
<1>5. CASE Hook(FALSE)!Read(d) /\ hookStatus[d] # "none" /\ hookEndpoint.active
  <2>1. HookPasses(d, "post")
    BY <1>5, <1>u, <1>v DEF Hook!Read, Hook!handler, Hook!history, Hook!delivery, Hook!Goto, HookPasses
  <2>2. /\ hookAt' = [hookAt EXCEPT ![d] = "post"] /\ hookEvent' = [hookEvent EXCEPT ![d] = hookEvent[d]]
        /\ hookTries' = [hookTries EXCEPT ![d] = hookTries[d]]
    BY <1>5, <1>u, <1>v DEF Hook!Read, Hook!handler, Hook!history, Hook!delivery, Hook!Goto
  <2>3. /\ hookEndpoint' \in [exists: BOOLEAN, active: BOOLEAN, failures: Nat]
        /\ hookStatus' \in [HookDeliveries -> Hook(FALSE)!Status] /\ hookAttempts' \in [HookDeliveries -> Nat]
        /\ hookSeen' \in [HookDeliveries -> Nat] /\ hookEnables' \in 0 .. MaxHookEnables
        /\ hookInRow' \in Nat /\ hookCut' \in Nat
    BY <1>5, <1>u DEF Hook!Read, Hook!handler, Hook!history, Hook!delivery, Hook!Goto, Hook!Status
  <2>4. /\ "post" \in Hook(FALSE)!Points /\ hookEvent[d] \in {"none", "waiting", "running", "done"} /\ hookTries[d] \in 0 .. HookTries
        /\ (hookEvent[d] = "none" => hookTries[d] = 0) /\ (hookEvent[d] = "waiting" => hookTries[d] < HookTries) /\ (hookEvent[d] # "running" => "post" = "idle")
    BY <1>5, <1>u, <1>v DEF Hook!Read, Hook!handler, Hook!history, Hook!delivery, Hook!Goto, Hook!Points
  <2> QED
    BY <2>1, <2>2, <2>3, <2>4, HookMove
<1>6. CASE Hook(FALSE)!Read(d) /\ hookStatus[d] # "none" /\ ~hookEndpoint.active
  <2>1. HookPasses(d, "skip")
    BY <1>6, <1>u, <1>v DEF Hook!Read, Hook!handler, Hook!history, Hook!delivery, Hook!Goto, HookPasses
  <2>2. /\ hookAt' = [hookAt EXCEPT ![d] = "skip"] /\ hookEvent' = [hookEvent EXCEPT ![d] = hookEvent[d]]
        /\ hookTries' = [hookTries EXCEPT ![d] = hookTries[d]]
    BY <1>6, <1>u, <1>v DEF Hook!Read, Hook!handler, Hook!history, Hook!delivery, Hook!Goto
  <2>3. /\ hookEndpoint' \in [exists: BOOLEAN, active: BOOLEAN, failures: Nat]
        /\ hookStatus' \in [HookDeliveries -> Hook(FALSE)!Status] /\ hookAttempts' \in [HookDeliveries -> Nat]
        /\ hookSeen' \in [HookDeliveries -> Nat] /\ hookEnables' \in 0 .. MaxHookEnables
        /\ hookInRow' \in Nat /\ hookCut' \in Nat
    BY <1>6, <1>u DEF Hook!Read, Hook!handler, Hook!history, Hook!delivery, Hook!Goto, Hook!Status
  <2>4. /\ "skip" \in Hook(FALSE)!Points /\ hookEvent[d] \in {"none", "waiting", "running", "done"} /\ hookTries[d] \in 0 .. HookTries
        /\ (hookEvent[d] = "none" => hookTries[d] = 0) /\ (hookEvent[d] = "waiting" => hookTries[d] < HookTries) /\ (hookEvent[d] # "running" => "skip" = "idle")
    BY <1>6, <1>u, <1>v DEF Hook!Read, Hook!handler, Hook!history, Hook!delivery, Hook!Goto, Hook!Points
  <2> QED
    BY <2>1, <2>2, <2>3, <2>4, HookMove
<1>7. CASE Hook(FALSE)!Skip(d)
  <2>1. HookPasses(d, "idle")
    BY <1>7, <1>u, <1>v DEF Hook!Skip, Hook!handler, Hook!history, Hook!delivery, Hook!Return, HookPasses
  <2>2. /\ hookAt' = [hookAt EXCEPT ![d] = "idle"] /\ hookEvent' = [hookEvent EXCEPT ![d] = "done"]
        /\ hookTries' = [hookTries EXCEPT ![d] = hookTries[d]]
    BY <1>7, <1>u, <1>v DEF Hook!Skip, Hook!handler, Hook!history, Hook!delivery, Hook!Return
  <2>3. /\ hookEndpoint' \in [exists: BOOLEAN, active: BOOLEAN, failures: Nat]
        /\ hookStatus' \in [HookDeliveries -> Hook(FALSE)!Status] /\ hookAttempts' \in [HookDeliveries -> Nat]
        /\ hookSeen' \in [HookDeliveries -> Nat] /\ hookEnables' \in 0 .. MaxHookEnables
        /\ hookInRow' \in Nat /\ hookCut' \in Nat
    BY <1>7, <1>u DEF Hook!Skip, Hook!handler, Hook!history, Hook!delivery, Hook!Return, Hook!Status
  <2>4. /\ "idle" \in Hook(FALSE)!Points /\ "done" \in {"none", "waiting", "running", "done"} /\ hookTries[d] \in 0 .. HookTries
        /\ ("done" = "none" => hookTries[d] = 0) /\ ("done" = "waiting" => hookTries[d] < HookTries) /\ ("done" # "running" => "idle" = "idle")
    BY <1>7, <1>u, <1>v DEF Hook!Skip, Hook!handler, Hook!history, Hook!delivery, Hook!Return, Hook!Points
  <2> QED
    BY <2>1, <2>2, <2>3, <2>4, HookMove
<1>8. CASE Hook(FALSE)!Post(d)
  <2> PICK answer \in {"success", "failure"} : Hook(FALSE)!Goto(d, answer)
    BY <1>8 DEF Hook!Post
  <2>1. HookPasses(d, answer)
    BY <1>8, <1>u, <1>v DEF Hook!Post, Hook!handler, Hook!history, Hook!delivery, Hook!Goto, HookPasses
  <2>2. /\ hookAt' = [hookAt EXCEPT ![d] = answer] /\ hookEvent' = [hookEvent EXCEPT ![d] = hookEvent[d]]
        /\ hookTries' = [hookTries EXCEPT ![d] = hookTries[d]]
    BY <1>8, <1>u, <1>v DEF Hook!Post, Hook!handler, Hook!history, Hook!delivery, Hook!Goto
  <2>3. /\ hookEndpoint' \in [exists: BOOLEAN, active: BOOLEAN, failures: Nat]
        /\ hookStatus' \in [HookDeliveries -> Hook(FALSE)!Status] /\ hookAttempts' \in [HookDeliveries -> Nat]
        /\ hookSeen' \in [HookDeliveries -> Nat] /\ hookEnables' \in 0 .. MaxHookEnables
        /\ hookInRow' \in Nat /\ hookCut' \in Nat
    BY <1>8, <1>u DEF Hook!Post, Hook!handler, Hook!history, Hook!delivery, Hook!Goto, Hook!Status
  <2>4. /\ answer \in Hook(FALSE)!Points /\ hookEvent[d] \in {"none", "waiting", "running", "done"} /\ hookTries[d] \in 0 .. HookTries
        /\ (hookEvent[d] = "none" => hookTries[d] = 0) /\ (hookEvent[d] = "waiting" => hookTries[d] < HookTries) /\ (hookEvent[d] # "running" => answer = "idle")
    BY <1>8, <1>u, <1>v DEF Hook!Post, Hook!handler, Hook!history, Hook!delivery, Hook!Goto, Hook!Points
  <2> QED
    BY <2>1, <2>2, <2>3, <2>4, HookMove
<1>9. CASE Hook(FALSE)!RecordSuccess(d)
  <2>1. HookResets
    BY <1>9, <1>u, <1>v DEF Hook!RecordSuccess, Hook!handler, Hook!history, Hook!delivery, Hook!Return, Hook!History, HookResets
  <2>2. /\ hookAt' = [hookAt EXCEPT ![d] = "idle"] /\ hookEvent' = [hookEvent EXCEPT ![d] = "done"]
        /\ hookTries' = [hookTries EXCEPT ![d] = hookTries[d]]
    BY <1>9, <1>u, <1>v DEF Hook!RecordSuccess, Hook!handler, Hook!history, Hook!delivery, Hook!Return, Hook!History
  <2>3. /\ hookEndpoint' \in [exists: BOOLEAN, active: BOOLEAN, failures: Nat]
        /\ hookStatus' \in [HookDeliveries -> Hook(FALSE)!Status] /\ hookAttempts' \in [HookDeliveries -> Nat]
        /\ hookSeen' \in [HookDeliveries -> Nat] /\ hookEnables' \in 0 .. MaxHookEnables
        /\ hookInRow' \in Nat /\ hookCut' \in Nat
    BY <1>9, <1>u DEF Hook!RecordSuccess, Hook!handler, Hook!history, Hook!delivery, Hook!Return, Hook!History, Hook!Status
  <2>4. /\ "idle" \in Hook(FALSE)!Points /\ "done" \in {"none", "waiting", "running", "done"} /\ hookTries[d] \in 0 .. HookTries
        /\ ("done" = "none" => hookTries[d] = 0) /\ ("done" = "waiting" => hookTries[d] < HookTries) /\ ("done" # "running" => "idle" = "idle")
    BY <1>9, <1>u, <1>v DEF Hook!RecordSuccess, Hook!handler, Hook!history, Hook!delivery, Hook!Return, Hook!History, Hook!Points
  <2> QED
    BY <2>1, <2>2, <2>3, <2>4, HookMove
<1>10. CASE Hook(FALSE)!RecordFailure(d)
  <2>1. HookRecords(d, "count")
    BY <1>10, <1>u, <1>v DEF Hook!RecordFailure, Hook!handler, Hook!history, Hook!delivery, Hook!Goto, Hook!History, HookRecords
  <2>2. /\ hookAt' = [hookAt EXCEPT ![d] = "count"] /\ hookEvent' = [hookEvent EXCEPT ![d] = hookEvent[d]]
        /\ hookTries' = [hookTries EXCEPT ![d] = hookTries[d]]
    BY <1>10, <1>u, <1>v DEF Hook!RecordFailure, Hook!handler, Hook!history, Hook!delivery, Hook!Goto, Hook!History
  <2>3. /\ hookEndpoint' \in [exists: BOOLEAN, active: BOOLEAN, failures: Nat]
        /\ hookStatus' \in [HookDeliveries -> Hook(FALSE)!Status] /\ hookAttempts' \in [HookDeliveries -> Nat]
        /\ hookSeen' \in [HookDeliveries -> Nat] /\ hookEnables' \in 0 .. MaxHookEnables
        /\ hookInRow' \in Nat /\ hookCut' \in Nat
    BY <1>10, <1>u DEF Hook!RecordFailure, Hook!handler, Hook!history, Hook!delivery, Hook!Goto, Hook!History, Hook!Status
  <2>4. /\ "count" \in Hook(FALSE)!Points /\ hookEvent[d] \in {"none", "waiting", "running", "done"} /\ hookTries[d] \in 0 .. HookTries
        /\ (hookEvent[d] = "none" => hookTries[d] = 0) /\ (hookEvent[d] = "waiting" => hookTries[d] < HookTries) /\ (hookEvent[d] # "running" => "count" = "idle")
    BY <1>10, <1>u, <1>v DEF Hook!RecordFailure, Hook!handler, Hook!history, Hook!delivery, Hook!Goto, Hook!History, Hook!Points
  <2> QED
    BY <2>1, <2>2, <2>3, <2>4, HookMove
<1>11. CASE Hook(FALSE)!Count(d) /\ hookEndpoint.failures + 1 >= HookThreshold
  <2>a. /\ hookEndpoint.exists /\ hookAt[d] = "count" /\ hookInRow' = hookInRow /\ hookCut' = hookCut
        /\ hookEndpoint' = [hookEndpoint EXCEPT !.failures = @ + 1]
    BY <1>11 DEF Hook!Count, Hook!history
  <2>b. /\ hookEndpoint'.exists = hookEndpoint.exists /\ hookEndpoint'.active = hookEndpoint.active
        /\ hookEndpoint'.failures = hookEndpoint.failures + 1
    BY <2>a, <1>u
  <2>1. HookAdds(d, "disable")
    BY <2>a, <2>b DEF HookAdds
  <2>2. /\ hookAt' = [hookAt EXCEPT ![d] = "disable"] /\ hookEvent' = [hookEvent EXCEPT ![d] = hookEvent[d]]
        /\ hookTries' = [hookTries EXCEPT ![d] = hookTries[d]]
    BY <1>11, <1>u, <1>v DEF Hook!Count, Hook!handler, Hook!history, Hook!delivery, Hook!Goto
  <2>3. /\ hookEndpoint' \in [exists: BOOLEAN, active: BOOLEAN, failures: Nat]
        /\ hookStatus' \in [HookDeliveries -> Hook(FALSE)!Status] /\ hookAttempts' \in [HookDeliveries -> Nat]
        /\ hookSeen' \in [HookDeliveries -> Nat] /\ hookEnables' \in 0 .. MaxHookEnables
        /\ hookInRow' \in Nat /\ hookCut' \in Nat
    BY <1>11, <1>u DEF Hook!Count, Hook!handler, Hook!history, Hook!delivery, Hook!Goto, Hook!Status
  <2>4. /\ "disable" \in Hook(FALSE)!Points /\ hookEvent[d] \in {"none", "waiting", "running", "done"} /\ hookTries[d] \in 0 .. HookTries
        /\ (hookEvent[d] = "none" => hookTries[d] = 0) /\ (hookEvent[d] = "waiting" => hookTries[d] < HookTries) /\ (hookEvent[d] # "running" => "disable" = "idle")
    BY <1>11, <1>u, <1>v DEF Hook!Count, Hook!handler, Hook!history, Hook!delivery, Hook!Goto, Hook!Points
  <2> QED
    BY <2>1, <2>2, <2>3, <2>4, HookMove
<1>12. CASE Hook(FALSE)!Count(d) /\ ~(hookEndpoint.failures + 1 >= HookThreshold)
  <2>1. HookAdds(d, "idle")
    BY <1>12, <1>u, <1>v DEF Hook!Count, Hook!handler, Hook!history, Hook!delivery, Hook!Return, HookAdds
  <2>2. /\ hookAt' = [hookAt EXCEPT ![d] = "idle"] /\ hookEvent' = [hookEvent EXCEPT ![d] = "done"]
        /\ hookTries' = [hookTries EXCEPT ![d] = hookTries[d]]
    BY <1>12, <1>u, <1>v DEF Hook!Count, Hook!handler, Hook!history, Hook!delivery, Hook!Return
  <2>3. /\ hookEndpoint' \in [exists: BOOLEAN, active: BOOLEAN, failures: Nat]
        /\ hookStatus' \in [HookDeliveries -> Hook(FALSE)!Status] /\ hookAttempts' \in [HookDeliveries -> Nat]
        /\ hookSeen' \in [HookDeliveries -> Nat] /\ hookEnables' \in 0 .. MaxHookEnables
        /\ hookInRow' \in Nat /\ hookCut' \in Nat
    BY <1>12, <1>u DEF Hook!Count, Hook!handler, Hook!history, Hook!delivery, Hook!Return, Hook!Status
  <2>4. /\ "idle" \in Hook(FALSE)!Points /\ "done" \in {"none", "waiting", "running", "done"} /\ hookTries[d] \in 0 .. HookTries
        /\ ("done" = "none" => hookTries[d] = 0) /\ ("done" = "waiting" => hookTries[d] < HookTries) /\ ("done" # "running" => "idle" = "idle")
    BY <1>12, <1>u, <1>v DEF Hook!Count, Hook!handler, Hook!history, Hook!delivery, Hook!Return, Hook!Points
  <2> QED
    BY <2>1, <2>2, <2>3, <2>4, HookMove
<1>13. CASE Hook(FALSE)!Disable(d)
  <2>1. HookDisables(d, "idle")
    BY <1>13, <1>u, <1>v DEF Hook!Disable, Hook!handler, Hook!history, Hook!delivery, Hook!Return, HookDisables
  <2>2. /\ hookAt' = [hookAt EXCEPT ![d] = "idle"] /\ hookEvent' = [hookEvent EXCEPT ![d] = "done"]
        /\ hookTries' = [hookTries EXCEPT ![d] = hookTries[d]]
    BY <1>13, <1>u, <1>v DEF Hook!Disable, Hook!handler, Hook!history, Hook!delivery, Hook!Return
  <2>3. /\ hookEndpoint' \in [exists: BOOLEAN, active: BOOLEAN, failures: Nat]
        /\ hookStatus' \in [HookDeliveries -> Hook(FALSE)!Status] /\ hookAttempts' \in [HookDeliveries -> Nat]
        /\ hookSeen' \in [HookDeliveries -> Nat] /\ hookEnables' \in 0 .. MaxHookEnables
        /\ hookInRow' \in Nat /\ hookCut' \in Nat
    BY <1>13, <1>u DEF Hook!Disable, Hook!handler, Hook!history, Hook!delivery, Hook!Return, Hook!Status
  <2>4. /\ "idle" \in Hook(FALSE)!Points /\ "done" \in {"none", "waiting", "running", "done"} /\ hookTries[d] \in 0 .. HookTries
        /\ ("done" = "none" => hookTries[d] = 0) /\ ("done" = "waiting" => hookTries[d] < HookTries) /\ ("done" # "running" => "idle" = "idle")
    BY <1>13, <1>u, <1>v DEF Hook!Disable, Hook!handler, Hook!history, Hook!delivery, Hook!Return, Hook!Points
  <2> QED
    BY <2>1, <2>2, <2>3, <2>4, HookMove
<1>14. CASE Hook(FALSE)!StatementFails(d) /\ hookAt[d] = "success"
  <2>1. HookPasses(d, "failure")
    BY <1>14, <1>u, <1>v DEF Hook!StatementFails, Hook!handler, Hook!history, Hook!delivery, Hook!Goto, Hook!Throw, Hook!CutShort, HookPasses
  <2>2. /\ hookAt' = [hookAt EXCEPT ![d] = "failure"] /\ hookEvent' = [hookEvent EXCEPT ![d] = hookEvent[d]]
        /\ hookTries' = [hookTries EXCEPT ![d] = hookTries[d]]
    BY <1>14, <1>u, <1>v DEF Hook!StatementFails, Hook!handler, Hook!history, Hook!delivery, Hook!Goto, Hook!Throw, Hook!CutShort
  <2>3. /\ hookEndpoint' \in [exists: BOOLEAN, active: BOOLEAN, failures: Nat]
        /\ hookStatus' \in [HookDeliveries -> Hook(FALSE)!Status] /\ hookAttempts' \in [HookDeliveries -> Nat]
        /\ hookSeen' \in [HookDeliveries -> Nat] /\ hookEnables' \in 0 .. MaxHookEnables
        /\ hookInRow' \in Nat /\ hookCut' \in Nat
    BY <1>14, <1>u DEF Hook!StatementFails, Hook!handler, Hook!history, Hook!delivery, Hook!Goto, Hook!Throw, Hook!CutShort, Hook!Status
  <2>4. /\ "failure" \in Hook(FALSE)!Points /\ hookEvent[d] \in {"none", "waiting", "running", "done"} /\ hookTries[d] \in 0 .. HookTries
        /\ (hookEvent[d] = "none" => hookTries[d] = 0) /\ (hookEvent[d] = "waiting" => hookTries[d] < HookTries) /\ (hookEvent[d] # "running" => "failure" = "idle")
    BY <1>14, <1>u, <1>v DEF Hook!StatementFails, Hook!handler, Hook!history, Hook!delivery, Hook!Goto, Hook!Throw, Hook!CutShort, Hook!Points
  <2> QED
    BY <2>1, <2>2, <2>3, <2>4, HookMove
<1>15. CASE Hook(FALSE)!StatementFails(d) /\ hookAt[d] # "success"
  <2>1. HookIsCut(d, "idle") \/ HookPasses(d, "idle")
    BY <1>15, <1>u, <1>v DEF Hook!StatementFails, Hook!handler, Hook!history, Hook!delivery, Hook!Goto, Hook!Throw, Hook!CutShort, HookPasses, HookIsCut
  <2>2. /\ hookAt' = [hookAt EXCEPT ![d] = "idle"] /\ hookEvent' = [hookEvent EXCEPT ![d] = (IF hookTries[d] < HookTries THEN "waiting" ELSE "done")]
        /\ hookTries' = [hookTries EXCEPT ![d] = hookTries[d]]
    BY <1>15, <1>u, <1>v DEF Hook!StatementFails, Hook!handler, Hook!history, Hook!delivery, Hook!Goto, Hook!Throw, Hook!CutShort
  <2>3. /\ hookEndpoint' \in [exists: BOOLEAN, active: BOOLEAN, failures: Nat]
        /\ hookStatus' \in [HookDeliveries -> Hook(FALSE)!Status] /\ hookAttempts' \in [HookDeliveries -> Nat]
        /\ hookSeen' \in [HookDeliveries -> Nat] /\ hookEnables' \in 0 .. MaxHookEnables
        /\ hookInRow' \in Nat /\ hookCut' \in Nat
    BY <1>15, <1>u DEF Hook!StatementFails, Hook!handler, Hook!history, Hook!delivery, Hook!Goto, Hook!Throw, Hook!CutShort, Hook!Status
  <2>4. /\ "idle" \in Hook(FALSE)!Points /\ (IF hookTries[d] < HookTries THEN "waiting" ELSE "done") \in {"none", "waiting", "running", "done"} /\ hookTries[d] \in 0 .. HookTries
        /\ ((IF hookTries[d] < HookTries THEN "waiting" ELSE "done") = "none" => hookTries[d] = 0) /\ ((IF hookTries[d] < HookTries THEN "waiting" ELSE "done") = "waiting" => hookTries[d] < HookTries) /\ ((IF hookTries[d] < HookTries THEN "waiting" ELSE "done") # "running" => "idle" = "idle")
    BY <1>15, <1>u, <1>v DEF Hook!StatementFails, Hook!handler, Hook!history, Hook!delivery, Hook!Goto, Hook!Throw, Hook!CutShort, Hook!Points
  <2> QED
    BY <2>1, <2>2, <2>3, <2>4, HookMove
<1>16. CASE Hook(FALSE)!HandlerDies(d)
  <2>1. HookIsCut(d, "idle") \/ HookPasses(d, "idle")
    BY <1>16, <1>u, <1>v DEF Hook!HandlerDies, Hook!handler, Hook!history, Hook!delivery, Hook!Throw, Hook!CutShort, HookPasses, HookIsCut
  <2>2. /\ hookAt' = [hookAt EXCEPT ![d] = "idle"] /\ hookEvent' = [hookEvent EXCEPT ![d] = (IF hookTries[d] < HookTries THEN "waiting" ELSE "done")]
        /\ hookTries' = [hookTries EXCEPT ![d] = hookTries[d]]
    BY <1>16, <1>u, <1>v DEF Hook!HandlerDies, Hook!handler, Hook!history, Hook!delivery, Hook!Throw, Hook!CutShort
  <2>3. /\ hookEndpoint' \in [exists: BOOLEAN, active: BOOLEAN, failures: Nat]
        /\ hookStatus' \in [HookDeliveries -> Hook(FALSE)!Status] /\ hookAttempts' \in [HookDeliveries -> Nat]
        /\ hookSeen' \in [HookDeliveries -> Nat] /\ hookEnables' \in 0 .. MaxHookEnables
        /\ hookInRow' \in Nat /\ hookCut' \in Nat
    BY <1>16, <1>u DEF Hook!HandlerDies, Hook!handler, Hook!history, Hook!delivery, Hook!Throw, Hook!CutShort, Hook!Status
  <2>4. /\ "idle" \in Hook(FALSE)!Points /\ (IF hookTries[d] < HookTries THEN "waiting" ELSE "done") \in {"none", "waiting", "running", "done"} /\ hookTries[d] \in 0 .. HookTries
        /\ ((IF hookTries[d] < HookTries THEN "waiting" ELSE "done") = "none" => hookTries[d] = 0) /\ ((IF hookTries[d] < HookTries THEN "waiting" ELSE "done") = "waiting" => hookTries[d] < HookTries) /\ ((IF hookTries[d] < HookTries THEN "waiting" ELSE "done") # "running" => "idle" = "idle")
    BY <1>16, <1>u, <1>v DEF Hook!HandlerDies, Hook!handler, Hook!history, Hook!delivery, Hook!Throw, Hook!CutShort, Hook!Points
  <2> QED
    BY <2>1, <2>2, <2>3, <2>4, HookMove
<1> QED
  BY <1>1, <1>2, <1>3, <1>4, <1>5, <1>6, <1>7, <1>8, <1>9, <1>10, <1>11, <1>12, <1>13, <1>14, <1>15, <1>16 DEF Hook!Step

(* What the owner does with the endpoint.                                  *)
LEMMA HookOwnerStep ==
  ASSUME HookInv, Hook(FALSE)!Enable \/ Hook(FALSE)!OwnerDisables \/ Hook(FALSE)!Delete
  PROVE  HookInv'
<1> USE HookConstants
<1>1. HookTyped /\ HookCounted
  BY DEF HookInv
<1>2. UNCHANGED <<hookEvent, hookAt, hookSeen, hookTries, hookAttempts>>
  BY DEF Hook!Enable, Hook!OwnerDisables, Hook!Delete, Hook!handler, Hook!delivery
<1>3. HookCounting' = HookCounting /\ HookDisabling' = HookDisabling
  BY <1>2 DEF HookCounting, HookDisabling
<1>4. Cardinality(HookCounting) \in Nat /\ Cardinality(HookDisabling) \in Nat
  BY HookCounts
<1>5. HookTyped'
  <2>1. /\ hookEndpoint' \in [exists: BOOLEAN, active: BOOLEAN, failures: Nat]
        /\ hookStatus' \in [HookDeliveries -> Hook(FALSE)!Status]
        /\ hookEnables' \in 0 .. MaxHookEnables /\ hookInRow' \in Nat /\ hookCut' \in Nat
    <3>1. CASE Hook(FALSE)!Enable
      <4>1. hookEndpoint' \in [exists: BOOLEAN, active: BOOLEAN, failures: Nat]
        BY <1>1, <3>1 DEF HookTyped, Hook!TypeOK, Hook!Enable
      <4>2. hookEnables' \in 0 .. MaxHookEnables
        BY <1>1, <3>1 DEF HookTyped, Hook!TypeOK, Hook!Enable
      <4> QED
        BY <1>1, <3>1, <4>1, <4>2 DEF HookTyped, Hook!TypeOK, Hook!Enable, Hook!delivery, Hook!History
    <3>2. CASE Hook(FALSE)!OwnerDisables
      BY <1>1, <3>2 DEF HookTyped, Hook!TypeOK, Hook!OwnerDisables, Hook!delivery, Hook!history
    <3>3. CASE Hook(FALSE)!Delete
      BY <1>1, <3>3 DEF HookTyped, Hook!TypeOK, Hook!Status, Hook!Delete, Hook!history
    <3> QED
      BY <3>1, <3>2, <3>3
  <2> QED
    BY <1>1, <1>2, <2>1 DEF HookTyped, Hook!TypeOK
<1>6. CASE Hook(FALSE)!Enable
  <2>1. hookInRow' = 0 /\ hookCut' = 0 /\ hookEndpoint'.failures = 0
    BY <1>1, <1>6 DEF Hook!Enable, Hook!History, HookTyped, Hook!TypeOK
  <2> QED
    BY <1>3, <1>4, <1>5, <2>1 DEF HookInv, HookCounted
<1>7. CASE Hook(FALSE)!OwnerDisables
  <2>1. /\ hookInRow' = hookInRow /\ hookCut' = hookCut /\ ~hookEndpoint'.active
        /\ hookEndpoint'.exists = hookEndpoint.exists /\ hookEndpoint'.failures = hookEndpoint.failures
    BY <1>1, <1>7 DEF Hook!OwnerDisables, Hook!history, HookTyped, Hook!TypeOK
  <2> QED
    BY <1>1, <1>3, <1>5, <2>1 DEF HookInv, HookCounted
<1>8. CASE Hook(FALSE)!Delete
  <2>1. ~hookEndpoint'.exists /\ ~hookEndpoint'.active
    BY <1>8 DEF Hook!Delete
  <2> QED
    BY <1>5, <2>1 DEF HookInv, HookCounted
<1> QED
  BY <1>6, <1>7, <1>8

LEMMA HookStep == ASSUME HookInv, [Hook(FALSE)!Next]_hookVars PROVE HookInv'
<1>1. CASE UNCHANGED hookVars
  BY <1>1 DEF hookVars, HookInv, HookTyped, HookCounted, Hook!TypeOK, HookCounting, HookDisabling
<1> QED
  BY <1>1, HookHandlerStep, HookOwnerStep DEF Hook!Next

(* A step of the application is one of the webhooks, or none of them.      *)
LEMMA HookTurns == ASSUME [Next]_vars PROVE [Hook(FALSE)!Next]_hookVars
BY DEF Next, Turn, NoticesNext, vars, NotNotice, NotBreaker, NotHook, NotFlow, NotWait, NotMail, NotInbox,
       NotSub, NotConnect, NotSync

(* When nobody is about to count a failure, an endpoint that is active has *)
(* not failed HookThreshold times in a row but for what dying handlers cut  *)
(* short: for any number of deliveries, attempts and deaths.               *)
THEOREM FailuresAreCounted == Spec => []FailuresDisable
<1>1. Init => HookInv
  BY HookInit DEF Init, Start, NoticeModes
<1>2. HookInv /\ [Next]_vars => HookInv'
  BY HookStep, HookTurns
<1>3. HookInv => FailuresDisable
  <2> SUFFICES ASSUME HookInv, \A d \in HookDeliveries : hookAt[d] \notin {"count", "disable"}, hookEndpoint.active
               PROVE  hookInRow < HookThreshold + hookCut
    BY DEF HookInv, HookTyped, FailuresDisable, Hook!FailuresDisable
  <2>1. HookDisabling = {}
    BY DEF HookDisabling
  <2> QED
    BY <2>1, FS_EmptySet, HookConstants DEF HookInv, HookTyped, HookCounted, Hook!TypeOK
<1> QED
  BY <1>1, <1>2, <1>3, PTL DEF Spec
-----------------------------------------------------------------------------
(* The tenant's subscription.  A request that is under way works on an event *)
(* that Stripe has emitted.                                                *)
SubInv ==
  /\ Subscription(FALSE)!TypeOK
  /\ \A w \in StripeWorkers : subWork[w].at # "idle" => subWork[w].ev \in DOMAIN subEvents

LEMMA SubConstants ==
  /\ MaxStripeEvents \in Nat /\ MaxStripeDeaths \in Nat /\ FreePlan \in StripePlans
  /\ NoSub \notin StripeSubs
<1>1. Subscription(FALSE)!SubscriptionStateAssumption
  BY MessagesAssumption
<1> QED
  BY <1>1 DEF Subscription!SubscriptionStateAssumption

LEMMA SubInit == Subscription(FALSE)!Init => SubInv
<1> SUFFICES ASSUME Subscription(FALSE)!Init PROVE SubInv
  OBVIOUS
<1>1. DOMAIN subEvents = 1 .. 0 /\ subUnacked = {} /\ subLogged = {}
  BY DEF Subscription!Init
<1>2. /\ DOMAIN subEvents \in {1 .. n : n \in 0 .. MaxStripeEvents}
      /\ \A i \in DOMAIN subEvents : subEvents[i] \in Subscription(FALSE)!Event
      /\ \A w \in StripeWorkers : subWork[w].at # "idle" => subWork[w].ev \in DOMAIN subEvents
  BY <1>1, SubConstants DEF Subscription!Init, Subscription!Idle
<1> QED
  BY <1>1, <1>2, SubConstants
     DEF Subscription!Init, Subscription!TypeOK, Subscription!Idle, Subscription!Ids, SubInv

(* What Stripe emits: the events so far stay as they are.                  *)
LEMMA SubEmits ==
  ASSUME SubInv, NEW s \in StripeSubs, NEW kinds, NEW k \in {1, 2}, DOMAIN kinds = 1 .. k,
         \A i \in 1 .. k : kinds[i] \in {"failed", "paid", "deleted", "updated"},
         subStripe'[s].status \in {"trialing", "active", "past_due", "canceled"},
         subStripe'[s].tier \in StripePlans,
         Subscription(FALSE)!Emit(s, kinds)
  PROVE  /\ DOMAIN subEvents' \in {1 .. n : n \in 0 .. MaxStripeEvents}
         /\ DOMAIN subEvents \subseteq DOMAIN subEvents'
         /\ \A i \in DOMAIN subEvents' : subEvents'[i] \in Subscription(FALSE)!Event
         /\ subUnacked' \subseteq DOMAIN subEvents'
<1>1. PICK n \in 0 .. MaxStripeEvents : DOMAIN subEvents = 1 .. n
  BY DEF SubInv, Subscription!TypeOK, Subscription!Ids
<1>2. n \in Nat
  BY SubConstants
<1>3. Cardinality(1 .. n) = n /\ Cardinality(1 .. k) = k
  <2>1. ASSUME NEW m \in Nat PROVE Cardinality(1 .. m) = m
    <3>1. Cardinality(1 .. m) = IF 1 > m THEN 0 ELSE m - 1 + 1
      BY FS_Interval
    <3> QED
      BY <3>1
  <2> QED
    BY <1>2, <2>1
<1>4. Subscription(FALSE)!Cardinality(1 .. n) = n /\ Subscription(FALSE)!Cardinality(1 .. k) = k
  BY <1>3 DEF Subscription!Cardinality, Cardinality
<1>5. /\ n + k <= MaxStripeEvents
      /\ subEvents' = [i \in 1 .. n + k |-> IF i <= n THEN subEvents[i] ELSE Subscription(FALSE)!Say(s, kinds[i - n])]
      /\ subUnacked' = subUnacked \cup (n + 1 .. n + k)
  BY <1>1, <1>4 DEF Subscription!Emit, Subscription!Ids
<1>6. DOMAIN subEvents' = 1 .. n + k /\ n + k \in 0 .. MaxStripeEvents
  BY <1>2, <1>5, SubConstants
<1>7. ASSUME NEW i \in 1 .. n + k PROVE subEvents'[i] \in Subscription(FALSE)!Event
  <2>1. CASE i <= n
    <3>1. i \in DOMAIN subEvents
      BY <1>1, <1>2, <2>1
    <3>2. subEvents[i] \in Subscription(FALSE)!Event
      BY <3>1 DEF SubInv, Subscription!TypeOK, Subscription!Ids
    <3>3. subEvents'[i] = subEvents[i]
      BY <1>5, <2>1
    <3> QED
      BY <3>2, <3>3
  <2>2. CASE i > n
    <3>1. kinds[i - n] \in {"failed", "paid", "deleted", "updated"}
      BY <1>2, <2>2
    <3>2. subEvents'[i] = Subscription(FALSE)!Say(s, kinds[i - n])
      <4>1. ~(i <= n)
        BY <1>2, <2>2
      <4> QED
        BY <1>5, <4>1
    <3> QED
      BY <3>1, <3>2 DEF Subscription!Say, Subscription!Event
  <2>3. i <= n \/ i > n
    BY <1>2
  <2> QED
    BY <2>1, <2>2, <2>3
<1>8. subUnacked \subseteq 1 .. n
  BY <1>1 DEF SubInv, Subscription!TypeOK, Subscription!Ids
<1>9. 1 .. n \subseteq 1 .. n + k /\ n + 1 .. n + k \subseteq 1 .. n + k
  BY <1>2
<1> QED
  BY <1>1, <1>5, <1>6, <1>7, <1>8, <1>9

LEMMA SubStripeStep ==
  ASSUME SubInv,
         \/ \E s \in StripeSubs : \/ Subscription(FALSE)!TrialEnds(s) \/ Subscription(FALSE)!Declines(s)
                                  \/ Subscription(FALSE)!Recovers(s) \/ Subscription(FALSE)!Cancels(s)
         \/ \E s \in StripeSubs, t \in StripePlans : Subscription(FALSE)!createCheckoutSession(s, t)
  PROVE  SubInv' /\ subWork' = subWork
<1> DEFINE Kinds == {"failed", "paid", "deleted", "updated"}
           Status == {"trialing", "active", "past_due", "canceled"}
           Row == [status: {"none", "trialing", "active", "past_due", "canceled"}, tier: StripePlans]
<1>0. /\ subStripe \in [StripeSubs -> Row]
      /\ UNCHANGED <<subLogged, subTenant, subWork, subDeaths>>
  BY DEF SubInv, Subscription!TypeOK, Subscription!createCheckoutSession, Subscription!TrialEnds,
         Subscription!Declines, Subscription!Recovers, Subscription!Cancels, Subscription!Turn
<1>1. ASSUME NEW s \in StripeSubs, NEW row \in Row, row.status \in Status,
             NEW kinds, NEW k \in {1, 2}, DOMAIN kinds = 1 .. k, \A i \in 1 .. k : kinds[i] \in Kinds,
             subStripe' = [subStripe EXCEPT ![s] = row], Subscription(FALSE)!Emit(s, kinds), UNCHANGED subRefused
      PROVE  SubInv'
  <2>1. subStripe' \in [StripeSubs -> Row] /\ subStripe'[s] = row
    BY <1>0, <1>1
  <2>2. /\ DOMAIN subEvents' \in {1 .. n : n \in 0 .. MaxStripeEvents}
        /\ DOMAIN subEvents \subseteq DOMAIN subEvents'
        /\ \A i \in DOMAIN subEvents' : subEvents'[i] \in Subscription(FALSE)!Event
        /\ subUnacked' \subseteq DOMAIN subEvents'
    <3>1. subStripe'[s].status \in Status /\ subStripe'[s].tier \in StripePlans
      BY <1>1, <2>1
    <3> QED
      BY <1>1, <3>1, SubEmits
  <2> QED
    BY <1>0, <1>1, <2>1, <2>2 DEF SubInv, Subscription!TypeOK, Subscription!Ids, Subscription!Event
<1>2. ASSUME NEW s \in StripeSubs, NEW from, NEW to \in Status,
             NEW kinds, NEW k \in {1, 2}, DOMAIN kinds = 1 .. k, \A i \in 1 .. k : kinds[i] \in Kinds,
             Subscription(FALSE)!Turn(s, from, to, kinds)
      PROVE  SubInv'
  <2> DEFINE row == [subStripe[s] EXCEPT !.status = to]
  <2>1. row \in Row /\ row.status \in Status /\ subStripe' = [subStripe EXCEPT ![s] = row]
    BY <1>0, <1>2 DEF Subscription!Turn
  <2>2. Subscription(FALSE)!Emit(s, kinds) /\ UNCHANGED subRefused
    BY <1>2 DEF Subscription!Turn
  <2> HIDE DEF row
  <2> QED
    BY <1>1, <1>2, <2>1, <2>2
<1>3. ASSUME NEW a \in Kinds, NEW b \in Kinds
      PROVE  /\ DOMAIN <<a, b>> = 1 .. 2 /\ \A i \in 1 .. 2 : <<a, b>>[i] \in Kinds
             /\ DOMAIN <<a>> = 1 .. 1 /\ \A i \in 1 .. 1 : <<a>>[i] \in Kinds
  BY <1>3
<1>4. ASSUME NEW s \in StripeSubs, Subscription(FALSE)!TrialEnds(s) PROVE SubInv'
  BY <1>2, <1>3, <1>4 DEF Subscription!TrialEnds
<1>5. ASSUME NEW s \in StripeSubs, Subscription(FALSE)!Declines(s) PROVE SubInv'
  BY <1>2, <1>3, <1>5 DEF Subscription!Declines
<1>6. ASSUME NEW s \in StripeSubs, Subscription(FALSE)!Recovers(s) PROVE SubInv'
  BY <1>2, <1>3, <1>6 DEF Subscription!Recovers
<1>7. ASSUME NEW s \in StripeSubs, Subscription(FALSE)!Cancels(s) PROVE SubInv'
  <2>1. Subscription(FALSE)!Turn(s, {"trialing", "active", "past_due"}, "canceled", <<"deleted">>)
    BY <1>7 DEF Subscription!Cancels
  <2>2. DOMAIN <<"deleted">> = 1 .. 1 /\ \A i \in 1 .. 1 : <<"deleted">>[i] \in Kinds
    BY <1>3
  <2> QED
    BY <1>2, <2>1, <2>2
<1>8. ASSUME NEW s \in StripeSubs, NEW t \in StripePlans, Subscription(FALSE)!createCheckoutSession(s, t)
      PROVE  SubInv'
  <2>1. CASE subTenant.tier = t
    <3>1. UNCHANGED <<subStripe, subEvents, subUnacked>> /\ subRefused' \subseteq StripePlans
      <4>1. subRefused \subseteq StripePlans
        BY DEF SubInv, Subscription!TypeOK
      <4> QED
        BY <1>8, <2>1, <4>1 DEF Subscription!createCheckoutSession
    <3> QED
      BY <1>0, <3>1 DEF SubInv, Subscription!TypeOK, Subscription!Ids, Subscription!Event
  <2>2. CASE subTenant.tier # t
    <3> DEFINE row == [status |-> "trialing", tier |-> t]
    <3>1. row \in Row /\ row.status \in Status
      OBVIOUS
    <3>2. /\ subStripe' = [subStripe EXCEPT ![s] = row]
          /\ Subscription(FALSE)!Emit(s, <<"updated">>) /\ UNCHANGED subRefused
      BY <1>8, <2>2 DEF Subscription!createCheckoutSession
    <3> HIDE DEF row
    <3> QED
      BY <1>1, <1>3, <3>1, <3>2
  <2> QED
    BY <2>1, <2>2
<1> QED
  BY <1>0, <1>4, <1>5, <1>6, <1>7, <1>8

LEMMA SubWorkerStep ==
  ASSUME SubInv, NEW w \in StripeWorkers,
         \/ Subscription(FALSE)!Step(w) \/ Subscription(FALSE)!Throw(w) \/ Subscription(FALSE)!Die(w)
         \/ \E e \in Subscription(FALSE)!Ids : Subscription(FALSE)!Receive(w, e)
  PROVE  SubInv'
<1> DEFINE Local == [at: {"idle", "log", "find", "write"}, ev: 0 .. MaxStripeEvents]
           Live(q) == q.at # "idle" => q.ev \in DOMAIN subEvents
           Row == [status: {"ACTIVE", "PAST_DUE", "TRIALING", "CANCELED"}, sub: StripeSubs \cup {NoSub},
                   tier: StripePlans, grace: BOOLEAN]
<1>0. /\ subWork \in [StripeWorkers -> Local] /\ subWork[w] \in Local /\ Live(subWork[w])
      /\ DOMAIN subEvents \subseteq 0 .. MaxStripeEvents
      /\ \A i \in DOMAIN subEvents : subEvents[i] \in Subscription(FALSE)!Event
      /\ subUnacked \subseteq DOMAIN subEvents /\ subLogged \subseteq DOMAIN subEvents
      /\ subTenant \in Row /\ subDeaths \in 0 .. MaxStripeDeaths
  <2>1. DOMAIN subEvents \subseteq 0 .. MaxStripeEvents
    BY SubConstants DEF SubInv, Subscription!TypeOK, Subscription!Ids
  <2>2. subWork \in [StripeWorkers -> Local] /\ subWork[w] \in Local
    BY DEF SubInv, Subscription!TypeOK
  <2>3. Live(subWork[w])
    BY DEF SubInv
  <2>4. subTenant \in Row
    BY DEF SubInv, Subscription!TypeOK
  <2> QED
    BY <2>1, <2>2, <2>3, <2>4 DEF SubInv, Subscription!TypeOK, Subscription!Ids
<1>1. ASSUME NEW q \in Local, Live(q), subWork' = [subWork EXCEPT ![w] = q],
             UNCHANGED <<subStripe, subEvents, subRefused>>,
             subUnacked' \subseteq DOMAIN subEvents, subLogged' \subseteq DOMAIN subEvents,
             subTenant' \in Row, subDeaths' \in 0 .. MaxStripeDeaths
      PROVE  SubInv'
  BY <1>1 DEF SubInv, Subscription!TypeOK, Subscription!Ids, Subscription!Event
<1>2. Subscription(FALSE)!Idle \in Local /\ Live(Subscription(FALSE)!Idle)
  BY SubConstants DEF Subscription!Idle
<1>3. ASSUME NEW at \in {"idle", "log", "find", "write"}, NEW e \in DOMAIN subEvents
      PROVE  [at |-> at, ev |-> e] \in Local /\ Live([at |-> at, ev |-> e])
  BY <1>0, <1>3
<1>4. CASE Subscription(FALSE)!Log(w)
  <2> DEFINE e == subWork[w].ev
             q == IF e \in subLogged THEN Subscription(FALSE)!Idle ELSE [at |-> "find", ev |-> e]
  <2>1. e \in DOMAIN subEvents
    BY <1>0, <1>4 DEF Subscription!Log
  <2>2. q \in Local /\ Live(q)
    BY <1>2, <1>3, <2>1
  <2>3. subWork' = [subWork EXCEPT ![w] = q]
    BY <1>4 DEF Subscription!Log, Subscription!Goto, Subscription!Idle
  <2>4. /\ subLogged' \subseteq DOMAIN subEvents
        /\ UNCHANGED <<subStripe, subEvents, subUnacked, subTenant, subRefused, subDeaths>>
    BY <1>0, <1>4, <2>1 DEF Subscription!Log
  <2> HIDE DEF q
  <2> QED
    BY <1>0, <1>1, <2>2, <2>3, <2>4
<1>5. CASE Subscription(FALSE)!Find(w)
  <2> DEFINE e == subWork[w].ev
  <2>1. /\ e \in DOMAIN subEvents
        /\ UNCHANGED <<subStripe, subEvents, subLogged, subTenant, subRefused, subDeaths>>
    BY <1>0, <1>5 DEF Subscription!Find
  <2>2. PICK q \in Local : /\ Live(q) /\ subWork' = [subWork EXCEPT ![w] = q]
                           /\ subUnacked' \subseteq DOMAIN subEvents
    <3>1. CASE Subscription(FALSE)!Handled(w)
      BY <1>0, <1>2, <3>1 DEF Subscription!Handled
    <3>2. CASE Subscription(FALSE)!Goto(w, "write", e) /\ UNCHANGED subUnacked
      BY <1>0, <1>3, <2>1, <3>2 DEF Subscription!Goto
    <3> QED
      BY <1>5, <3>1, <3>2 DEF Subscription!Find
  <2> QED
    BY <1>0, <1>1, <2>1, <2>2
<1>6. CASE Subscription(FALSE)!Write(w)
  <2> DEFINE e == subEvents[subWork[w].ev]
  <2>1. e \in Subscription(FALSE)!Event
    BY <1>0, <1>6 DEF Subscription!Write
  <2>2. Subscription(FALSE)!StatusOf(e.status) \in {"ACTIVE", "PAST_DUE", "TRIALING", "CANCELED"}
    BY <1>0 DEF Subscription!StatusOf
  <2>3. subTenant' \in Row
    <3>1. CASE e.kind = "failed"
      BY <1>0, <1>6, <3>1 DEF Subscription!Write, Subscription!handleInvoicePaymentFailed
    <3>2. CASE e.kind = "paid"
      BY <1>0, <1>6, <3>2 DEF Subscription!Write, Subscription!handleInvoicePaid
    <3>3. CASE e.kind = "deleted"
      BY <1>0, <1>6, <3>3 DEF Subscription!Write, Subscription!handleSubscriptionDeleted
    <3>4. CASE e.kind = "updated"
      <4>1. subTenant' = Subscription(FALSE)!handleSubscriptionUpdated(e)
        BY <1>6, <3>4 DEF Subscription!Write
      <4>2. e.sub \in StripeSubs /\ e.tier \in StripePlans
        BY <2>1 DEF Subscription!Event
      <4> QED
        BY <1>0, <2>2, <4>1, <4>2 DEF Subscription!handleSubscriptionUpdated
    <3> QED
      BY <2>1, <3>1, <3>2, <3>3, <3>4 DEF Subscription!Event
  <2>4. /\ subWork' = [subWork EXCEPT ![w] = Subscription(FALSE)!Idle] /\ subUnacked' \subseteq DOMAIN subEvents
        /\ UNCHANGED <<subStripe, subEvents, subLogged, subRefused, subDeaths>>
    BY <1>0, <1>6 DEF Subscription!Write, Subscription!Handled
  <2> QED
    BY <1>0, <1>1, <1>2, <2>3, <2>4
<1>7. CASE Subscription(FALSE)!Throw(w) \/ Subscription(FALSE)!Die(w)
  <2>1. /\ subWork' = [subWork EXCEPT ![w] = Subscription(FALSE)!Idle] /\ subUnacked' \subseteq DOMAIN subEvents
        /\ UNCHANGED <<subStripe, subEvents, subLogged, subRefused, subTenant>>
        /\ subDeaths' \in 0 .. MaxStripeDeaths
    <3>1. CASE Subscription(FALSE)!Throw(w)
      BY <1>0, <3>1, SubConstants DEF Subscription!Throw, Subscription!Handled
    <3>2. CASE Subscription(FALSE)!Die(w)
      BY <1>0, <3>2, SubConstants DEF Subscription!Die
    <3> QED
      BY <1>7, <3>1, <3>2
  <2> QED
    BY <1>0, <1>1, <1>2, <2>1
<1>8. ASSUME NEW e \in Subscription(FALSE)!Ids, Subscription(FALSE)!Receive(w, e) PROVE SubInv'
  <2>1. /\ e \in DOMAIN subEvents
        /\ UNCHANGED <<subStripe, subEvents, subLogged, subTenant, subRefused, subDeaths>>
    BY <1>8 DEF Subscription!Receive, Subscription!Ids
  <2>2. CASE subUnacked' = subUnacked \ {e} /\ UNCHANGED subWork
    BY <2>1, <2>2 DEF SubInv, Subscription!TypeOK, Subscription!Ids, Subscription!Event
  <2>3. CASE Subscription(FALSE)!Goto(w, "log", e) /\ UNCHANGED subUnacked
    <3> DEFINE q == [at |-> "log", ev |-> e]
    <3>1. q \in Local /\ Live(q) /\ subWork' = [subWork EXCEPT ![w] = q]
      BY <1>3, <2>1, <2>3 DEF Subscription!Goto
    <3> HIDE DEF q
    <3> QED
      BY <1>0, <1>1, <2>1, <2>3, <3>1
  <2> QED
    BY <1>8, <2>2, <2>3 DEF Subscription!Receive
<1> QED
  BY <1>4, <1>5, <1>6, <1>7, <1>8 DEF Subscription!Step

LEMMA SubStep == ASSUME SubInv, [Subscription(FALSE)!Next]_subVars PROVE SubInv'
<1>1. CASE UNCHANGED subVars
  BY <1>1 DEF subVars, SubInv, Subscription!TypeOK, Subscription!Ids, Subscription!Event
<1> QED
  BY <1>1, SubStripeStep, SubWorkerStep DEF Subscription!Next

(* Only the insert of an event's row, whose number is unique, brings a       *)
(* request to the handler.                                                 *)
LEMMA SubStartsOnce ==
  ASSUME SubInv, [Subscription(FALSE)!Next]_subVars PROVE Subscription(FALSE)!StartsOnce
<1> SUFFICES ASSUME NEW w \in StripeWorkers, subWork'[w].at = "find", subWork[w].at # "find"
             PROVE  subWork'[w].ev \notin subLogged
  BY DEF Subscription!StartsOnce
<1>0. w \in DOMAIN subWork
  BY DEF SubInv, Subscription!TypeOK
<1>1. subWork' # subWork
  OBVIOUS
<1>2. PICK v \in StripeWorkers :
        \/ Subscription(FALSE)!Step(v) \/ Subscription(FALSE)!Throw(v) \/ Subscription(FALSE)!Die(v)
        \/ \E e \in Subscription(FALSE)!Ids : Subscription(FALSE)!Receive(v, e)
  BY <1>1, SubStripeStep DEF Subscription!Next, subVars
<1>3. PICK q : subWork' = [subWork EXCEPT ![v] = q] \/ subWork' = subWork
  BY <1>2 DEF Subscription!Step, Subscription!Log, Subscription!Find, Subscription!Write, Subscription!Throw,
              Subscription!Die, Subscription!Receive, Subscription!Handled, Subscription!Goto
<1>4. v = w
  BY <1>0, <1>3
<1>5. CASE Subscription(FALSE)!Log(w)
  BY <1>0, <1>5 DEF Subscription!Log, Subscription!Goto
<1>6. ~Subscription(FALSE)!Find(w)
  BY DEF Subscription!Find
<1>7. ASSUME Subscription(FALSE)!Write(w) \/ Subscription(FALSE)!Throw(w) \/ Subscription(FALSE)!Die(w) PROVE FALSE
  <2>1. subWork' = [subWork EXCEPT ![w] = Subscription(FALSE)!Idle]
    BY <1>7 DEF Subscription!Write, Subscription!Throw, Subscription!Die, Subscription!Handled
  <2> QED
    BY <1>0, <2>1 DEF Subscription!Idle
<1>8. ASSUME NEW e, Subscription(FALSE)!Receive(w, e) PROVE FALSE
  <2>1. subWork' = [subWork EXCEPT ![w] = [at |-> "log", ev |-> e]]
    BY <1>1, <1>8 DEF Subscription!Receive, Subscription!Goto
  <2> QED
    BY <1>0, <2>1
<1> QED
  BY <1>2, <1>4, <1>5, <1>6, <1>7, <1>8 DEF Subscription!Step

(* A step of the application is one of the subscription, when that is what   *)
(* runs.                                                                   *)
LEMMA SubTurns == ASSUME [Next]_vars, under = "subscription" PROVE [Subscription(FALSE)!Next]_subVars
BY DEF Next, Turn, NoticesNext, vars, NotNotice, NotBreaker, NotHook, NotFlow, NotWait, NotMail, NotInbox,
       NotSub, NotConnect, NotSync

-----------------------------------------------------------------------------
(* The tenant's Stripe account.  While nobody gives it up, whoever is about   *)
(* to write the flag works for the account that the tenant has, and has been  *)
(* told by Stripe, if the flag is to be set, that its charges are enabled.    *)
ConnectTyped ==
  /\ Connect(FALSE)!TypeOK
  /\ \A w \in StripeWorkers : connectWorker[w].at = "ask.event" => connectWorker[w].a \in StripeAccounts

Reported(local) == local.at = "set.status" \/ (local.at = "set.event" /\ local.flag = TRUE)

ConnectKept ==
  /\ Connect(FALSE)!OnboardedIsReal
  /\ \A a \in StripeAccounts : connectStripe[a].charges = TRUE => connectStripe[a].ever = TRUE
  /\ \A e \in connectNews : e.kind # "deauthorized"
  /\ \A w \in StripeWorkers :
       LET local == connectWorker[w] IN
       /\ local.at # "clear"
       /\ local.at \in {"ask.status", "set.status", "ask.event", "set.event"} =>
            local.a = connectAccount /\ connectAccount # None
       /\ Reported(local) => connectStripe[connectAccount].ever = TRUE

LEMMA ConnectConstants == None \notin StripeAccounts /\ MaxStripeChanges \in Nat
<1>1. Connect(FALSE)!ConnectAssumption
  BY MessagesAssumption
<1> QED
  BY <1>1 DEF Connect!ConnectAssumption

ConnectPoints ==
  {"idle", "create", "claim", "ask.status", "set.status", "ask.event", "set.event", "clear"}
ConnectLocal == [at : ConnectPoints, a : StripeAccounts \cup {None}, flag : BOOLEAN]
ConnectRow   == [made : BOOLEAN, charges : BOOLEAN, ever : BOOLEAN]

LEMMA ConnectInit == Connect(FALSE)!Init => ConnectTyped /\ ConnectKept
<1> SUFFICES ASSUME Connect(FALSE)!Init PROVE ConnectTyped /\ ConnectKept
  OBVIOUS
<1>1. ConnectTyped
  <2>1. /\ connectAccount \in StripeAccounts \cup {None} /\ connectOnboarded \in BOOLEAN
        /\ connectChanges \in 0 .. MaxStripeChanges
        /\ connectNews \subseteq [kind : {"updated", "deauthorized"}, a : StripeAccounts]
    <3>1. connectAccount = None /\ connectOnboarded = FALSE /\ connectChanges = 0 /\ connectNews = {}
      BY DEF Connect!Init
    <3>2. connectChanges \in 0 .. MaxStripeChanges
      BY <3>1, ConnectConstants
    <3> QED
      BY <3>1, <3>2
  <2>2. connectStripe \in [StripeAccounts -> ConnectRow]
    BY DEF Connect!Init, ConnectRow
  <2>3. /\ connectWorker \in [StripeWorkers -> ConnectLocal]
        /\ \A w \in StripeWorkers : connectWorker[w].at # "ask.event"
    BY DEF Connect!Init, Connect!Idle, ConnectLocal, ConnectPoints
  <2> QED
    BY <2>1, <2>2, <2>3 DEF ConnectTyped, Connect!TypeOK, ConnectLocal, ConnectPoints, ConnectRow
<1>2. ConnectKept
  BY DEF Connect!Init, ConnectKept, Connect!OnboardedIsReal, Connect!Idle, Reported
<1> QED
  BY <1>1, <1>2

(* Types, of a step of one request.                                         *)
LEMMA ConnectMoves ==
  ASSUME ConnectTyped, NEW w \in StripeWorkers, NEW q \in ConnectLocal,
         q.at = "ask.event" => q.a \in StripeAccounts,
         connectWorker' = [connectWorker EXCEPT ![w] = q],
         connectAccount' \in StripeAccounts \cup {None}, connectOnboarded' \in BOOLEAN,
         connectStripe' \in [StripeAccounts -> ConnectRow], connectChanges' \in 0 .. MaxStripeChanges,
         connectNews' \subseteq [kind : {"updated", "deauthorized"}, a : StripeAccounts]
  PROVE  ConnectTyped'
<1>1. connectWorker \in [StripeWorkers -> ConnectLocal]
  BY DEF ConnectTyped, Connect!TypeOK, ConnectLocal, ConnectPoints
<1>2. /\ connectWorker' \in [StripeWorkers -> ConnectLocal]
      /\ \A v \in StripeWorkers : connectWorker'[v].at = "ask.event" => connectWorker'[v].a \in StripeAccounts
  BY <1>1 DEF ConnectTyped
<1> QED
  BY <1>2 DEF ConnectTyped, Connect!TypeOK, ConnectLocal, ConnectPoints, ConnectRow

LEMMA ConnectStepTyped == ASSUME ConnectTyped, [Connect(FALSE)!Next]_connectVars PROVE ConnectTyped'
<1>0. /\ connectWorker \in [StripeWorkers -> ConnectLocal]
      /\ connectAccount \in StripeAccounts \cup {None} /\ connectOnboarded \in BOOLEAN
      /\ connectStripe \in [StripeAccounts -> ConnectRow] /\ connectChanges \in 0 .. MaxStripeChanges
      /\ connectNews \subseteq [kind : {"updated", "deauthorized"}, a : StripeAccounts]
      /\ Connect(FALSE)!Idle \in ConnectLocal
  BY DEF ConnectTyped, Connect!TypeOK, Connect!Idle, ConnectLocal, ConnectPoints, ConnectRow
<1>1. CASE UNCHANGED connectVars
  BY <1>1 DEF connectVars, ConnectTyped, Connect!TypeOK
<1>2. ASSUME NEW w \in StripeWorkers, Connect(FALSE)!CreateRead(w) PROVE ConnectTyped'
  <2> DEFINE q == [Connect(FALSE)!Idle EXCEPT !.at = "create"]
  <2>1. q \in ConnectLocal /\ q.at = "create"
    BY DEF ConnectLocal, ConnectPoints, Connect!Idle
  <2>2. connectWorker' = [connectWorker EXCEPT ![w] = q]
    BY <1>2 DEF Connect!CreateRead, Connect!Put
  <2> HIDE DEF q
  <2> QED
    BY <1>0, <1>2, <2>1, <2>2, ConnectMoves DEF Connect!CreateRead
<1>3. ASSUME NEW w \in StripeWorkers, Connect(FALSE)!Claim(w) PROVE ConnectTyped'
  <2>1. connectAccount' \in StripeAccounts \cup {None}
    BY <1>0, <1>3 DEF Connect!Claim, ConnectLocal
  <2>2. Connect(FALSE)!Idle.at # "ask.event"
    BY DEF Connect!Idle
  <2> QED
    BY <1>0, <1>3, <2>1, <2>2, ConnectMoves DEF Connect!Claim, Connect!Put
<1>4. ASSUME NEW w \in StripeWorkers, Connect(FALSE)!StatusRead(w) PROVE ConnectTyped'
  <2> DEFINE q == [at |-> "ask.status", a |-> connectAccount, flag |-> connectOnboarded]
  <2>1. q \in ConnectLocal /\ q.at = "ask.status"
    BY <1>0 DEF ConnectLocal, ConnectPoints
  <2>2. connectWorker' = [connectWorker EXCEPT ![w] = q]
    BY <1>4 DEF Connect!StatusRead, Connect!Put
  <2> HIDE DEF q
  <2> QED
    BY <1>0, <1>4, <2>1, <2>2, ConnectMoves DEF Connect!StatusRead
<1>5. ASSUME NEW w \in StripeWorkers, Connect(FALSE)!StatusAsk(w) PROVE ConnectTyped'
  <2>1. PICK q \in ConnectLocal : q.at # "ask.event" /\ connectWorker' = [connectWorker EXCEPT ![w] = q]
    <3> DEFINE m == [connectWorker[w] EXCEPT !.at = "set.status"]
    <3>1. m \in ConnectLocal /\ m.at = "set.status"
      BY <1>0 DEF ConnectLocal, ConnectPoints
    <3>2. Connect(FALSE)!Idle.at = "idle"
      BY DEF Connect!Idle
    <3>3. \/ connectWorker' = [connectWorker EXCEPT ![w] = m]
          \/ connectWorker' = [connectWorker EXCEPT ![w] = Connect(FALSE)!Idle]
      BY <1>5 DEF Connect!StatusAsk, Connect!Put
    <3> HIDE DEF m
    <3> QED
      BY <1>0, <3>1, <3>2, <3>3
  <2> QED
    BY <1>0, <1>5, <2>1, ConnectMoves DEF Connect!StatusAsk
<1>6. ASSUME NEW w \in StripeWorkers, Connect(FALSE)!StatusSet(w) \/ Connect(FALSE)!EventSet(w) PROVE ConnectTyped'
  <2>1. connectOnboarded' \in BOOLEAN
    BY <1>0, <1>6 DEF Connect!StatusSet, Connect!EventSet, ConnectLocal
  <2>2. Connect(FALSE)!Idle.at # "ask.event"
    BY DEF Connect!Idle
  <2> QED
    BY <1>0, <1>6, <2>1, <2>2, ConnectMoves DEF Connect!StatusSet, Connect!EventSet, Connect!Put
<1>7. ASSUME NEW w \in StripeWorkers, Connect(FALSE)!EventAsk(w) PROVE ConnectTyped'
  <2>1. PICK q \in ConnectLocal : q.at # "ask.event" /\ connectWorker' = [connectWorker EXCEPT ![w] = q]
    <3> DEFINE answer == connectStripe[connectWorker[w].a].charges
               m == [connectWorker[w] EXCEPT !.at = "set.event", !.flag = answer]
    <3>1. answer \in BOOLEAN
      BY <1>0, <1>7 DEF Connect!EventAsk, ConnectTyped, ConnectRow
    <3>2. m \in ConnectLocal /\ m.at = "set.event"
      <4> HIDE DEF answer
      <4> QED
        BY <1>0, <3>1 DEF ConnectLocal, ConnectPoints
    <3>3. Connect(FALSE)!Idle.at = "idle"
      BY DEF Connect!Idle
    <3>4. \/ connectWorker' = [connectWorker EXCEPT ![w] = m]
          \/ connectWorker' = [connectWorker EXCEPT ![w] = Connect(FALSE)!Idle]
      BY <1>7 DEF Connect!EventAsk, Connect!Put
    <3> HIDE DEF m
    <3> QED
      BY <1>0, <3>2, <3>3, <3>4
  <2> QED
    BY <1>0, <1>7, <2>1, ConnectMoves DEF Connect!EventAsk
<1>8. ASSUME NEW w \in StripeWorkers, Connect(FALSE)!Clear(w) PROVE ConnectTyped'
  <2>1. Connect(FALSE)!Idle.at # "ask.event"
    BY DEF Connect!Idle
  <2> QED
    BY <1>0, <1>8, <2>1, ConnectMoves DEF Connect!Clear, Connect!Put
<1>9. ASSUME NEW w \in StripeWorkers, NEW a \in StripeAccounts, Connect(FALSE)!CreateAtStripe(w, a)
      PROVE  ConnectTyped'
  <2> DEFINE q == [Connect(FALSE)!Idle EXCEPT !.at = "claim", !.a = a]
  <2>1. q \in ConnectLocal /\ q.at = "claim"
    BY DEF ConnectLocal, ConnectPoints, Connect!Idle
  <2>2. connectWorker' = [connectWorker EXCEPT ![w] = q]
    BY <1>9 DEF Connect!CreateAtStripe, Connect!Put
  <2>3. connectStripe' \in [StripeAccounts -> ConnectRow]
    BY <1>0, <1>9 DEF Connect!CreateAtStripe, ConnectRow
  <2> HIDE DEF q
  <2> QED
    BY <1>0, <1>9, <2>1, <2>2, <2>3, ConnectMoves DEF Connect!CreateAtStripe
<1>10. ASSUME NEW w \in StripeWorkers, NEW a \in StripeAccounts, Connect(FALSE)!EventRead(w, a)
       PROVE  ConnectTyped'
  <2>1. PICK q \in ConnectLocal : /\ q.at = "ask.event" => q.a \in StripeAccounts
                                  /\ connectWorker' = [connectWorker EXCEPT ![w] = q]
    <3> DEFINE m == [at |-> "ask.event", a |-> a, flag |-> connectOnboarded]
    <3>1. m \in ConnectLocal /\ m.a \in StripeAccounts
      BY <1>0 DEF ConnectLocal, ConnectPoints
    <3>2. Connect(FALSE)!Idle.at = "idle"
      BY DEF Connect!Idle
    <3>3. \/ connectWorker' = [connectWorker EXCEPT ![w] = m]
          \/ connectWorker' = [connectWorker EXCEPT ![w] = Connect(FALSE)!Idle]
      BY <1>10 DEF Connect!EventRead, Connect!Put
    <3> HIDE DEF m
    <3> QED
      BY <1>0, <3>1, <3>2, <3>3
  <2>2. connectNews' \subseteq [kind : {"updated", "deauthorized"}, a : StripeAccounts]
    BY <1>0, <1>10 DEF Connect!EventRead
  <2> QED
    BY <1>0, <1>10, <2>1, <2>2, ConnectMoves DEF Connect!EventRead
<1>11. ASSUME NEW w \in StripeWorkers, NEW a \in StripeAccounts, Connect(FALSE)!ClearRead(w, a)
       PROVE  ConnectTyped'
  <2>1. PICK q \in ConnectLocal : q.at # "ask.event" /\ connectWorker' = [connectWorker EXCEPT ![w] = q]
    <3> DEFINE m == [Connect(FALSE)!Idle EXCEPT !.at = "clear", !.a = a]
    <3>1. m \in ConnectLocal /\ m.at = "clear"
      BY DEF ConnectLocal, ConnectPoints, Connect!Idle
    <3>2. Connect(FALSE)!Idle.at = "idle"
      BY DEF Connect!Idle
    <3>3. \/ connectWorker' = [connectWorker EXCEPT ![w] = m]
          \/ connectWorker' = [connectWorker EXCEPT ![w] = Connect(FALSE)!Idle]
      BY <1>11 DEF Connect!ClearRead, Connect!Put
    <3> HIDE DEF m
    <3> QED
      BY <1>0, <3>1, <3>2, <3>3
  <2>2. connectNews' \subseteq [kind : {"updated", "deauthorized"}, a : StripeAccounts]
    BY <1>0, <1>11 DEF Connect!ClearRead
  <2> QED
    BY <1>0, <1>11, <2>1, <2>2, ConnectMoves DEF Connect!ClearRead
<1>12. ASSUME NEW a \in StripeAccounts, Connect(FALSE)!StripeChanges(a) \/ Connect(FALSE)!Deauthorize(a)
       PROVE  ConnectTyped'
  <2>1. UNCHANGED <<connectAccount, connectOnboarded, connectWorker>>
    BY <1>12 DEF Connect!StripeChanges, Connect!Deauthorize
  <2>2. connectStripe' \in [StripeAccounts -> ConnectRow]
    <3>1. CASE Connect(FALSE)!StripeChanges(a)
      <4> DEFINE row == [connectStripe[a] EXCEPT !.charges = ~@, !.ever = TRUE]
      <4>1. row \in ConnectRow
        BY <1>0 DEF ConnectRow
      <4>2. connectStripe' = [connectStripe EXCEPT ![a] = row]
        BY <1>0, <3>1 DEF Connect!StripeChanges, ConnectRow
      <4> HIDE DEF row
      <4> QED
        BY <1>0, <4>1, <4>2
    <3>2. CASE Connect(FALSE)!Deauthorize(a)
      BY <1>0, <3>2 DEF Connect!Deauthorize
    <3> QED
      BY <1>12, <3>1, <3>2
  <2>3. /\ connectChanges' \in 0 .. MaxStripeChanges
        /\ connectNews' \subseteq [kind : {"updated", "deauthorized"}, a : StripeAccounts]
    BY <1>0, <1>12, ConnectConstants DEF Connect!StripeChanges, Connect!Deauthorize
  <2> QED
    BY <2>1, <2>2, <2>3 DEF ConnectTyped, Connect!TypeOK, ConnectRow
<1> QED
  BY <1>1, <1>2, <1>3, <1>4, <1>5, <1>6, <1>7, <1>8, <1>9, <1>10, <1>11, <1>12
     DEF Connect!Next, Connect!Requests, Connect!Changes

(* What a request that is under way is to be, for ConnectKept.               *)
Sound(local) ==
  /\ local.at # "clear"
  /\ local.at \in {"ask.status", "set.status", "ask.event", "set.event"} =>
       local.a = connectAccount /\ connectAccount # None
  /\ Reported(local) => connectStripe[connectAccount].ever = TRUE

LEMMA ConnectMovesKept ==
  ASSUME ConnectTyped, ConnectKept, NEW w \in StripeWorkers, NEW q, Sound(q),
         connectWorker' = [connectWorker EXCEPT ![w] = q], UNCHANGED <<connectAccount, connectStripe>>,
         connectNews' \subseteq connectNews,
         connectOnboarded' => connectOnboarded \/ (connectAccount # None /\ connectStripe[connectAccount].ever)
  PROVE  ConnectKept'
<1>1. connectWorker \in [StripeWorkers -> ConnectLocal]
  BY DEF ConnectTyped, Connect!TypeOK, ConnectLocal, ConnectPoints
<1>2. ASSUME NEW v \in StripeWorkers PROVE Sound(connectWorker'[v])
  BY <1>1 DEF ConnectKept, Sound
<1>3. Connect(FALSE)!OnboardedIsReal'
  BY DEF ConnectKept, Connect!OnboardedIsReal
<1>4. \A v \in StripeWorkers :
        LET local == connectWorker'[v] IN
        /\ local.at # "clear"
        /\ local.at \in {"ask.status", "set.status", "ask.event", "set.event"} =>
             local.a = connectAccount' /\ connectAccount' # None
        /\ Reported(local) => connectStripe'[connectAccount'].ever = TRUE
  BY <1>2 DEF Sound
<1> QED
  BY <1>3, <1>4 DEF ConnectKept, Reported

LEMMA ConnectStepKept ==
  ASSUME ConnectTyped, ConnectKept, [Connect(FALSE)!Requests \/ Connect(FALSE)!Changes]_connectVars
  PROVE  ConnectKept'
<1>0. /\ connectWorker \in [StripeWorkers -> ConnectLocal]
      /\ connectAccount \in StripeAccounts \cup {None}
      /\ connectStripe \in [StripeAccounts -> ConnectRow]
      /\ connectNews \subseteq [kind : {"updated", "deauthorized"}, a : StripeAccounts]
  BY DEF ConnectTyped, Connect!TypeOK, ConnectLocal, ConnectPoints, ConnectRow
<1>i. Sound(Connect(FALSE)!Idle)
  BY DEF Sound, Reported, Connect!Idle
<1>w. \A w \in StripeWorkers : Sound(connectWorker[w])
  BY DEF ConnectKept, Sound
<1>1. CASE UNCHANGED connectVars
  BY <1>1 DEF connectVars, ConnectKept, Connect!OnboardedIsReal, Reported
<1>2. ASSUME NEW w \in StripeWorkers, Connect(FALSE)!CreateRead(w) PROVE ConnectKept'
  <2> DEFINE q == [Connect(FALSE)!Idle EXCEPT !.at = "create"]
  <2>1. Sound(q)
    BY DEF Sound, Reported, Connect!Idle
  <2>2. connectWorker' = [connectWorker EXCEPT ![w] = q]
    BY <1>2 DEF Connect!CreateRead, Connect!Put
  <2> HIDE DEF q
  <2> QED
    BY <1>2, <2>1, <2>2, ConnectMovesKept DEF Connect!CreateRead
<1>3. ASSUME NEW w \in StripeWorkers, Connect(FALSE)!Claim(w) PROVE ConnectKept'
  <2>1. CASE connectAccount # None
    <3>1. connectAccount' = connectAccount
      BY <1>3, <2>1 DEF Connect!Claim
    <3> QED
      BY <1>3, <1>i, <3>1, ConnectMovesKept DEF Connect!Claim, Connect!Put
  <2>2. CASE connectAccount = None
    <3>1. ~connectOnboarded /\ UNCHANGED <<connectOnboarded, connectStripe, connectNews>>
      BY <1>3, <2>2 DEF Connect!Claim, ConnectKept, Connect!OnboardedIsReal
    <3>2. connectWorker' = [connectWorker EXCEPT ![w] = Connect(FALSE)!Idle]
      BY <1>3 DEF Connect!Claim, Connect!Put
    <3>3. ASSUME NEW v \in StripeWorkers
          PROVE  connectWorker'[v].at \notin {"clear", "ask.status", "set.status", "ask.event", "set.event"}
      <4>1. connectWorker[v].at \notin {"clear", "ask.status", "set.status", "ask.event", "set.event"}
        BY <1>w, <2>2 DEF Sound
      <4>2. connectWorker'[v] = IF v = w THEN Connect(FALSE)!Idle ELSE connectWorker[v]
        BY <1>0, <3>2
      <4> QED
        BY <4>1, <4>2 DEF Connect!Idle
    <3> QED
      BY <3>1, <3>3 DEF ConnectKept, Connect!OnboardedIsReal, Reported
  <2> QED
    BY <2>1, <2>2
<1>4. ASSUME NEW w \in StripeWorkers, Connect(FALSE)!StatusRead(w) PROVE ConnectKept'
  <2> DEFINE q == [at |-> "ask.status", a |-> connectAccount, flag |-> connectOnboarded]
  <2>1. Sound(q)
    BY <1>4 DEF Sound, Reported, Connect!StatusRead
  <2>2. connectWorker' = [connectWorker EXCEPT ![w] = q]
    BY <1>4 DEF Connect!StatusRead, Connect!Put
  <2> HIDE DEF q
  <2> QED
    BY <1>4, <2>1, <2>2, ConnectMovesKept DEF Connect!StatusRead
<1>5. ASSUME NEW w \in StripeWorkers, Connect(FALSE)!StatusAsk(w) PROVE ConnectKept'
  <2>1. connectWorker[w].a = connectAccount /\ connectAccount # None /\ connectAccount \in StripeAccounts
    BY <1>0, <1>5, <1>w DEF Connect!StatusAsk, Sound
  <2>2. PICK q : Sound(q) /\ connectWorker' = [connectWorker EXCEPT ![w] = q]
    <3> DEFINE m == [connectWorker[w] EXCEPT !.at = "set.status"]
    <3>1. CASE connectStripe[connectAccount].charges = TRUE
      <4>1. m.a = connectAccount /\ m.at = "set.status" /\ connectStripe[connectAccount].ever = TRUE
        BY <1>0, <2>1, <3>1 DEF ConnectKept, ConnectLocal
      <4>2. Sound(m)
        BY <2>1, <4>1 DEF Sound, Reported
      <4>3. \/ connectWorker' = [connectWorker EXCEPT ![w] = m]
            \/ connectWorker' = [connectWorker EXCEPT ![w] = Connect(FALSE)!Idle]
        BY <1>5 DEF Connect!StatusAsk, Connect!Put
      <4> HIDE DEF m
      <4> QED
        BY <1>i, <4>2, <4>3
    <3>2. CASE connectStripe[connectAccount].charges # TRUE
      <4>1. connectStripe[connectWorker[w].a].charges = FALSE
        BY <1>0, <2>1, <3>2 DEF ConnectRow
      <4> QED
        BY <1>5, <1>i, <4>1 DEF Connect!StatusAsk, Connect!Put
    <3> QED
      BY <3>1, <3>2
  <2> QED
    BY <1>5, <2>2, ConnectMovesKept DEF Connect!StatusAsk
<1>6. ASSUME NEW w \in StripeWorkers, Connect(FALSE)!StatusSet(w) PROVE ConnectKept'
  <2>1. connectAccount # None /\ connectStripe[connectAccount].ever = TRUE
    BY <1>6, <1>w DEF Connect!StatusSet, Sound, Reported
  <2> QED
    BY <1>6, <1>i, <2>1, ConnectMovesKept DEF Connect!StatusSet, Connect!Put
<1>7. ASSUME NEW w \in StripeWorkers, Connect(FALSE)!EventSet(w) PROVE ConnectKept'
  <2>1. connectAccount # None
    BY <1>7, <1>w DEF Connect!EventSet, Sound
  <2>2. connectOnboarded' => connectStripe[connectAccount].ever
    <3>1. connectOnboarded' = connectWorker[w].flag /\ connectWorker[w].at = "set.event" /\ connectWorker[w].flag \in BOOLEAN
      BY <1>0, <1>7 DEF Connect!EventSet, ConnectLocal
    <3>2. connectWorker[w].flag = TRUE => connectStripe[connectAccount].ever = TRUE
      BY <1>w, <3>1 DEF Sound, Reported
    <3> QED
      BY <3>1, <3>2
  <2> QED
    BY <1>7, <1>i, <2>1, <2>2, ConnectMovesKept DEF Connect!EventSet, Connect!Put
<1>8. ASSUME NEW w \in StripeWorkers, Connect(FALSE)!EventAsk(w) PROVE ConnectKept'
  <2>1. connectWorker[w].a = connectAccount /\ connectAccount # None /\ connectAccount \in StripeAccounts
    BY <1>0, <1>8, <1>w DEF Connect!EventAsk, Sound
  <2>2. PICK q : Sound(q) /\ connectWorker' = [connectWorker EXCEPT ![w] = q]
    <3> DEFINE answer == connectStripe[connectAccount].charges
               m == [connectWorker[w] EXCEPT !.at = "set.event", !.flag = answer]
    <3>1. answer = TRUE => connectStripe[connectAccount].ever = TRUE
      BY <2>1 DEF ConnectKept
    <3>2. m.a = connectAccount /\ m.at = "set.event" /\ m.flag = answer
      <4> HIDE DEF answer
      <4> QED
        BY <1>0, <2>1 DEF ConnectLocal
    <3>3. Sound(m)
      <4> HIDE DEF m
      <4> QED
        BY <2>1, <3>1, <3>2 DEF Sound, Reported
    <3>4. \/ connectWorker' = [connectWorker EXCEPT ![w] = m]
          \/ connectWorker' = [connectWorker EXCEPT ![w] = Connect(FALSE)!Idle]
      BY <1>8, <2>1 DEF Connect!EventAsk, Connect!Put
    <3> HIDE DEF m
    <3> QED
      BY <1>i, <3>3, <3>4
  <2> QED
    BY <1>8, <2>2, ConnectMovesKept DEF Connect!EventAsk
<1>9. ASSUME NEW w \in StripeWorkers, Connect(FALSE)!Clear(w) PROVE ConnectKept'
  BY <1>9, <1>w DEF Connect!Clear, Sound
<1>10. ASSUME NEW w \in StripeWorkers, NEW a \in StripeAccounts, Connect(FALSE)!CreateAtStripe(w, a)
       PROVE  ConnectKept'
  <2> DEFINE q == [Connect(FALSE)!Idle EXCEPT !.at = "claim", !.a = a]
  <2>1. q.at = "claim"
    BY DEF Connect!Idle
  <2>2. connectWorker' = [connectWorker EXCEPT ![w] = q]
    BY <1>10 DEF Connect!CreateAtStripe, Connect!Put
  <2>3. UNCHANGED <<connectAccount, connectOnboarded, connectNews>>
    BY <1>10 DEF Connect!CreateAtStripe
  <2>4. ASSUME NEW b \in StripeAccounts
        PROVE  connectStripe'[b].charges = connectStripe[b].charges /\ connectStripe'[b].ever = connectStripe[b].ever
    BY <1>0, <1>10 DEF Connect!CreateAtStripe, ConnectRow
  <2>5. ASSUME NEW v \in StripeWorkers
        PROVE  connectWorker'[v] = IF v = w THEN q ELSE connectWorker[v]
    BY <1>0, <2>2
  <2> HIDE DEF q
  <2>6. Connect(FALSE)!OnboardedIsReal'
    BY <1>0, <2>3, <2>4 DEF ConnectKept, Connect!OnboardedIsReal
  <2>7. \A b \in StripeAccounts : connectStripe'[b].charges = TRUE => connectStripe'[b].ever = TRUE
    BY <2>4 DEF ConnectKept
  <2>8. ASSUME NEW v \in StripeWorkers
        PROVE  LET local == connectWorker'[v] IN
               /\ local.at # "clear"
               /\ local.at \in {"ask.status", "set.status", "ask.event", "set.event"} =>
                    local.a = connectAccount' /\ connectAccount' # None
               /\ Reported(local) => connectStripe'[connectAccount'].ever = TRUE
    <3>1. CASE v = w
      BY <2>1, <2>5, <3>1 DEF Reported
    <3>2. CASE v # w
      <4>1. connectWorker'[v] = connectWorker[v] /\ Sound(connectWorker[v])
        BY <1>w, <2>5, <3>2
      <4>2. Reported(connectWorker[v]) => connectAccount \in StripeAccounts
        BY <1>0, <4>1 DEF Sound, Reported
      <4> QED
        BY <2>3, <2>4, <4>1, <4>2 DEF Sound
    <3> QED
      BY <3>1, <3>2
  <2> QED
    BY <2>3, <2>6, <2>7, <2>8 DEF ConnectKept, Reported
<1>11. ASSUME NEW w \in StripeWorkers, NEW a \in StripeAccounts, Connect(FALSE)!EventRead(w, a)
       PROVE  ConnectKept'
  <2>1. PICK q : Sound(q) /\ connectWorker' = [connectWorker EXCEPT ![w] = q]
    <3> DEFINE m == [at |-> "ask.event", a |-> a, flag |-> connectOnboarded]
    <3>1. CASE connectAccount = a
      <4>1. Sound(m)
        BY <3>1, ConnectConstants DEF Sound, Reported
      <4>2. connectWorker' = [connectWorker EXCEPT ![w] = m]
        BY <1>11, <3>1 DEF Connect!EventRead, Connect!Put
      <4> HIDE DEF m
      <4> QED
        BY <4>1, <4>2
    <3>2. CASE connectAccount # a
      BY <1>11, <1>i, <3>2 DEF Connect!EventRead, Connect!Put
    <3> QED
      BY <3>1, <3>2
  <2> QED
    BY <1>11, <2>1, ConnectMovesKept DEF Connect!EventRead
<1>12. ASSUME NEW w \in StripeWorkers, NEW a \in StripeAccounts, Connect(FALSE)!ClearRead(w, a)
       PROVE  ConnectKept'
  BY <1>12 DEF Connect!ClearRead, ConnectKept
<1>13. ASSUME NEW a \in StripeAccounts, Connect(FALSE)!StripeChanges(a) PROVE ConnectKept'
  <2>1. UNCHANGED <<connectAccount, connectOnboarded, connectWorker>>
    BY <1>13 DEF Connect!StripeChanges
  <2>2. ASSUME NEW b \in StripeAccounts
        PROVE  connectStripe'[b] = IF b = a THEN [connectStripe[a] EXCEPT !.charges = ~@, !.ever = TRUE]
                                   ELSE connectStripe[b]
    BY <1>0, <1>13 DEF Connect!StripeChanges
  <2>3. ASSUME NEW b \in StripeAccounts
        PROVE  /\ connectStripe'[b].charges = TRUE => connectStripe'[b].ever = TRUE
               /\ connectStripe[b].ever = TRUE => connectStripe'[b].ever = TRUE
    <3>1. CASE b = a
      <4>1. connectStripe'[b].ever = TRUE
        BY <1>0, <2>2, <3>1 DEF ConnectRow
      <4> QED
        BY <4>1
    <3>2. CASE b # a
      BY <2>2, <3>2 DEF ConnectKept
    <3> QED
      BY <3>1, <3>2
  <2>4. \A e \in connectNews' : e.kind # "deauthorized"
    <3>1. connectNews' = connectNews \cup {[kind |-> "updated", a |-> a]}
      BY <1>13 DEF Connect!StripeChanges
    <3> QED
      BY <3>1 DEF ConnectKept
  <2>5. Connect(FALSE)!OnboardedIsReal'
    <3> SUFFICES ASSUME connectOnboarded' PROVE connectAccount' # None /\ connectStripe'[connectAccount'].ever
      BY DEF Connect!OnboardedIsReal
    <3>1. connectOnboarded /\ connectAccount' = connectAccount
      BY <2>1
    <3>2. connectAccount # None /\ connectStripe[connectAccount].ever
      BY <3>1 DEF ConnectKept, Connect!OnboardedIsReal
    <3>3. connectAccount \in StripeAccounts
      BY <1>0, <3>2
    <3>4. connectStripe[connectAccount].ever = TRUE
      BY <1>0, <3>2, <3>3 DEF ConnectRow
    <3> QED
      BY <2>3, <3>1, <3>2, <3>3, <3>4
  <2>6. ASSUME NEW v \in StripeWorkers
        PROVE  LET local == connectWorker'[v] IN
               /\ local.at # "clear"
               /\ local.at \in {"ask.status", "set.status", "ask.event", "set.event"} =>
                    local.a = connectAccount' /\ connectAccount' # None
               /\ Reported(local) => connectStripe'[connectAccount'].ever = TRUE
    <3>1. connectWorker'[v] = connectWorker[v] /\ Sound(connectWorker[v])
      BY <1>w, <2>1
    <3>2. Reported(connectWorker[v]) => connectAccount \in StripeAccounts
      BY <1>0, <3>1 DEF Sound, Reported
    <3> QED
      BY <2>1, <2>3, <3>1, <3>2 DEF Sound
  <2> QED
    BY <2>3, <2>4, <2>5, <2>6 DEF ConnectKept, Reported
<1> QED
  BY <1>1, <1>2, <1>3, <1>4, <1>5, <1>6, <1>7, <1>8, <1>9, <1>10, <1>11, <1>12, <1>13
     DEF Connect!Requests, Connect!Changes

(* Only who found the tenant without an account gives it one, and only who   *)
(* was told that it was given up takes it away.                            *)
LEMMA ConnectReplaced ==
  ASSUME [Connect(FALSE)!Next]_connectVars PROVE Connect(FALSE)!Replaced
BY DEF connectVars, Connect!Next, Connect!Requests, Connect!Changes, Connect!CreateRead, Connect!Claim,
       Connect!StatusRead, Connect!StatusAsk, Connect!StatusSet, Connect!EventAsk, Connect!EventSet,
       Connect!Clear, Connect!CreateAtStripe, Connect!EventRead, Connect!ClearRead, Connect!StripeChanges,
       Connect!Deauthorize, Connect!Replaced

(* A step of the application is one of the account, or none of it.           *)
LEMMA ConnectTurns ==
  ASSUME [Next]_vars
  PROVE  /\ [Connect(FALSE)!Next]_connectVars
         /\ under = "account, kept" => [Connect(FALSE)!Requests \/ Connect(FALSE)!Changes]_connectVars
<1>1. [Connect(FALSE)!Next]_connectVars
  BY DEF Next, Turn, NoticesNext, vars, NotNotice, NotBreaker, NotHook, NotFlow, NotWait, NotMail, NotInbox,
         NotSub, NotConnect, NotSync, Connect!Next
<1>2. under = "account, kept" => [Connect(FALSE)!Requests \/ Connect(FALSE)!Changes]_connectVars
  BY DEF Next, Turn, NoticesNext, vars, NotNotice, NotBreaker, NotHook, NotFlow, NotWait, NotMail, NotInbox,
         NotSub, NotConnect, NotSync
<1> QED
  BY <1>1, <1>2

LEMMA UnderStays == ASSUME [Next]_vars PROVE under' = under
BY DEF Next, Turn, NoticesNext, vars, NotNotice, NotBreaker, NotHook, NotFlow, NotWait, NotMail, NotInbox,
       NotSub, NotConnect, NotSync

StripeInv ==
  /\ under = "subscription" => SubInv
  /\ under \in {"account", "account, kept"} => ConnectTyped
  /\ under = "account, kept" => ConnectKept

(* No event of a subscription is handled twice, of Stripe accounts created   *)
(* at once the tenant keeps one, and while none is given up a tenant is      *)
(* charged through an account that Stripe has enabled: for any numbers of    *)
(* subscriptions, plans, accounts, requests at once and deaths.              *)
THEOREM StripeActsOnce == Spec => StripeOnce
<1>1. Init => StripeInv
  BY SubInit, ConnectInit DEF Init, Start, NoticeModes, StripeInv
<1>2. StripeInv /\ [Next]_vars => StripeInv'
  <2> SUFFICES ASSUME StripeInv, [Next]_vars PROVE StripeInv'
    OBVIOUS
  <2>1. under' = under
    BY UnderStays
  <2>2. under = "subscription" => SubInv'
    BY SubStep, SubTurns DEF StripeInv
  <2>3. under \in {"account", "account, kept"} => ConnectTyped'
    BY ConnectStepTyped, ConnectTurns DEF StripeInv
  <2>4. under = "account, kept" => ConnectKept'
    BY ConnectStepKept, ConnectTurns DEF StripeInv
  <2> QED
    BY <2>1, <2>2, <2>3, <2>4 DEF StripeInv
<1>3. StripeInv => /\ under = "subscription" => Subscription(FALSE)!TypeOK
                   /\ under \in {"account", "account, kept"} => Connect(FALSE)!TypeOK
                   /\ under = "account, kept" => Connect(FALSE)!OnboardedIsReal
  BY DEF StripeInv, SubInv, ConnectTyped, ConnectKept
<1>4. StripeInv /\ [Next]_vars => [under = "subscription" => Subscription(FALSE)!StartsOnce]_vars
  BY SubStartsOnce, SubTurns DEF StripeInv
<1>5. [Next]_vars => [Connect(FALSE)!Replaced]_vars
  BY ConnectReplaced, ConnectTurns
<1> QED
  BY <1>1, <1>2, <1>3, <1>4, <1>5, PTL DEF Spec, StripeOnce
-----------------------------------------------------------------------------
(* E-mail through Inngest and Resend.  The row is QUEUED until the only      *)
(* attempt that will send the e-mail marks it, and never again; Resend tells  *)
(* of what became of the e-mail, and of nothing else.                      *)
MailUnsent ==
  /\ mailStatus \in {"none", "QUEUED"} => ~mailMessageId /\ mailAccepted = 0
  /\ mailAt \in {"sending", "failed"} => mailStatus = "QUEUED"
  /\ mailAt = "send" => mailStatus = "SENDING" /\ ~mailMessageId /\ mailAccepted = 0
  /\ mailAt = "sent" => mailStatus = "SENDING" /\ ~mailMessageId
  /\ mailAccepted <= 1

MailTold ==
  /\ mailStatus = "DELIVERED" \/ "delivered" \in mailNews => mailFate = "delivered"
  /\ mailStatus = "BOUNCED" \/ "bounced" \in mailNews => mailFate = "bounced"
  /\ mailFate # "none" => mailAccepted > 0

MailInv == Email(TRUE)!TypeOK /\ MailUnsent /\ MailTold

LEMMA MailInit == Email(TRUE)!Init => MailInv
<1> SUFFICES ASSUME Email(TRUE)!Init PROVE MailInv
  OBVIOUS
<1>1. MailAttempts \in Nat
  <2>1. Email(TRUE)!EmailAssumption
    BY MessagesAssumption
  <2> QED
    BY <2>1 DEF Email!EmailAssumption
<1>2. /\ mailStatus = "none" /\ mailMessageId = FALSE /\ mailEvent = "none" /\ mailAt = "idle"
      /\ mailAttempts = 0 /\ mailAccepted = 0 /\ mailFate = "none" /\ mailNews = {}
  BY DEF Email!Init
<1>3. mailAttempts \in 0 .. MailAttempts
  BY <1>1, <1>2
<1>4. Email(TRUE)!TypeOK
  BY <1>2, <1>3 DEF Email!TypeOK, Email!Status, Email!Points, Email!News
<1>5. MailUnsent
  BY <1>2 DEF MailUnsent
<1>6. MailTold
  BY <1>2 DEF MailTold
<1> QED
  BY <1>4, <1>5, <1>6 DEF MailInv

LEMMA MailStep == ASSUME MailInv, [Email(TRUE)!Next]_mailVars PROVE MailInv'
<1> USE DEF MailInv, MailUnsent, MailTold, Email!TypeOK, Email!Status, Email!Points, Email!News, Email!row
<1>0. MailAttempts \in Nat
  <2>1. Email(TRUE)!EmailAssumption
    BY MessagesAssumption
  <2> QED
    BY <2>1 DEF Email!EmailAssumption
<1>1. CASE UNCHANGED mailVars
  BY <1>1 DEF mailVars
<1>2. CASE Email(TRUE)!Create
  BY <1>2 DEF Email!Create
<1>3. CASE Email(TRUE)!Dispatch
  BY <1>3 DEF Email!Dispatch
<1>4. CASE Email(TRUE)!Attempt
  BY <1>0, <1>4 DEF Email!Attempt
<1>5. CASE Email(TRUE)!Read
  BY <1>5 DEF Email!Read, Email!Return
<1>6. CASE Email(TRUE)!MarkSending
  BY <1>6 DEF Email!MarkSending
<1>7. CASE Email(TRUE)!ResendAccepts
  BY <1>7 DEF Email!ResendAccepts
<1>8. CASE Email(TRUE)!ResendRefuses
  BY <1>8 DEF Email!ResendRefuses
<1>9. CASE Email(TRUE)!MarkSent
  BY <1>9 DEF Email!MarkSent
<1>10. CASE Email(TRUE)!RecordSuccess
  BY <1>10 DEF Email!RecordSuccess, Email!Return
<1>11. CASE Email(TRUE)!RecordFailure
  BY <1>11 DEF Email!RecordFailure
<1>12. CASE Email(TRUE)!MarkFailed
  BY <1>12 DEF Email!MarkFailed, Email!Return, Email!Throw
<1>13. CASE Email(TRUE)!DatabaseFails
  BY <1>13 DEF Email!DatabaseFails
<1>14. CASE Email(TRUE)!AttemptDies
  BY <1>14 DEF Email!AttemptDies, Email!Throw
<1>15. ASSUME NEW f \in {"delivered", "bounced"}, Email(TRUE)!Outcome(f) PROVE MailInv'
  BY <1>15 DEF Email!Outcome
<1>16. CASE Email(TRUE)!Complaint
  BY <1>16 DEF Email!Complaint
<1>17. ASSUME NEW n \in Email(TRUE)!News, Email(TRUE)!Webhook(n) PROVE MailInv'
  BY <1>17 DEF Email!Webhook, Email!NewStatus
<1> QED
  BY <1>1, <1>2, <1>3, <1>4, <1>5, <1>6, <1>7, <1>8, <1>9, <1>10, <1>11, <1>12, <1>13, <1>14, <1>15,
     <1>16, <1>17 DEF Email!Next, Email!Handler

-----------------------------------------------------------------------------
(* The inbox of the payment providers.  A row that is made has one delivery   *)
(* at its handler, or none.                                                *)
InboxPoints == {"idle", "find", "insert", "route", "mark", "error", "dead"}
InboxLocal  == [at : InboxPoints, e : InboxEvents \cup {NoEvent}]
InboxLog    == [made : BOOLEAN, processed : BOOLEAN, error : BOOLEAN, retries : 0 .. InboxRetries]
InboxItem   == [e : InboxEvents, retries : 0 .. InboxRetries]

Routing(local) == local.at \in {"route", "mark", "error", "dead"}

InboxTyped ==
  /\ Inbox!TypeOK
  /\ \A w \in InboxWorkers : inboxWorker[w].at # "idle" => inboxWorker[w].e \in InboxEvents

InboxOnce ==
  /\ \A w \in InboxWorkers : Routing(inboxWorker[w]) => inboxRow[inboxWorker[w].e].made = TRUE
  /\ \A v, w \in InboxWorkers :
       Routing(inboxWorker[v]) /\ Routing(inboxWorker[w]) /\ inboxWorker[v].e = inboxWorker[w].e => v = w
  /\ \A w \in InboxWorkers : inboxWorker[w].at = "route" => inboxTries[inboxWorker[w].e] = 0
  /\ \A e \in InboxEvents : inboxRow[e].made = FALSE => inboxTries[e] = 0
  /\ \A e \in InboxEvents : inboxTries[e] <= 1

InboxAccounted ==
  /\ \A e \in InboxEvents : inboxRow[e].processed = TRUE => inboxDone[e] > 0 \/ inboxDead[e] > 0
  /\ \A w \in InboxWorkers : inboxWorker[w].at = "mark" => inboxDone[inboxWorker[w].e] > 0

(* What the retry job has read is still so when it comes to it.              *)
InboxListed ==
  \A item \in inboxJob : inboxRow[item.e].retries = item.retries /\ item.retries < InboxRetries

InboxInv == InboxTyped /\ InboxOnce /\ InboxAccounted /\ InboxListed

LEMMA InboxConstants == NoEvent \notin InboxEvents /\ InboxRetries \in Nat
<1>1. Inbox!InboxAssumption
  BY MessagesAssumption
<1> QED
  BY <1>1 DEF Inbox!InboxAssumption

LEMMA InboxTypes ==
  Inbox!TypeOK <=>
    /\ inboxOwed \subseteq InboxEvents /\ inboxRow \in [InboxEvents -> InboxLog]
    /\ inboxDead \in [InboxEvents -> Nat] /\ inboxTries \in [InboxEvents -> Nat]
    /\ inboxDone \in [InboxEvents -> Nat] /\ inboxPayment \in {"PENDING", "SUCCEEDED", "FAILED", "REFUNDED"}
    /\ inboxWorker \in [InboxWorkers -> InboxLocal] /\ inboxJob \subseteq InboxItem
BY DEF Inbox!TypeOK, InboxLog, InboxLocal, InboxPoints, InboxItem

LEMMA InboxInit == Inbox!Init => InboxInv
<1> SUFFICES ASSUME Inbox!Init PROVE InboxInv
  OBVIOUS
<1>1. InboxTyped
  <2>1. inboxRow \in [InboxEvents -> InboxLog]
    BY InboxConstants DEF Inbox!Init, InboxLog
  <2>2. /\ inboxWorker \in [InboxWorkers -> InboxLocal] /\ inboxJob = {}
        /\ \A w \in InboxWorkers : inboxWorker[w].at = "idle"
    BY DEF Inbox!Init, Inbox!Idle, InboxLocal, InboxPoints
  <2>3. /\ inboxOwed \subseteq InboxEvents /\ inboxDead \in [InboxEvents -> Nat]
        /\ inboxTries \in [InboxEvents -> Nat] /\ inboxDone \in [InboxEvents -> Nat]
        /\ inboxPayment \in {"PENDING", "SUCCEEDED", "FAILED", "REFUNDED"}
    BY DEF Inbox!Init
  <2> QED
    BY <2>1, <2>2, <2>3, InboxTypes DEF InboxTyped
<1>2. InboxOnce
  BY DEF Inbox!Init, Inbox!Idle, InboxOnce, Routing
<1>3. InboxAccounted /\ InboxListed
  BY DEF Inbox!Init, Inbox!Idle, InboxAccounted, InboxListed
<1> QED
  BY <1>1, <1>2, <1>3 DEF InboxInv

(* A step of a delivery: it moves one worker, whose local state stays typed.  *)
LEMMA InboxMoves ==
  ASSUME InboxInv, NEW w \in InboxWorkers, NEW q \in InboxLocal, q.at # "idle" => q.e \in InboxEvents,
         inboxWorker' = [inboxWorker EXCEPT ![w] = q], inboxOwed' \subseteq InboxEvents,
         inboxRow' \in [InboxEvents -> InboxLog], inboxDead' \in [InboxEvents -> Nat],
         inboxTries' \in [InboxEvents -> Nat], inboxDone' \in [InboxEvents -> Nat],
         inboxPayment' \in {"PENDING", "SUCCEEDED", "FAILED", "REFUNDED"}, inboxJob' = inboxJob
  PROVE  InboxTyped' /\ \A v \in InboxWorkers : inboxWorker'[v] = IF v = w THEN q ELSE inboxWorker[v]
<1>1. inboxWorker \in [InboxWorkers -> InboxLocal] /\ inboxJob \subseteq InboxItem
  BY InboxTypes DEF InboxInv, InboxTyped
<1>2. \A v \in InboxWorkers : inboxWorker'[v] = IF v = w THEN q ELSE inboxWorker[v]
  BY <1>1
<1>3. \A v \in InboxWorkers : inboxWorker'[v].at # "idle" => inboxWorker'[v].e \in InboxEvents
  BY <1>2 DEF InboxInv, InboxTyped
<1>4. inboxWorker' \in [InboxWorkers -> InboxLocal]
  BY <1>1
<1>5. Inbox!TypeOK'
  BY <1>1, <1>4 DEF Inbox!TypeOK, InboxLog, InboxLocal, InboxPoints, InboxItem
<1> QED
  BY <1>2, <1>3, <1>5 DEF InboxTyped

(* A step that takes no delivery to its handler, and none back to one, and    *)
(* changes no row but to mark it.                                          *)
LEMMA InboxKeeps ==
  ASSUME InboxInv, NEW w \in InboxWorkers, NEW q \in InboxLocal,
         \A v \in InboxWorkers : inboxWorker'[v] = IF v = w THEN q ELSE inboxWorker[v],
         InboxTyped',
         Routing(q) => Routing(inboxWorker[w]) /\ q.e = inboxWorker[w].e,
         q.at # "route",
         q.at = "mark" => inboxDone'[q.e] > 0,
         \A e \in InboxEvents : /\ inboxRow'[e].made = inboxRow[e].made
                                /\ inboxRow'[e].retries = inboxRow[e].retries
                                /\ inboxRow'[e].processed = TRUE => inboxRow[e].processed = TRUE \/ inboxDone'[e] > 0
                                /\ inboxTries'[e] = inboxTries[e]
                                /\ inboxDone[e] > 0 => inboxDone'[e] > 0
                                /\ inboxDead[e] > 0 => inboxDead'[e] > 0,
         inboxJob' = inboxJob
  PROVE  InboxInv'
<1>1. \A v \in InboxWorkers : Routing(inboxWorker[v]) => inboxWorker[v].e \in InboxEvents
  BY DEF InboxInv, InboxTyped, Routing
<1>2. InboxOnce'
  <2>1. \A v \in InboxWorkers : Routing(inboxWorker'[v]) =>
          Routing(inboxWorker[v]) /\ inboxWorker'[v].e = inboxWorker[v].e
    OBVIOUS
  <2>2. \A v \in InboxWorkers : inboxWorker'[v].at = "route" => v # w
    OBVIOUS
  <2>3. \A v \in InboxWorkers : Routing(inboxWorker'[v]) => inboxRow'[inboxWorker'[v].e].made = TRUE
    BY <1>1, <2>1 DEF InboxInv, InboxOnce
  <2>4. \A u, v \in InboxWorkers :
          Routing(inboxWorker'[u]) /\ Routing(inboxWorker'[v]) /\ inboxWorker'[u].e = inboxWorker'[v].e => u = v
    BY <2>1 DEF InboxInv, InboxOnce
  <2>5. \A v \in InboxWorkers : inboxWorker'[v].at = "route" => inboxTries'[inboxWorker'[v].e] = 0
    BY <1>1, <2>2 DEF InboxInv, InboxOnce, Routing
  <2>6. \A e \in InboxEvents : (inboxRow'[e].made = FALSE => inboxTries'[e] = 0) /\ inboxTries'[e] <= 1
    BY DEF InboxInv, InboxOnce
  <2> QED
    BY <2>3, <2>4, <2>5, <2>6 DEF InboxOnce, Routing
<1>3. InboxAccounted'
  <2>1. \A e \in InboxEvents : inboxRow'[e].processed = TRUE => inboxDone'[e] > 0 \/ inboxDead'[e] > 0
    BY DEF InboxInv, InboxAccounted
  <2>2. \A v \in InboxWorkers : inboxWorker'[v].at = "mark" => inboxDone'[inboxWorker'[v].e] > 0
    BY <1>1 DEF InboxInv, InboxAccounted, Routing
  <2> QED
    BY <2>1, <2>2 DEF InboxAccounted
<1>4. InboxListed'
  BY InboxTypes DEF InboxInv, InboxTyped, InboxListed, InboxItem
<1> QED
  BY <1>2, <1>3, <1>4 DEF InboxInv

LEMMA InboxDeliveryStep ==
  ASSUME InboxInv, NEW w \in InboxWorkers,
         \/ Inbox!Proceeds(w) \/ Inbox!Dies(w)
         \/ \E e \in InboxEvents : Inbox!Deliver(w, e)
  PROVE  InboxInv'
<1> DEFINE e == inboxWorker[w].e
           To(p) == [inboxWorker[w] EXCEPT !.at = p]
<1>0. /\ inboxOwed \subseteq InboxEvents /\ inboxRow \in [InboxEvents -> InboxLog]
      /\ inboxDead \in [InboxEvents -> Nat] /\ inboxTries \in [InboxEvents -> Nat]
      /\ inboxDone \in [InboxEvents -> Nat] /\ inboxPayment \in {"PENDING", "SUCCEEDED", "FAILED", "REFUNDED"}
      /\ inboxWorker \in [InboxWorkers -> InboxLocal] /\ inboxJob \subseteq InboxItem
      /\ inboxWorker[w].at # "idle" => e \in InboxEvents
  BY InboxTypes DEF InboxInv, InboxTyped
<1>i. Inbox!Idle \in InboxLocal /\ Inbox!Idle.at = "idle"
  BY DEF Inbox!Idle, InboxLocal, InboxPoints
<1>t. ASSUME NEW p \in InboxPoints PROVE To(p) \in InboxLocal /\ To(p).at = p /\ To(p).e = e
  BY <1>0 DEF InboxLocal
<1>1. ASSUME NEW d \in InboxEvents, Inbox!Deliver(w, d) PROVE InboxInv'
  <2> DEFINE q == [at |-> IF [x \in InboxEvents |-> IF x \in InboxOfStripe THEN "STRIPE" ELSE "PAYPAL"][d] = "STRIPE"
                          THEN "insert" ELSE "find", e |-> d]
  <2>1. /\ q \in InboxLocal /\ q.at \in {"insert", "find"} /\ q.e \in InboxEvents
        /\ inboxWorker' = [inboxWorker EXCEPT ![w] = q]
        /\ UNCHANGED <<inboxOwed, inboxRow, inboxDead, inboxTries, inboxDone, inboxPayment, inboxJob>>
    BY <1>1 DEF Inbox!Deliver, InboxLocal, InboxPoints
  <2> HIDE DEF q
  <2>2. InboxTyped' /\ \A v \in InboxWorkers : inboxWorker'[v] = IF v = w THEN q ELSE inboxWorker[v]
    BY <1>0, <2>1, InboxMoves
  <2> QED
    BY <2>1, <2>2, InboxKeeps DEF Routing
<1>2. CASE Inbox!FindLog(w)
  <2>1. PICK q \in InboxLocal :
          /\ q.at \in {"idle", "insert"} /\ (q.at # "idle" => q.e \in InboxEvents)
          /\ inboxWorker' = [inboxWorker EXCEPT ![w] = q] /\ inboxOwed' \subseteq InboxEvents
    <3>1. CASE Inbox!Answered(w)
      BY <1>0, <1>i, <3>1 DEF Inbox!Answered, Inbox!End
    <3>2. CASE Inbox!Goto(w, "insert") /\ UNCHANGED inboxOwed
      <4>1. To("insert") \in InboxLocal /\ To("insert").at = "insert" /\ To("insert").e \in InboxEvents
        BY <1>0, <1>2, <1>t DEF Inbox!FindLog, InboxPoints
      <4>2. inboxWorker' = [inboxWorker EXCEPT ![w] = To("insert")]
        BY <3>2 DEF Inbox!Goto
      <4> QED
        BY <1>0, <3>2, <4>1, <4>2
    <3> QED
      BY <1>2, <3>1, <3>2 DEF Inbox!FindLog
  <2>2. UNCHANGED <<inboxRow, inboxDead, inboxTries, inboxDone, inboxPayment, inboxJob>>
    BY <1>2 DEF Inbox!FindLog
  <2>3. InboxTyped' /\ \A v \in InboxWorkers : inboxWorker'[v] = IF v = w THEN q ELSE inboxWorker[v]
    BY <1>0, <2>1, <2>2, InboxMoves
  <2> QED
    BY <2>1, <2>2, <2>3, InboxKeeps DEF Routing
<1>3. CASE Inbox!logWebhookEvent(w) /\ inboxRow[e].made = TRUE
  <2>1. /\ inboxWorker' = [inboxWorker EXCEPT ![w] = Inbox!Idle] /\ inboxOwed' \subseteq InboxEvents
        /\ UNCHANGED <<inboxRow, inboxDead, inboxTries, inboxDone, inboxPayment, inboxJob>>
    BY <1>0, <1>3 DEF Inbox!logWebhookEvent, Inbox!Answered, Inbox!End
  <2>2. InboxTyped' /\ \A v \in InboxWorkers : inboxWorker'[v] = IF v = w THEN Inbox!Idle ELSE inboxWorker[v]
    BY <1>0, <1>i, <2>1, InboxMoves
  <2> QED
    BY <1>i, <2>1, <2>2, InboxKeeps DEF Routing
<1>4. CASE Inbox!logWebhookEvent(w) /\ inboxRow[e].made # TRUE
  <2> DEFINE q == To("route")
  <2>1. inboxWorker[w].at = "insert" /\ e \in InboxEvents
    BY <1>0, <1>4 DEF Inbox!logWebhookEvent
  <2>2. inboxRow[e].made = FALSE
    BY <1>0, <1>4, <2>1 DEF InboxLog
  <2>3. /\ inboxRow' = [inboxRow EXCEPT ![e].made = TRUE] /\ inboxWorker' = [inboxWorker EXCEPT ![w] = q]
        /\ UNCHANGED <<inboxOwed, inboxDead, inboxTries, inboxDone, inboxPayment, inboxJob>>
    BY <1>4, <2>2 DEF Inbox!logWebhookEvent, Inbox!Goto
  <2>4. q \in InboxLocal /\ q.at = "route" /\ q.e = e
    BY <1>t DEF InboxPoints
  <2>5. /\ inboxRow' \in [InboxEvents -> InboxLog] /\ inboxRow'[e].made = TRUE
        /\ \A x \in InboxEvents : /\ inboxRow'[x].made = FALSE => inboxRow[x].made = FALSE
                                  /\ inboxRow[x].made = TRUE => inboxRow'[x].made = TRUE
                                  /\ inboxRow'[x].retries = inboxRow[x].retries
                                  /\ inboxRow'[x].processed = inboxRow[x].processed
    BY <1>0, <2>1, <2>3 DEF InboxLog
  <2> HIDE DEF q
  <2>6. InboxTyped' /\ \A v \in InboxWorkers : inboxWorker'[v] = IF v = w THEN q ELSE inboxWorker[v]
    BY <1>0, <2>1, <2>3, <2>4, <2>5, InboxMoves
  <2>7. \A v \in InboxWorkers : Routing(inboxWorker[v]) => inboxWorker[v].e \in InboxEvents /\ inboxWorker[v].e # e
    BY <2>2 DEF InboxInv, InboxTyped, InboxOnce, Routing
  <2>8. InboxOnce'
    <3>1. \A v \in InboxWorkers : Routing(inboxWorker'[v]) => inboxRow'[inboxWorker'[v].e].made = TRUE
      <4>1. ASSUME NEW v \in InboxWorkers, v # w, Routing(inboxWorker[v]) PROVE inboxRow'[inboxWorker[v].e].made = TRUE
        <5>1. inboxWorker[v].e \in InboxEvents
          BY <2>7, <4>1
        <5>2. inboxRow[inboxWorker[v].e].made = TRUE
          BY <4>1 DEF InboxInv, InboxOnce
        <5>3. \A x \in InboxEvents : inboxRow[x].made = TRUE => inboxRow'[x].made = TRUE
          BY <2>5, Zenon
        <5> QED
          BY <5>1, <5>2, <5>3, Zenon
      <4> QED
        BY <2>4, <2>5, <2>6, <4>1
    <3>2. \A u, v \in InboxWorkers :
            Routing(inboxWorker'[u]) /\ Routing(inboxWorker'[v]) /\ inboxWorker'[u].e = inboxWorker'[v].e => u = v
      BY <2>4, <2>6, <2>7 DEF InboxInv, InboxOnce
    <3>3. inboxTries[e] = 0
      BY <2>1, <2>2 DEF InboxInv, InboxOnce
    <3>4. \A v \in InboxWorkers : inboxWorker'[v].at = "route" => inboxTries'[inboxWorker'[v].e] = 0
      BY <2>3, <2>4, <2>6, <3>3 DEF InboxInv, InboxOnce
    <3>5. \A x \in InboxEvents : (inboxRow'[x].made = FALSE => inboxTries'[x] = 0) /\ inboxTries'[x] <= 1
      BY <2>3, <2>5 DEF InboxInv, InboxOnce
    <3> QED
      BY <3>1, <3>2, <3>4, <3>5 DEF InboxOnce, Routing
  <2>9. InboxAccounted'
    BY <2>3, <2>4, <2>5, <2>6 DEF InboxInv, InboxAccounted
  <2>10. InboxListed'
    BY <1>0, <2>3, <2>5 DEF InboxInv, InboxListed, InboxItem
  <2> QED
    BY <2>6, <2>8, <2>9, <2>10 DEF InboxInv
<1>5. CASE Inbox!routeEvent(w)
  <2>1. /\ inboxWorker[w].at = "route" /\ Routing(inboxWorker[w]) /\ e \in InboxEvents /\ inboxTries[e] = 0
        /\ inboxRow[e].made = TRUE
    BY <1>0, <1>5 DEF Inbox!routeEvent, InboxInv, InboxOnce, Routing
  <2>2. PICK p \in {"mark", "error"} :
          /\ inboxWorker' = [inboxWorker EXCEPT ![w] = To(p)]
          /\ inboxDone' \in [InboxEvents -> Nat] /\ (p = "mark" => inboxDone'[e] > 0)
          /\ \A x \in InboxEvents : inboxDone[x] > 0 => inboxDone'[x] > 0
          /\ inboxPayment' \in {"PENDING", "SUCCEEDED", "FAILED", "REFUNDED"}
    <3>1. CASE inboxDone' = [inboxDone EXCEPT ![e] = @ + 1] /\ inboxPayment' = Inbox!Effect(e) /\ Inbox!Goto(w, "mark")
      <4>1. inboxDone' \in [InboxEvents -> Nat] /\ inboxDone'[e] > 0
        BY <1>0, <2>1, <3>1
      <4>2. \A x \in InboxEvents : inboxDone[x] > 0 => inboxDone'[x] > 0
        BY <1>0, <2>1, <3>1
      <4>3. inboxPayment' \in {"PENDING", "SUCCEEDED", "FAILED", "REFUNDED"}
        BY <1>0, <3>1 DEF Inbox!Effect
      <4>4. inboxWorker' = [inboxWorker EXCEPT ![w] = To("mark")]
        BY <3>1 DEF Inbox!Goto
      <4> QED
        BY <4>1, <4>2, <4>3, <4>4
    <3>2. CASE Inbox!Goto(w, "error") /\ UNCHANGED <<inboxDone, inboxPayment>>
      <4>1. inboxWorker' = [inboxWorker EXCEPT ![w] = To("error")]
        BY <3>2 DEF Inbox!Goto
      <4> QED
        BY <1>0, <3>2, <4>1
    <3> QED
      BY <1>5, <3>1, <3>2 DEF Inbox!routeEvent
  <2> DEFINE q == To(p)
  <2>3. q \in InboxLocal /\ q.at = p /\ q.e = e
    BY <1>t DEF InboxPoints
  <2>4. /\ inboxTries' = [inboxTries EXCEPT ![e] = @ + 1]
        /\ UNCHANGED <<inboxOwed, inboxRow, inboxDead, inboxJob>>
    BY <1>5 DEF Inbox!routeEvent
  <2>5. inboxTries' \in [InboxEvents -> Nat] /\ inboxTries'[e] = 1 /\ \A x \in InboxEvents \ {e} : inboxTries'[x] = inboxTries[x]
    BY <1>0, <2>1, <2>4
  <2> HIDE DEF q
  <2>6. InboxTyped' /\ \A v \in InboxWorkers : inboxWorker'[v] = IF v = w THEN q ELSE inboxWorker[v]
    <3>1. q.at # "idle" => q.e \in InboxEvents
      BY <2>1, <2>3
    <3>2. inboxWorker' = [inboxWorker EXCEPT ![w] = q]
      BY <2>2 DEF q
    <3>3. /\ inboxOwed' \subseteq InboxEvents /\ inboxRow' \in [InboxEvents -> InboxLog]
          /\ inboxDead' \in [InboxEvents -> Nat] /\ inboxJob' = inboxJob
      BY <1>0, <2>4
    <3>4. /\ inboxTries' \in [InboxEvents -> Nat] /\ inboxDone' \in [InboxEvents -> Nat]
          /\ inboxPayment' \in {"PENDING", "SUCCEEDED", "FAILED", "REFUNDED"} /\ q \in InboxLocal
      BY <2>2, <2>3, <2>5
    <3> QED
      BY <3>1, <3>2, <3>3, <3>4, InboxMoves
  <2>7. Routing(q) /\ q.at # "route"
    BY <2>3 DEF Routing
  <2>8. \A v \in InboxWorkers \ {w} : Routing(inboxWorker[v]) => inboxWorker[v].e \in InboxEvents \ {e}
    BY <2>1 DEF InboxInv, InboxTyped, InboxOnce, Routing
  <2>9. InboxOnce'
    <3>1. \A v \in InboxWorkers : Routing(inboxWorker'[v]) => inboxRow'[inboxWorker'[v].e].made = TRUE
      BY <2>1, <2>3, <2>4, <2>6 DEF InboxInv, InboxOnce
    <3>2. \A u, v \in InboxWorkers :
            Routing(inboxWorker'[u]) /\ Routing(inboxWorker'[v]) /\ inboxWorker'[u].e = inboxWorker'[v].e => u = v
      BY <2>1, <2>3, <2>6, <2>8 DEF InboxInv, InboxOnce
    <3>3. ASSUME NEW v \in InboxWorkers, inboxWorker'[v].at = "route" PROVE inboxTries'[inboxWorker'[v].e] = 0
      <4>1. v # w /\ inboxWorker'[v] = inboxWorker[v]
        BY <2>6, <2>7, <3>3
      <4>2. Routing(inboxWorker[v]) /\ inboxTries[inboxWorker[v].e] = 0
        BY <3>3, <4>1 DEF InboxInv, InboxOnce, Routing
      <4> QED
        BY <2>5, <2>8, <4>1, <4>2
    <3>4. \A x \in InboxEvents : (inboxRow'[x].made = FALSE => inboxTries'[x] = 0) /\ inboxTries'[x] <= 1
      BY <2>1, <2>4, <2>5 DEF InboxInv, InboxOnce
    <3> QED
      BY <3>1, <3>2, <3>3, <3>4 DEF InboxOnce, Routing
  <2>10. InboxAccounted'
    <3>1. \A x \in InboxEvents : inboxRow'[x].processed = TRUE => inboxDone'[x] > 0 \/ inboxDead'[x] > 0
      BY <2>2, <2>4 DEF InboxInv, InboxAccounted
    <3>2. ASSUME NEW v \in InboxWorkers, inboxWorker'[v].at = "mark" PROVE inboxDone'[inboxWorker'[v].e] > 0
      <4>1. CASE v = w
        BY <2>2, <2>3, <2>6, <3>2, <4>1
      <4>2. CASE v # w
        BY <2>2, <2>6, <2>8, <3>2, <4>2 DEF InboxInv, InboxAccounted, Routing
      <4> QED
        BY <4>1, <4>2
    <3> QED
      BY <3>1, <3>2 DEF InboxAccounted
  <2>11. InboxListed'
    BY <2>4 DEF InboxInv, InboxListed
  <2> QED
    BY <2>6, <2>9, <2>10, <2>11 DEF InboxInv
<1>6. CASE Inbox!MarkProcessed(w) \/ Inbox!WriteError(w) \/ Inbox!WriteDeadLetter(w)
  <2>1. /\ Routing(inboxWorker[w]) /\ e \in InboxEvents
        /\ UNCHANGED <<inboxTries, inboxDone, inboxPayment, inboxJob>>
    BY <1>0, <1>6 DEF Inbox!MarkProcessed, Inbox!WriteError, Inbox!WriteDeadLetter, Routing
  <2>2. PICK q \in InboxLocal :
          /\ q.at \in {"idle", "error", "dead"} /\ (q.at # "idle" => q.e = e)
          /\ inboxWorker' = [inboxWorker EXCEPT ![w] = q] /\ inboxOwed' \subseteq InboxEvents
    <3>1. CASE Inbox!End(w) /\ inboxOwed' \subseteq InboxEvents
      BY <1>i, <3>1 DEF Inbox!End
    <3>2. ASSUME NEW p \in {"error", "dead"}, Inbox!Goto(w, p), UNCHANGED inboxOwed
          PROVE  \E q \in InboxLocal : /\ q.at \in {"idle", "error", "dead"} /\ (q.at # "idle" => q.e = e)
                                       /\ inboxWorker' = [inboxWorker EXCEPT ![w] = q] /\ inboxOwed' \subseteq InboxEvents
      <4>1. To(p) \in InboxLocal /\ To(p).at = p /\ To(p).e = e
        BY <1>t DEF InboxPoints
      <4>2. inboxWorker' = [inboxWorker EXCEPT ![w] = To(p)]
        BY <3>2 DEF Inbox!Goto
      <4> QED
        BY <1>0, <3>2, <4>1, <4>2
    <3> QED
      BY <1>0, <1>6, <3>1, <3>2
         DEF Inbox!MarkProcessed, Inbox!WriteError, Inbox!WriteDeadLetter, Inbox!Answered
  <2>3. /\ inboxRow' \in [InboxEvents -> InboxLog] /\ inboxDead' \in [InboxEvents -> Nat]
        /\ \A x \in InboxEvents : /\ inboxRow'[x].made = inboxRow[x].made
                                  /\ inboxRow'[x].retries = inboxRow[x].retries
                                  /\ inboxRow'[x].processed = TRUE => inboxRow[x].processed = TRUE \/ inboxDone[x] > 0
                                  /\ inboxDead[x] > 0 => inboxDead'[x] > 0
    <3>1. CASE Inbox!MarkProcessed(w)
      <4>1. inboxDone[e] > 0 /\ inboxDead' = inboxDead
        BY <3>1 DEF Inbox!MarkProcessed, InboxInv, InboxAccounted
      <4>2. CASE inboxRow' = [inboxRow EXCEPT ![e].processed = TRUE]
        BY <1>0, <2>1, <4>1, <4>2 DEF InboxLog
      <4>3. CASE inboxRow' = inboxRow
        BY <1>0, <4>1, <4>3
      <4> QED
        BY <3>1, <4>2, <4>3 DEF Inbox!MarkProcessed
    <3>2. CASE Inbox!WriteError(w)
      BY <1>0, <2>1, <3>2 DEF Inbox!WriteError, InboxLog
    <3>3. CASE Inbox!WriteDeadLetter(w)
      BY <1>0, <2>1, <3>3 DEF Inbox!WriteDeadLetter
    <3> QED
      BY <1>6, <3>1, <3>2, <3>3
  <2>4. InboxTyped' /\ \A v \in InboxWorkers : inboxWorker'[v] = IF v = w THEN q ELSE inboxWorker[v]
    BY <1>0, <2>1, <2>2, <2>3, InboxMoves
  <2>5. \A x \in InboxEvents : /\ inboxRow'[x].made = inboxRow[x].made
                               /\ inboxRow'[x].retries = inboxRow[x].retries
                               /\ inboxRow'[x].processed = TRUE => inboxRow[x].processed = TRUE \/ inboxDone'[x] > 0
                               /\ inboxTries'[x] = inboxTries[x]
                               /\ inboxDone[x] > 0 => inboxDone'[x] > 0
                               /\ inboxDead[x] > 0 => inboxDead'[x] > 0
    <3>1. inboxTries' = inboxTries /\ inboxDone' = inboxDone
      BY <2>1
    <3>2. \A x \in InboxEvents : inboxTries'[x] = inboxTries[x] /\ (inboxDone[x] > 0 => inboxDone'[x] > 0)
      BY <3>1
    <3>3. \A x \in InboxEvents : inboxRow'[x].processed = TRUE => inboxRow[x].processed = TRUE \/ inboxDone'[x] > 0
      BY <2>3, <3>1, Zenon
    <3>4. \A x \in InboxEvents : inboxRow'[x].made = inboxRow[x].made /\ inboxRow'[x].retries = inboxRow[x].retries
      BY <2>3, Zenon
    <3>5. \A x \in InboxEvents : inboxDead[x] > 0 => inboxDead'[x] > 0
      BY <2>3, Zenon
    <3> QED
      BY <3>2, <3>3, <3>4, <3>5, Zenon
  <2>6. /\ Routing(q) => Routing(inboxWorker[w]) /\ q.e = inboxWorker[w].e
        /\ q.at # "route" /\ q.at # "mark"
    BY <2>1, <2>2 DEF Routing
  <2> QED
    BY <2>1, <2>2, <2>4, <2>5, <2>6, InboxKeeps
<1>7. CASE Inbox!Dies(w)
  <2>1. /\ inboxWorker' = [inboxWorker EXCEPT ![w] = Inbox!Idle]
        /\ UNCHANGED <<inboxOwed, inboxRow, inboxDead, inboxTries, inboxDone, inboxPayment, inboxJob>>
    BY <1>7 DEF Inbox!Dies, Inbox!End
  <2>2. InboxTyped' /\ \A v \in InboxWorkers : inboxWorker'[v] = IF v = w THEN Inbox!Idle ELSE inboxWorker[v]
    BY <1>0, <1>i, <2>1, InboxMoves
  <2> QED
    BY <1>i, <2>1, <2>2, InboxKeeps DEF Routing
<1> QED
  BY <1>1, <1>2, <1>3, <1>4, <1>5, <1>6, <1>7 DEF Inbox!Proceeds

(* The retry job.                                                          *)
LEMMA InboxJobStep == ASSUME InboxInv, Inbox!Job PROVE InboxInv'
<1>0. /\ inboxRow \in [InboxEvents -> InboxLog] /\ inboxDead \in [InboxEvents -> Nat]
      /\ inboxJob \subseteq InboxItem /\ InboxRetries \in Nat
      /\ UNCHANGED <<inboxOwed, inboxTries, inboxDone, inboxPayment, inboxWorker>>
  BY InboxTypes, InboxConstants
     DEF InboxInv, InboxTyped, Inbox!Job, Inbox!JobRead, Inbox!JobDies, Inbox!incrementRetryCount,
         Inbox!moveToDeadLetter
<1>1. ASSUME inboxRow' \in [InboxEvents -> InboxLog], inboxDead' \in [InboxEvents -> Nat],
             inboxJob' \subseteq InboxItem, InboxListed',
             \A e \in InboxEvents : /\ inboxRow'[e].made = inboxRow[e].made
                                    /\ inboxRow'[e].processed = TRUE => inboxRow[e].processed = TRUE \/ inboxDead'[e] > 0
                                    /\ inboxDead[e] > 0 => inboxDead'[e] > 0
      PROVE  InboxInv'
  <2>1. InboxTyped'
    BY <1>0, <1>1, InboxTypes DEF InboxInv, InboxTyped, Inbox!TypeOK, InboxLog, InboxItem
  <2>2. InboxOnce'
    BY <1>0, <1>1 DEF InboxInv, InboxTyped, InboxOnce, Routing
  <2>3. InboxAccounted'
    BY <1>0, <1>1 DEF InboxInv, InboxAccounted
  <2> QED
    BY <1>1, <2>1, <2>2, <2>3 DEF InboxInv
<1>2. CASE Inbox!JobRead
  <2>1. /\ UNCHANGED <<inboxRow, inboxDead>>
        /\ inboxJob' = {[e |-> e, retries |-> inboxRow[e].retries] : e \in {e \in InboxEvents : Inbox!Failed(e)}}
    BY <1>2 DEF Inbox!JobRead
  <2>2. ASSUME NEW item \in inboxJob'
        PROVE  item \in InboxItem /\ inboxRow[item.e].retries = item.retries /\ item.retries < InboxRetries
    <3>1. PICK e \in InboxEvents : Inbox!Failed(e) /\ item = [e |-> e, retries |-> inboxRow[e].retries]
      BY <2>1
    <3> QED
      BY <1>0, <3>1 DEF Inbox!Failed, InboxItem, InboxLog
  <2> QED
    BY <1>0, <1>1, <2>1, <2>2 DEF InboxListed
<1>3. CASE Inbox!JobDies
  BY <1>0, <1>1, <1>3 DEF Inbox!JobDies, InboxListed
<1>4. ASSUME NEW item \in inboxJob, Inbox!incrementRetryCount(item) \/ Inbox!moveToDeadLetter(item) PROVE InboxInv'
  <2>1. /\ item \in InboxItem /\ item.e \in InboxEvents
        /\ inboxRow[item.e].retries = item.retries /\ item.retries < InboxRetries
    BY <1>0 DEF InboxInv, InboxListed, InboxItem
  <2>2. inboxJob' = inboxJob \ {item}
    BY <1>4 DEF Inbox!incrementRetryCount, Inbox!moveToDeadLetter
  <2>3. /\ inboxRow' \in [InboxEvents -> InboxLog]
        /\ \A e \in InboxEvents \ {item.e} : inboxRow'[e] = inboxRow[e]
        /\ inboxRow'[item.e].made = inboxRow[item.e].made
        /\ inboxRow'[item.e].processed = TRUE => inboxRow[item.e].processed = TRUE \/ inboxDead'[item.e] > 0
        /\ inboxDead' \in [InboxEvents -> Nat]
        /\ \A e \in InboxEvents : inboxDead[e] > 0 => inboxDead'[e] > 0
    <3>0. inboxRow[item.e].retries \in Nat /\ inboxRow[item.e].retries + 1 \in 0 .. InboxRetries
      BY <1>0, <2>1 DEF InboxLog
    <3>1. CASE Inbox!incrementRetryCount(item)
      <4> DEFINE log == [inboxRow[item.e] EXCEPT !.retries = @ + 1]
      <4>1. log \in InboxLog /\ log.made = inboxRow[item.e].made /\ log.processed = inboxRow[item.e].processed
        BY <1>0, <2>1, <3>0 DEF InboxLog
      <4>2. inboxRow' = [inboxRow EXCEPT ![item.e] = log] /\ inboxDead' = inboxDead
        BY <3>1 DEF Inbox!incrementRetryCount
      <4> HIDE DEF log
      <4> QED
        BY <1>0, <2>1, <4>1, <4>2
    <3>2. CASE Inbox!moveToDeadLetter(item)
      <4> DEFINE log == [inboxRow[item.e] EXCEPT !.retries = @ + 1, !.processed = TRUE]
      <4>1. log \in InboxLog /\ log.made = inboxRow[item.e].made
        BY <1>0, <2>1, <3>0 DEF InboxLog
      <4>2. inboxRow' = [inboxRow EXCEPT ![item.e] = log] /\ inboxDead' = [inboxDead EXCEPT ![item.e] = @ + 1]
        BY <1>0, <2>1, <3>2 DEF Inbox!moveToDeadLetter
      <4> HIDE DEF log
      <4> QED
        BY <1>0, <2>1, <4>1, <4>2
    <3> QED
      BY <1>4, <3>1, <3>2
  <2>4. InboxListed'
    <3>1. ASSUME NEW other \in inboxJob', other.e = item.e PROVE FALSE
      <4>1. other \in inboxJob /\ other # item /\ other \in InboxItem
        BY <1>0, <2>2
      <4>2. other.retries = item.retries
        BY <2>1, <3>1, <4>1 DEF InboxInv, InboxListed
      <4> QED
        BY <2>1, <3>1, <4>1, <4>2 DEF InboxItem
    <3>2. ASSUME NEW other \in inboxJob'
          PROVE  inboxRow'[other.e].retries = other.retries /\ other.retries < InboxRetries
      <4>1. other \in inboxJob /\ other.e \in InboxEvents \ {item.e}
        BY <1>0, <2>2, <3>1 DEF InboxItem
      <4> QED
        BY <2>3, <4>1 DEF InboxInv, InboxListed
    <3> QED
      BY <3>2 DEF InboxListed
  <2>5. \A e \in InboxEvents : /\ inboxRow'[e].made = inboxRow[e].made
                               /\ inboxRow'[e].processed = TRUE => inboxRow[e].processed = TRUE \/ inboxDead'[e] > 0
    BY <2>3
  <2> QED
    BY <1>0, <1>1, <2>2, <2>3, <2>4, <2>5
<1> QED
  BY <1>2, <1>3, <1>4 DEF Inbox!Job

LEMMA InboxStep == ASSUME InboxInv, [Inbox!Next]_inboxVars PROVE InboxInv'
<1>1. CASE UNCHANGED inboxVars
  BY <1>1 DEF inboxVars, InboxInv, InboxTyped, Inbox!TypeOK, InboxOnce, InboxAccounted, InboxListed, Routing
<1> QED
  BY <1>1, InboxDeliveryStep, InboxJobStep DEF Inbox!Next, Inbox!Controller
-----------------------------------------------------------------------------
(* The accounting service.  The attempt n of a job has passed the row d when  *)
(* a later attempt has begun, or when it is itself beyond its loop or beyond  *)
(* d in it: it posts d no more.                                            *)
SyncJobs  == SyncRequests \X {"INVOICE", "PAYMENT", "CLIENT", "ONE"}
SyncDocs  == 1 .. MaxSyncDocs
SyncLocal == [at : {"none", "queued", "refresh", "keep", "list", "post", "stamp", "catch", "done"},
              tries : 0 .. SyncRetries, token : {"none", "cipher", "plain"},
              listed : SUBSET SyncDocs, left : SUBSET SyncDocs]

MayPost(local, d) == local.at \in {"queued", "refresh", "keep", "list"} \/ (local.at = "post" /\ d \in local.left)
Passed(local, n, d) ==
  local.at # "none" /\ (n < local.tries \/ (n = local.tries /\ ~MayPost(local, d)))
PassedBy(jobs, d) == {a \in SyncJobs \X (0 .. SyncRetries) : Passed(jobs[a[1]], a[2], d)}

SyncTyped ==
  /\ syncStatus \in {"NONE", "ACTIVE", "ERROR", "DISCONNECTED"}
  /\ syncStored \in {"none", "cipher"} /\ syncExpired \in BOOLEAN /\ syncSynced \in BOOLEAN
  /\ syncRows \in Seq({"INVOICE", "PAYMENT", "CLIENT"}) /\ Len(syncRows) <= MaxSyncDocs
  /\ syncPosted \in [SyncDocs -> Nat]
  /\ syncJob \in [SyncJobs -> SyncLocal]

SyncInv == SyncTyped /\ \A d \in SyncDocs : syncPosted[d] <= Cardinality(PassedBy(syncJob, d))

LEMMA SyncConstants ==
  MaxSyncDocs \in Nat /\ SyncRetries \in Nat /\ SyncBatch \in Nat \ {0} /\ IsFiniteSet(SyncRequests)
<1>1. Sync(TRUE)!AccountingAssumption
  BY MessagesAssumption
<1>2. Sync(TRUE)!IsFiniteSet(SyncRequests) <=> IsFiniteSet(SyncRequests)
  BY DEF Sync!IsFiniteSet, IsFiniteSet
<1> QED
  BY <1>1, <1>2 DEF Sync!AccountingAssumption

LEMMA AttemptsAreFinite == IsFiniteSet(SyncJobs \X (0 .. SyncRetries))
<1> DEFINE kinds == {"INVOICE", "PAYMENT", "CLIENT", "ONE"}
<1>1. IsFiniteSet(kinds)
  <2>1. IsFiniteSet({"INVOICE"})
    BY FS_Singleton
  <2>2. IsFiniteSet({"INVOICE"} \cup {"PAYMENT"})
    BY <2>1, FS_AddElement
  <2>3. IsFiniteSet(({"INVOICE"} \cup {"PAYMENT"}) \cup {"CLIENT"})
    BY <2>2, FS_AddElement
  <2>4. IsFiniteSet((({"INVOICE"} \cup {"PAYMENT"}) \cup {"CLIENT"}) \cup {"ONE"})
    BY <2>3, FS_AddElement
  <2>5. kinds = ((({"INVOICE"} \cup {"PAYMENT"}) \cup {"CLIENT"}) \cup {"ONE"})
    OBVIOUS
  <2> QED
    BY <2>4, <2>5
<1> HIDE DEF kinds
<1>2. IsFiniteSet(SyncRequests \X kinds)
  BY <1>1, SyncConstants, FS_Product
<1>3. IsFiniteSet(0 .. SyncRetries)
  BY SyncConstants, FS_Interval
<1>4. SyncJobs = SyncRequests \X kinds
  BY DEF SyncJobs, kinds
<1> QED
  BY <1>2, <1>3, <1>4, FS_Product

LEMMA PassedIsFinite ==
  ASSUME NEW jobs, NEW d
  PROVE  IsFiniteSet(PassedBy(jobs, d)) /\ Cardinality(PassedBy(jobs, d)) \in Nat
<1>1. PassedBy(jobs, d) \in SUBSET (SyncJobs \X (0 .. SyncRetries))
  BY DEF PassedBy
<1>2. IsFiniteSet(PassedBy(jobs, d))
  BY <1>1, AttemptsAreFinite, FS_Subset
<1> QED
  BY <1>2, FS_CardinalityType

(* An attempt that has passed a row stays so, and a row is posted only by an  *)
(* attempt that thereby passes it.                                         *)
LEMMA SyncCounts ==
  ASSUME SyncInv, SyncTyped',
         \A j \in SyncJobs, n \in 0 .. SyncRetries, d \in SyncDocs :
           Passed(syncJob[j], n, d) => Passed(syncJob'[j], n, d),
         \A d \in SyncDocs :
           \/ syncPosted'[d] = syncPosted[d]
           \/ /\ syncPosted'[d] = syncPosted[d] + 1
              /\ \E j \in SyncJobs, n \in 0 .. SyncRetries :
                   ~Passed(syncJob[j], n, d) /\ Passed(syncJob'[j], n, d)
  PROVE  SyncInv'
<1> SUFFICES ASSUME NEW d \in SyncDocs
             PROVE  syncPosted'[d] <= Cardinality(PassedBy(syncJob', d))
  BY DEF SyncInv, PassedBy, Passed, MayPost
<1> DEFINE before == PassedBy(syncJob, d)
           after  == PassedBy(syncJob', d)
<1>1. /\ IsFiniteSet(before) /\ Cardinality(before) \in Nat
      /\ IsFiniteSet(after) /\ Cardinality(after) \in Nat
  BY PassedIsFinite
<1>2. syncPosted[d] \in Nat /\ syncPosted[d] <= Cardinality(before)
  BY DEF SyncInv, SyncTyped
<1>3. before \subseteq after
  BY DEF PassedBy
<1>4. CASE syncPosted'[d] = syncPosted[d]
  <2>1. Cardinality(before) <= Cardinality(after)
    BY <1>1, <1>3, FS_Subset
  <2> HIDE DEF before, after
  <2> QED
    BY <1>1, <1>2, <1>4, <2>1 DEF after
<1>5. ASSUME syncPosted'[d] = syncPosted[d] + 1, NEW j \in SyncJobs, NEW n \in 0 .. SyncRetries,
             ~Passed(syncJob[j], n, d), Passed(syncJob'[j], n, d)
      PROVE  syncPosted'[d] <= Cardinality(after)
  <2>1. <<j, n>> \notin before /\ <<j, n>> \in after
    BY <1>5 DEF PassedBy
  <2>2. /\ IsFiniteSet(before \cup {<<j, n>>})
        /\ Cardinality(before \cup {<<j, n>>}) = Cardinality(before) + 1
    BY <1>1, <2>1, FS_AddElement
  <2>3. before \cup {<<j, n>>} \in SUBSET after
    BY <1>3, <2>1
  <2>4. Cardinality(before \cup {<<j, n>>}) <= Cardinality(after)
    BY <1>1, <2>3, FS_Subset
  <2> HIDE DEF before, after
  <2> QED
    BY <1>1, <1>2, <1>5, <2>2, <2>4
<1> QED
  BY <1>4, <1>5

(* A step of one job that posts nothing.                                     *)
Onward(p, q) == \A n \in 0 .. SyncRetries, d \in SyncDocs : Passed(p, n, d) => Passed(q, n, d)

LEMMA SyncMoves ==
  ASSUME SyncInv, NEW j \in SyncJobs, NEW q \in SyncLocal, Onward(syncJob[j], q),
         syncJob' = [syncJob EXCEPT ![j] = q],
         syncStatus' \in {"NONE", "ACTIVE", "ERROR", "DISCONNECTED"}, syncStored' \in {"none", "cipher"},
         syncExpired' \in BOOLEAN, syncSynced' \in BOOLEAN, UNCHANGED <<syncRows, syncPosted>>
  PROVE  SyncInv'
<1>1. syncJob \in [SyncJobs -> SyncLocal]
  BY DEF SyncInv, SyncTyped
<1>2. \A i \in SyncJobs : syncJob'[i] = IF i = j THEN q ELSE syncJob[i]
  BY <1>1
<1>3. SyncTyped'
  BY <1>1 DEF SyncInv, SyncTyped
<1>4. \A i \in SyncJobs, n \in 0 .. SyncRetries, d \in SyncDocs :
        Passed(syncJob[i], n, d) => Passed(syncJob'[i], n, d)
  BY <1>2 DEF Onward
<1> QED
  BY <1>3, <1>4, SyncCounts

LEMMA SyncInit == Sync(FALSE)!Init => SyncInv
<1> SUFFICES ASSUME Sync(FALSE)!Init PROVE SyncInv
  OBVIOUS
<1>1. syncJob = [j \in SyncJobs |-> Sync(FALSE)!Away] /\ Sync(FALSE)!Away \in SyncLocal /\ Sync(FALSE)!Away.at = "none"
  BY SyncConstants DEF Sync!Init, Sync!Jobs, Sync!Kinds, Sync!Away, SyncJobs, SyncLocal
<1>2. syncPosted = [d \in SyncDocs |-> 0] /\ syncRows = <<>>
  BY DEF Sync!Init, Sync!Docs, SyncDocs
<1>3. SyncTyped
  <2>1. syncStatus = "NONE" /\ syncStored = "none" /\ syncExpired = FALSE /\ syncSynced = FALSE
    BY DEF Sync!Init
  <2>2. Len(syncRows) <= MaxSyncDocs /\ syncRows \in Seq({"INVOICE", "PAYMENT", "CLIENT"})
    BY <1>2, SyncConstants
  <2>3. syncPosted \in [SyncDocs -> Nat] /\ syncJob \in [SyncJobs -> SyncLocal]
    BY <1>1, <1>2
  <2> QED
    BY <2>1, <2>2, <2>3 DEF SyncTyped
<1>4. ASSUME NEW d \in SyncDocs PROVE syncPosted[d] <= Cardinality(PassedBy(syncJob, d))
  <2>1. Cardinality(PassedBy(syncJob, d)) \in Nat
    BY PassedIsFinite
  <2> HIDE DEF PassedBy
  <2> QED
    BY <1>2, <2>1
<1> QED
  BY <1>3, <1>4 DEF SyncInv

LEMMA SyncTokens ==
  ASSUME SyncInv, NEW b \in BOOLEAN
  PROVE  Sync(b)!getTokensFromConnection \in {"none", "cipher", "plain"}
<1>1. syncStored \in {"none", "cipher"}
  BY DEF SyncInv, SyncTyped
<1>2. CASE b /\ syncStored = "cipher"
  BY <1>2 DEF Sync!getTokensFromConnection
<1>3. CASE ~(b /\ syncStored = "cipher")
  BY <1>1, <1>3 DEF Sync!getTokensFromConnection
<1> QED
  BY <1>2, <1>3

LEMMA NewestAreRows ==
  ASSUME SyncInv, NEW b \in BOOLEAN, NEW kind, NEW n
  PROVE  Sync(b)!Newest(kind, n) \subseteq SyncDocs
BY SyncConstants DEF SyncInv, SyncTyped, Sync!Newest, SyncDocs

(* When a job goes on to q.                                                *)
LEMMA GoesOn ==
  ASSUME NEW p \in SyncLocal, NEW q \in SyncLocal,
         \/ p.at = "none"
         \/ /\ q.at # "none"
            /\ \/ p.tries < q.tries
               \/ p.tries = q.tries /\ \A d \in SyncDocs : MayPost(q, d) => MayPost(p, d)
  PROVE  Onward(p, q)
<1> SUFFICES ASSUME NEW n \in 0 .. SyncRetries, NEW d \in SyncDocs, Passed(p, n, d) PROVE Passed(q, n, d)
  BY DEF Onward
<1>1. p.at # "none" /\ q.at # "none" /\ p.tries \in Nat /\ q.tries \in Nat /\ SyncRetries \in Nat
  BY SyncConstants DEF Passed, SyncLocal
<1> QED
  BY <1>1 DEF Passed

(* A step of a job.                                                        *)
LEMMA SyncJobStep ==
  ASSUME SyncInv, NEW b \in BOOLEAN, NEW j \in SyncJobs,
         \/ Sync(b)!JobReads(j) \/ Sync(b)!RefreshToken(j) \/ Sync(b)!RefreshFails(j) \/ Sync(b)!KeepTokens(j)
         \/ Sync(b)!Posted(j) \/ Sync(b)!Stamp(j) \/ Sync(b)!Throws(j) \/ Sync(b)!Catch(j)
         \/ \E d \in SyncDocs : Sync(b)!PostRefused(j, d)
  PROVE  SyncInv'
<1> DEFINE p == syncJob[j]
           Goal == \E q \in SyncLocal : Onward(p, q) /\ syncJob' = [syncJob EXCEPT ![j] = q]
<1>0. /\ p \in SyncLocal /\ SyncRetries \in Nat
      /\ syncStatus \in {"NONE", "ACTIVE", "ERROR", "DISCONNECTED"} /\ syncStored \in {"none", "cipher"}
      /\ syncExpired \in BOOLEAN /\ syncSynced \in BOOLEAN
  BY SyncConstants DEF SyncInv, SyncTyped
<1>1. Goal
  <2>1. ASSUME NEW point \in {"queued", "refresh", "keep", "list", "post", "stamp", "catch", "done"},
               Sync(b)!Goto(j, point),
               point \in {"queued", "refresh", "keep", "list"} => p.at \in {"queued", "refresh", "keep", "list"},
               point = "post" => p.at = "post"
        PROVE  Goal
    <3> DEFINE q == [p EXCEPT !.at = point]
    <3>1. q \in SyncLocal /\ q.at = point /\ q.tries = p.tries /\ q.left = p.left
      BY <1>0 DEF SyncLocal
    <3>2. syncJob' = [syncJob EXCEPT ![j] = q]
      BY <2>1 DEF Sync!Goto
    <3> HIDE DEF q
    <3>3. Onward(p, q)
      BY <1>0, <2>1, <3>1, GoesOn DEF MayPost
    <3> QED
      BY <3>1, <3>2, <3>3
  <2>2. CASE Sync(b)!JobReads(j)
    <3> DEFINE q == IF syncStatus # "ACTIVE" THEN [p EXCEPT !.at = "done"]
                    ELSE [p EXCEPT !.at = IF syncExpired THEN "refresh" ELSE "list",
                                   !.token = Sync(b)!getTokensFromConnection]
    <3>1. syncJob' = [syncJob EXCEPT ![j] = q] /\ p.at = "queued"
      BY <2>2 DEF Sync!JobReads, Sync!Put
    <3>2. Sync(b)!getTokensFromConnection \in {"none", "cipher", "plain"}
      BY SyncTokens
    <3>3. q \in SyncLocal /\ q.at \in {"done", "refresh", "list"} /\ q.tries = p.tries
      BY <1>0, <3>2 DEF SyncLocal
    <3> HIDE DEF q
    <3>4. Onward(p, q)
      BY <1>0, <3>1, <3>3, GoesOn DEF MayPost
    <3> QED
      BY <3>1, <3>3, <3>4
  <2>3. CASE Sync(b)!RefreshToken(j) \/ Sync(b)!RefreshFails(j)
    BY <2>1, <2>3 DEF Sync!RefreshToken, Sync!RefreshFails
  <2>4. CASE Sync(b)!KeepTokens(j)
    BY <2>1, <2>4 DEF Sync!KeepTokens
  <2>5. CASE Sync(b)!Posted(j)
    BY <2>1, <2>5 DEF Sync!Posted
  <2>6. CASE Sync(b)!Stamp(j) \/ Sync(b)!Throws(j)
    BY <2>1, <2>6 DEF Sync!Stamp, Sync!Throws
  <2>7. CASE Sync(b)!Catch(j)
    <3> DEFINE q == IF p.tries < SyncRetries THEN [p EXCEPT !.at = "queued", !.tries = @ + 1, !.token = "none"]
                    ELSE [p EXCEPT !.at = "done"]
    <3>1. syncJob' = [syncJob EXCEPT ![j] = q] /\ p.at = "catch"
      BY <2>7 DEF Sync!Catch, Sync!Put
    <3>2. q \in SyncLocal /\ ((q.at = "queued" /\ p.tries < q.tries) \/ (q.at = "done" /\ q.tries = p.tries))
      <4>1. p.tries \in 0 .. SyncRetries
        BY <1>0 DEF SyncLocal
      <4>2. CASE p.tries < SyncRetries
        <5> DEFINE again == [p EXCEPT !.at = "queued", !.tries = p.tries + 1, !.token = "none"]
        <5>1. p.tries + 1 \in 0 .. SyncRetries /\ p.tries < p.tries + 1
          BY <1>0, <4>1, <4>2
        <5>2. again \in SyncLocal /\ again.at = "queued" /\ again.tries = p.tries + 1
          BY <1>0, <5>1 DEF SyncLocal
        <5>3. q = again
          BY <4>2
        <5> HIDE DEF q, again
        <5> QED
          BY <5>1, <5>2, <5>3
      <4>3. CASE ~(p.tries < SyncRetries)
        BY <1>0, <4>1, <4>3 DEF SyncLocal
      <4> QED
        BY <4>2, <4>3
    <3> HIDE DEF q
    <3>3. Onward(p, q)
      BY <1>0, <3>1, <3>2, GoesOn DEF MayPost
    <3> QED
      BY <3>1, <3>2, <3>3
  <2>8. ASSUME NEW d \in SyncDocs, Sync(b)!PostRefused(j, d) PROVE Goal
    <3> DEFINE q == [p EXCEPT !.left = @ \ {d}]
    <3>1. syncJob' = [syncJob EXCEPT ![j] = q] /\ p.at = "post"
      BY <2>8 DEF Sync!PostRefused
    <3>2. q \in SyncLocal /\ q.at = "post" /\ q.tries = p.tries /\ q.left \subseteq p.left
      BY <1>0, <3>1 DEF SyncLocal
    <3> HIDE DEF q
    <3>3. Onward(p, q)
      BY <1>0, <3>1, <3>2, GoesOn DEF MayPost
    <3> QED
      BY <3>1, <3>2, <3>3
  <2> HIDE DEF Goal
  <2> QED
    BY <2>2, <2>3, <2>4, <2>5, <2>6, <2>7, <2>8
<1>2. /\ syncStatus' \in {"NONE", "ACTIVE", "ERROR", "DISCONNECTED"} /\ syncStored' \in {"none", "cipher"}
      /\ syncExpired' \in BOOLEAN /\ syncSynced' \in BOOLEAN /\ UNCHANGED <<syncRows, syncPosted>>
  BY <1>0 DEF Sync!JobReads, Sync!RefreshToken, Sync!RefreshFails, Sync!KeepTokens, Sync!Posted, Sync!Stamp,
              Sync!Throws, Sync!Catch, Sync!PostRefused, Sync!connVars
<1> QED
  BY <1>1, <1>2, SyncMoves

(* A row is posted.                                                        *)
LEMMA SyncPostStep ==
  ASSUME SyncInv, NEW b \in BOOLEAN, NEW j \in SyncJobs, NEW d \in SyncDocs, Sync(b)!Post(j, d)
  PROVE  SyncInv'
<1> DEFINE p == syncJob[j]
           q == [p EXCEPT !.left = @ \ {d}]
<1>0. /\ syncJob \in [SyncJobs -> SyncLocal] /\ p \in SyncLocal /\ SyncRetries \in Nat
      /\ syncPosted \in [SyncDocs -> Nat]
  BY SyncConstants DEF SyncInv, SyncTyped
<1>1. /\ syncJob' = [syncJob EXCEPT ![j] = q] /\ p.at = "post" /\ d \in p.left
      /\ UNCHANGED <<syncStatus, syncStored, syncExpired, syncSynced, syncRows>>
  BY DEF Sync!Post, Sync!connVars
<1>2. q \in SyncLocal /\ q.at = "post" /\ q.tries = p.tries /\ q.left = p.left \ {d}
  BY <1>0, <1>1 DEF SyncLocal
<1>3. \/ syncPosted' = syncPosted
      \/ syncPosted' = [syncPosted EXCEPT ![d] = @ + 1]
  <2>1. syncPosted' = [syncPosted EXCEPT ![d] = IF Sync(b)!Accepts(j) THEN @ + 1 ELSE @]
    BY DEF Sync!Post
  <2>2. CASE Sync(b)!Accepts(j)
    BY <2>1, <2>2
  <2>3. CASE ~Sync(b)!Accepts(j)
    BY <1>0, <2>1, <2>3
  <2> QED
    BY <2>2, <2>3
<1> HIDE DEF q
<1>4. \A i \in SyncJobs : syncJob'[i] = IF i = j THEN q ELSE syncJob[i]
  BY <1>0, <1>1
<1>5. SyncTyped'
  <2>1. syncPosted' \in [SyncDocs -> Nat]
    BY <1>0, <1>3
  <2>2. syncJob' \in [SyncJobs -> SyncLocal]
    BY <1>0, <1>1, <1>2
  <2> QED
    BY <1>1, <2>1, <2>2 DEF SyncInv, SyncTyped
<1>6. Onward(p, q)
  BY <1>0, <1>1, <1>2, GoesOn DEF MayPost
<1>7. \A i \in SyncJobs, n \in 0 .. SyncRetries, x \in SyncDocs :
        Passed(syncJob[i], n, x) => Passed(syncJob'[i], n, x)
  BY <1>4, <1>6 DEF Onward
<1>8. p.tries \in 0 .. SyncRetries /\ ~Passed(p, p.tries, d) /\ Passed(q, p.tries, d)
  BY <1>0, <1>1, <1>2 DEF Passed, MayPost, SyncLocal
<1>9. \A x \in SyncDocs :
        \/ syncPosted'[x] = syncPosted[x]
        \/ /\ syncPosted'[x] = syncPosted[x] + 1
           /\ \E i \in SyncJobs, n \in 0 .. SyncRetries :
                ~Passed(syncJob[i], n, x) /\ Passed(syncJob'[i], n, x)
  <2>1. ASSUME NEW x \in SyncDocs, syncPosted'[x] # syncPosted[x] PROVE x = d /\ syncPosted'[x] = syncPosted[x] + 1
    BY <1>0, <1>3, <2>1
  <2>2. ~Passed(syncJob[j], p.tries, d) /\ Passed(syncJob'[j], p.tries, d)
    BY <1>4, <1>8
  <2> QED
    BY <1>8, <2>1, <2>2
<1> QED
  BY <1>5, <1>7, <1>9, SyncCounts

(* A job reads the rows.                                                   *)
LEMMA SyncListStep ==
  ASSUME SyncInv, NEW b \in BOOLEAN, NEW r \in SyncRequests, Sync(b)!Lists(r)
  PROVE  SyncInv'
<1>1. ASSUME NEW kind \in {"INVOICE", "PAYMENT", "CLIENT", "ONE"}, NEW docs \in SUBSET SyncDocs,
             syncJob[<<r, kind>>].at = "list", Sync(b)!Loop(<<r, kind>>, docs),
             UNCHANGED <<syncStatus, syncStored, syncExpired, syncSynced, syncRows, syncPosted>>
      PROVE  SyncInv'
  <2> DEFINE j == <<r, kind>>
             p == syncJob[j]
             q == [p EXCEPT !.at = "post", !.listed = docs, !.left = docs]
  <2>1. j \in SyncJobs /\ p \in SyncLocal /\ p.at = "list"
    BY <1>1 DEF SyncInv, SyncTyped, SyncJobs
  <2>2. q \in SyncLocal /\ q.at = "post" /\ q.tries = p.tries
    BY <2>1 DEF SyncLocal
  <2>3. syncJob' = [syncJob EXCEPT ![j] = q]
    BY <1>1 DEF Sync!Loop, Sync!Put
  <2> HIDE DEF q, j
  <2>4. Onward(p, q)
    BY <2>1, <2>2, GoesOn DEF MayPost
  <2>5. /\ syncStatus' \in {"NONE", "ACTIVE", "ERROR", "DISCONNECTED"} /\ syncStored' \in {"none", "cipher"}
        /\ syncExpired' \in BOOLEAN /\ syncSynced' \in BOOLEAN
    BY <1>1 DEF SyncInv, SyncTyped
  <2> QED
    BY <1>1, <2>1, <2>2, <2>3, <2>4, <2>5, SyncMoves
<1>2. CASE Sync(b)!ListInvoices(r)
  BY <1>1, <1>2, NewestAreRows DEF Sync!ListInvoices, Sync!connVars
<1>3. CASE Sync(b)!ListPayments(r)
  BY <1>1, <1>3, NewestAreRows DEF Sync!ListPayments, Sync!connVars
<1>4. CASE Sync(b)!ListClients(r)
  BY <1>1, <1>4, NewestAreRows DEF Sync!ListClients, Sync!connVars
<1>5. CASE Sync(b)!FindInvoice(r)
  <2>1. syncJob[<<r, "ONE">>].listed \in SUBSET SyncDocs
    BY DEF SyncInv, SyncTyped, SyncJobs, SyncLocal
  <2> QED
    BY <1>1, <1>5, <2>1 DEF Sync!FindInvoice, Sync!connVars
<1> QED
  BY <1>2, <1>3, <1>4, <1>5 DEF Sync!Lists

(* What the owner does.                                                    *)
LEMMA SyncOwnerStep ==
  ASSUME SyncInv, NEW b \in BOOLEAN, Sync(b)!Owner \/ Sync(b)!disconnect
  PROVE  SyncInv'
<1>0. /\ syncStatus \in {"NONE", "ACTIVE", "ERROR", "DISCONNECTED"} /\ syncStored \in {"none", "cipher"}
      /\ syncExpired \in BOOLEAN /\ syncSynced \in BOOLEAN
      /\ syncRows \in Seq({"INVOICE", "PAYMENT", "CLIENT"}) /\ Len(syncRows) <= MaxSyncDocs
      /\ syncPosted \in [SyncDocs -> Nat] /\ syncJob \in [SyncJobs -> SyncLocal]
  BY DEF SyncInv, SyncTyped
<1>1. CASE Sync(b)!handleCallback \/ Sync(b)!disconnect \/ Sync(b)!Expire
  <2>1. SyncTyped' /\ UNCHANGED <<syncJob, syncPosted>>
    BY <1>0, <1>1 DEF Sync!handleCallback, Sync!disconnect, Sync!Expire, SyncTyped
  <2> QED
    BY <2>1, SyncCounts
<1>2. ASSUME NEW kind \in {"INVOICE", "PAYMENT", "CLIENT"}, Sync(b)!Add(kind) PROVE SyncInv'
  <2>1. /\ syncRows' \in Seq({"INVOICE", "PAYMENT", "CLIENT"}) /\ Len(syncRows') <= MaxSyncDocs
        /\ UNCHANGED <<syncStatus, syncStored, syncExpired, syncSynced, syncPosted, syncJob>>
    BY <1>0, <1>2, SyncConstants DEF Sync!Add, Sync!connVars
  <2>2. SyncTyped'
    BY <1>0, <2>1 DEF SyncTyped
  <2> QED
    BY <2>1, <2>2, SyncCounts
<1>3. ASSUME NEW r \in SyncRequests, NEW kinds \in SUBSET {"INVOICE", "PAYMENT", "CLIENT"},
             Sync(b)!triggerSync(r, kinds)
      PROVE  SyncInv'
  <2> DEFINE q == [Sync(b)!Away EXCEPT !.at = "queued"]
  <2>1. q \in SyncLocal /\ Sync(b)!Away.at = "none"
    BY SyncConstants DEF Sync!Away, SyncLocal
  <2>2. Sync(b)!Kinds = {"INVOICE", "PAYMENT", "CLIENT", "ONE"} /\ Sync(b)!Jobs = SyncJobs
    BY DEF Sync!Kinds, Sync!Jobs, SyncJobs
  <2>3. /\ \A k \in {"INVOICE", "PAYMENT", "CLIENT", "ONE"} : syncJob[<<r, k>>] = Sync(b)!Away
        /\ syncJob' = [j \in SyncJobs |-> IF j[1] = r /\ j[2] \in kinds THEN q ELSE syncJob[j]]
        /\ UNCHANGED <<syncStatus, syncStored, syncExpired, syncSynced, syncRows, syncPosted>>
    BY <1>3, <2>2 DEF Sync!triggerSync, Sync!connVars
  <2> HIDE DEF q
  <2>4. SyncTyped'
    <3>1. syncJob' \in [SyncJobs -> SyncLocal]
      BY <1>0, <2>1, <2>3
    <3> QED
      BY <1>0, <2>3, <3>1 DEF SyncTyped
  <2>5. ASSUME NEW j \in SyncJobs, NEW n \in 0 .. SyncRetries, NEW d \in SyncDocs, Passed(syncJob[j], n, d)
        PROVE  Passed(syncJob'[j], n, d)
    <3>1. syncJob[j] # Sync(b)!Away
      BY <2>1, <2>5 DEF Passed
    <3>2. ~(j[1] = r /\ j[2] \in kinds)
      BY <2>3, <3>1 DEF SyncJobs
    <3>3. syncJob'[j] = syncJob[j]
      BY <2>3, <3>2
    <3> QED
      BY <2>5, <3>3
  <2> QED
    BY <2>3, <2>4, <2>5, SyncCounts
<1>4. ASSUME NEW r \in SyncRequests, NEW d \in SyncDocs, Sync(b)!syncSingleInvoice(r, d) PROVE SyncInv'
  <2> DEFINE j == <<r, "ONE">>
             q == [Sync(b)!Away EXCEPT !.at = "queued", !.listed = {d}]
  <2>1. q \in SyncLocal /\ Sync(b)!Away.at = "none"
    <3>1. Sync(b)!Away \in SyncLocal /\ Sync(b)!Away.at = "none"
      BY SyncConstants DEF Sync!Away, SyncLocal
    <3>2. {d} \in SUBSET SyncDocs
      OBVIOUS
    <3> QED
      BY <3>1, <3>2 DEF SyncLocal
  <2>2. j \in SyncJobs /\ syncJob[j] = Sync(b)!Away /\ syncJob[j] \in SyncLocal
    BY <1>0, <1>4 DEF Sync!syncSingleInvoice, Sync!Kinds, SyncJobs
  <2>3. /\ syncJob' = [syncJob EXCEPT ![j] = q]
        /\ UNCHANGED <<syncStatus, syncStored, syncExpired, syncSynced, syncRows, syncPosted>>
    BY <1>4 DEF Sync!syncSingleInvoice, Sync!Put, Sync!connVars
  <2> HIDE DEF q, j
  <2>4. Onward(syncJob[j], q)
    BY <2>1, <2>2, GoesOn
  <2> QED
    BY <1>0, <2>1, <2>2, <2>3, <2>4, SyncMoves
<1> QED
  BY <1>1, <1>2, <1>3, <1>4 DEF Sync!Owner, Sync!OneKind, Sync!Docs, SyncDocs

LEMMA SyncStep ==
  ASSUME SyncInv, NEW b \in BOOLEAN,
         Sync(b)!Works \/ Sync(b)!Owner \/ Sync(b)!disconnect \/ Sync(b)!Failures
  PROVE  SyncInv'
<1>1. Sync(b)!Jobs = SyncJobs /\ Sync(b)!Docs = SyncDocs
  BY DEF Sync!Jobs, Sync!Kinds, Sync!Docs, SyncJobs, SyncDocs
<1>2. CASE Sync(b)!Owner \/ Sync(b)!disconnect
  BY <1>2, SyncOwnerStep
<1>3. ASSUME NEW r \in SyncRequests, Sync(b)!Lists(r) PROVE SyncInv'
  BY <1>3, SyncListStep
<1>4. ASSUME NEW j \in SyncJobs, Sync(b)!Steps(j) PROVE SyncInv'
  BY <1>1, <1>4, SyncJobStep, SyncPostStep DEF Sync!Steps
<1>5. CASE Sync(b)!Failures
  BY <1>1, <1>5, SyncJobStep DEF Sync!Failures
<1> QED
  BY <1>1, <1>2, <1>3, <1>4, <1>5 DEF Sync!Works

(* What an attempt has passed, it has begun.                               *)
LEMMA SyncOnce == SyncInv => Sync(TRUE)!TypeOK /\ Sync(TRUE)!OncePerAttempt
<1> SUFFICES ASSUME SyncInv PROVE Sync(TRUE)!TypeOK /\ Sync(TRUE)!OncePerAttempt
  OBVIOUS
<1>1. Sync(TRUE)!Jobs = SyncJobs /\ Sync(TRUE)!Docs = SyncDocs
  BY DEF Sync!Jobs, Sync!Kinds, Sync!Docs, SyncJobs, SyncDocs
<1>2. Sync(TRUE)!TypeOK
  BY <1>1 DEF SyncInv, SyncTyped, SyncLocal, Sync!TypeOK
<1>3. ASSUME NEW d \in SyncDocs
      PROVE  syncPosted[d] <=
               Sync(TRUE)!Cardinality({a \in SyncJobs \X (0 .. SyncRetries) : a[2] < Sync(TRUE)!Attempts(a[1])})
  <2> DEFINE begun == {a \in SyncJobs \X (0 .. SyncRetries) : a[2] < Sync(TRUE)!Attempts(a[1])}
             passed == PassedBy(syncJob, d)
  <2>1. passed \subseteq begun
    <3> SUFFICES ASSUME NEW j \in SyncJobs, NEW n \in 0 .. SyncRetries, Passed(syncJob[j], n, d)
                 PROVE  n < Sync(TRUE)!Attempts(j)
      BY DEF PassedBy
    <3>1. syncJob[j].tries \in Nat /\ n \in Nat
      BY SyncConstants DEF SyncInv, SyncTyped, SyncLocal
    <3> QED
      BY <3>1 DEF Passed, Sync!Attempts
  <2>2. begun \in SUBSET (SyncJobs \X (0 .. SyncRetries))
    OBVIOUS
  <2>3. IsFiniteSet(begun) /\ Cardinality(begun) \in Nat
    BY <2>2, AttemptsAreFinite, FS_Subset, FS_CardinalityType
  <2>4. Cardinality(passed) <= Cardinality(begun) /\ Cardinality(passed) \in Nat
    BY <2>1, <2>3, FS_Subset, PassedIsFinite
  <2>5. syncPosted[d] \in Nat /\ syncPosted[d] <= Cardinality(passed)
    BY DEF SyncInv, SyncTyped
  <2>6. Sync(TRUE)!Cardinality(begun) = Cardinality(begun)
    BY DEF Sync!Cardinality, Cardinality
  <2> HIDE DEF begun, passed
  <2>7. syncPosted[d] <= Cardinality(begun)
    BY <2>3, <2>4, <2>5
  <2> QED
    BY <2>6, <2>7, Zenon DEF begun
<1> QED
  BY <1>1, <1>2, <1>3 DEF Sync!OncePerAttempt

-----------------------------------------------------------------------------
LEMMA MailTurns == ASSUME [Next]_vars PROVE [Email(TRUE)!Next]_mailVars
BY DEF Next, Turn, NoticesNext, vars, NotNotice, NotBreaker, NotHook, NotFlow, NotWait, NotMail, NotInbox,
       NotSub, NotConnect, NotSync

LEMMA InboxTurns == ASSUME [Next]_vars PROVE [Inbox!Next]_inboxVars
BY DEF Next, Turn, NoticesNext, vars, NotNotice, NotBreaker, NotHook, NotFlow, NotWait, NotMail, NotInbox,
       NotSub, NotConnect, NotSync

LEMMA SyncTurns ==
  ASSUME [Next]_vars
  PROVE  \/ \E b \in BOOLEAN : Sync(b)!Works \/ Sync(b)!Owner \/ Sync(b)!disconnect \/ Sync(b)!Failures
         \/ UNCHANGED syncVars
<1>1. CASE Sync(FALSE)!Works \/ Sync(FALSE)!Owner
  BY <1>1
<1>2. CASE Sync(TRUE)!Works \/ Sync(TRUE)!OneKind \/ Sync(TRUE)!disconnect \/ Sync(TRUE)!Failures
  BY <1>2 DEF Sync!Owner
<1>3. \/ Sync(FALSE)!Works \/ Sync(FALSE)!Owner
      \/ Sync(TRUE)!Works \/ Sync(TRUE)!OneKind \/ Sync(TRUE)!disconnect \/ Sync(TRUE)!Failures
      \/ UNCHANGED syncVars
  BY DEF Next, Turn, NoticesNext, vars, NotNotice, NotBreaker, NotHook, NotFlow, NotWait, NotMail, NotInbox,
         NotSub, NotConnect, NotSync
<1> QED
  BY <1>1, <1>2, <1>3

LEMMA SyncKeeps == ASSUME SyncInv, [Next]_vars PROVE SyncInv'
<1>1. CASE UNCHANGED syncVars
  BY <1>1 DEF syncVars, SyncInv, SyncTyped, PassedBy
<1> QED
  BY <1>1, SyncTurns, SyncStep

(* However often a provider delivers an event and wherever a request dies, it *)
(* is handled once, and what is marked processed was handled or put aside;    *)
(* an e-mail reaches its recipient once and its row says nothing that has not  *)
(* happened; and an attempt posts a row to the accounting service once: for   *)
(* any numbers of events, requests at once, attempts, rows and presses.       *)
THEOREM JobsActOnceAlways == Spec => []JobsActOnce
<1> DEFINE Inv == MailInv /\ InboxInv /\ SyncInv
<1>1. Init => Inv
  BY MailInit, InboxInit, SyncInit DEF Init, Start
<1>2. Inv /\ [Next]_vars => Inv'
  BY MailStep, MailTurns, InboxStep, InboxTurns, SyncKeeps
<1>3. Inv => JobsActOnce
  <2> SUFFICES ASSUME Inv PROVE JobsActOnce
    OBVIOUS
  <2>1. Inbox!TypeOK /\ Inbox!HandledOnce /\ Inbox!ProcessedIsAccounted
    BY DEF InboxInv, InboxTyped, InboxOnce, InboxAccounted, Inbox!HandledOnce, Inbox!ProcessedIsAccounted
  <2>2. Email(TRUE)!TypeOK /\ Email(TRUE)!SentAtMostOnce /\ Email(TRUE)!StatusIsNews
    BY DEF MailInv, MailUnsent, MailTold, Email!SentAtMostOnce, Email!StatusIsNews
  <2>3. Sync(TRUE)!TypeOK /\ Sync(TRUE)!OncePerAttempt
    BY SyncOnce
  <2> QED
    BY <2>1, <2>2, <2>3 DEF JobsActOnce
<1> QED
  BY <1>1, <1>2, <1>3, PTL DEF Spec
-----------------------------------------------------------------------------
(* Workflow executions.  What has become of a stage is told by how often its  *)
(* automation succeeded and failed, a function of the two outcomes.          *)
FlowOutcomes == {"SUCCEEDED", "FAILED"}
FlowRuns     == [FlowOutcomes -> Nat]
FlowResults  == (1 .. FlowStages) \X (FlowOutcomes \cup {"SCHEDULED"})

Required(s)  == s.delayed = FALSE /\ s.optional = FALSE
Times(r)     == r["SUCCEEDED"] + r["FAILED"]
Succeeded(r) == r["SUCCEEDED"] = 1 /\ r["FAILED"] = 0
HasFailed(r) == r["FAILED"] > 0

FlowTyped ==
  /\ flowPlan \in [1 .. FlowStages -> [delayed : BOOLEAN, optional : BOOLEAN]]
  /\ flowStatus \in {"none", "IN_PROGRESS", "PENDING", "SUCCEEDED", "FAILED"}
  /\ flowStage \in 1 .. FlowStages + 1 /\ flowFailed \in BOOLEAN
  /\ flowJob \in [1 .. FlowStages -> {"none", "waiting", "running", "done"}]
  /\ flowTries \in [1 .. FlowStages -> 0 .. FlowTries]
  /\ flowAt \in [0 .. FlowStages -> {"idle", "execute", "read", "write"}]
  /\ flowRan \in [1 .. FlowStages -> FlowRuns]

FlowRecords ==
  /\ flowResults \subseteq FlowResults
  /\ flowEntry \in [0 .. FlowStages -> FlowResults \cup {<<>>}]
  /\ flowCopy \in [0 .. FlowStages -> SUBSET FlowResults]
  /\ \A w \in 0 .. FlowStages : flowAt[w] \in {"read", "write"} => flowEntry[w] \in FlowResults

(* Before the stage the orchestrator is at, the required stages succeeded;    *)
(* beyond it nothing has run; past the last one, a failure has stopped it or   *)
(* there was none.                                                         *)
FlowOrchestrator ==
  /\ flowAt[0] # "idle" => flowStatus = "IN_PROGRESS"
  /\ flowAt[0] \in {"read", "write"} => flowStage <= FlowStages
  /\ flowStatus = "none" => flowStage = 1 /\ flowFailed = FALSE /\ Times(flowRan[1]) = 0 /\ flowJob[1] = "none"
  /\ flowAt[0] = "execute" /\ flowStage <= FlowStages =>
       flowFailed = FALSE /\ Times(flowRan[flowStage]) = 0 /\ flowJob[flowStage] = "none"
  /\ flowAt[0] \in {"read", "write"} =>
       IF flowFailed = TRUE THEN Required(flowPlan[flowStage]) /\ HasFailed(flowRan[flowStage])
                            ELSE Required(flowPlan[flowStage]) => Succeeded(flowRan[flowStage])
  /\ \A n \in 1 .. FlowStages : n > flowStage => Times(flowRan[n]) = 0 /\ flowJob[n] = "none"
  /\ \A n \in 1 .. FlowStages :
       flowStage <= FlowStages /\ n < flowStage /\ Required(flowPlan[n]) => Succeeded(flowRan[n])
  /\ flowStage = FlowStages + 1 =>
       IF flowFailed = TRUE THEN \E n \in 1 .. FlowStages : Required(flowPlan[n]) /\ HasFailed(flowRan[n])
                            ELSE \A n \in 1 .. FlowStages : Required(flowPlan[n]) => Succeeded(flowRan[n])

(* The handler of a delayed stage runs its automation once in each try.       *)
FlowHandlers ==
  \A n \in 1 .. FlowStages :
    /\ flowAt[n] # "idle" => flowJob[n] = "running"
    /\ flowJob[n] # "none" => flowPlan[n].delayed = TRUE
    /\ flowJob[n] = "waiting" => flowTries[n] < FlowTries
    /\ flowJob[n] = "none" => flowTries[n] = 0
    /\ flowPlan[n].delayed = TRUE => Times(flowRan[n]) <= flowTries[n]
    /\ flowAt[n] = "execute" => Times(flowRan[n]) < flowTries[n]

FlowVerdict ==
  /\ flowStatus = "SUCCEEDED" => \A n \in 1 .. FlowStages : Required(flowPlan[n]) => Succeeded(flowRan[n])
  /\ flowStatus \in {"FAILED", "PENDING"} =>
       \E n \in 1 .. FlowStages : Required(flowPlan[n]) /\ HasFailed(flowRan[n])

FlowStops ==
  \A n \in 1 .. FlowStages : flowPlan[n].delayed = FALSE =>
    /\ Times(flowRan[n]) <= 1
    /\ \A m \in 1 .. FlowStages :
         m < n /\ Required(flowPlan[m]) /\ HasFailed(flowRan[m]) => Times(flowRan[n]) = 0

FlowInv == FlowTyped /\ FlowRecords /\ FlowOrchestrator /\ FlowHandlers /\ FlowVerdict /\ FlowStops

LEMMA FlowConstants == FlowStages \in Nat \ {0} /\ FlowTries \in Nat \ {0}
<1>1. Flow(TRUE)!WorkflowAssumption
  BY MessagesAssumption
<1> QED
  BY <1>1 DEF Flow!WorkflowAssumption

LEMMA FlowSets ==
  /\ Flow(TRUE)!Stages = 1 .. FlowStages /\ Flow(TRUE)!Writers = 0 .. FlowStages
  /\ Flow(TRUE)!Outcomes = FlowOutcomes /\ Flow(TRUE)!Results = FlowResults
BY DEF Flow!Stages, Flow!Writers, Flow!Outcomes, Flow!Results, FlowOutcomes, FlowResults

(* One more run of an automation.                                          *)
LEMMA RunCounts ==
  ASSUME NEW r \in FlowRuns, NEW outcome \in FlowOutcomes
  PROVE  LET q == [r EXCEPT ![outcome] = @ + 1]
         IN  /\ q \in FlowRuns /\ Times(r) \in Nat /\ Times(q) = Times(r) + 1
             /\ outcome = "FAILED" => HasFailed(q)
             /\ Times(r) = 0 /\ outcome = "SUCCEEDED" => Succeeded(q)
             /\ Times(r) = 0 => ~HasFailed(r)
             /\ Succeeded(r) => ~HasFailed(r)
BY DEF FlowRuns, FlowOutcomes, Times, Succeeded, HasFailed

LEMMA FlowTimes ==
  ASSUME FlowInv, NEW n \in 1 .. FlowStages
  PROVE  /\ Times(flowRan[n]) \in Nat
         /\ Times(flowRan[n]) = 0 => ~HasFailed(flowRan[n])
         /\ Succeeded(flowRan[n]) => ~HasFailed(flowRan[n])
BY DEF FlowInv, FlowTyped, FlowRuns, FlowOutcomes, Times, Succeeded, HasFailed

LEMMA FlowInit == ASSUME Flow(TRUE)!Init PROVE FlowInv
<1>0. FlowStages \in Nat /\ FlowTries \in Nat /\ 1 \in 1 .. FlowStages /\ 0 \in 0 .. FlowStages
  BY FlowConstants
<1>1. /\ flowPlan \in [1 .. FlowStages -> [delayed : BOOLEAN, optional : BOOLEAN]]
      /\ flowStatus = "none" /\ flowResults = {} /\ flowStage = 1 /\ flowFailed = FALSE
      /\ flowJob = [n \in 1 .. FlowStages |-> "none"] /\ flowTries = [n \in 1 .. FlowStages |-> 0]
      /\ flowAt = [w \in 0 .. FlowStages |-> "idle"] /\ flowEntry = [w \in 0 .. FlowStages |-> <<>>]
      /\ flowCopy = [w \in 0 .. FlowStages |-> {}]
      /\ flowRan = [n \in 1 .. FlowStages |-> [o \in FlowOutcomes |-> 0]]
  BY FlowSets DEF Flow!Init, Flow!Stage
<1>2. \A n \in 1 .. FlowStages : flowRan[n] \in FlowRuns /\ Times(flowRan[n]) = 0
  BY <1>1 DEF Times, FlowOutcomes, FlowRuns
<1>3. FlowTyped
  <2>1. flowStage \in 1 .. FlowStages + 1 /\ flowTries \in [1 .. FlowStages -> 0 .. FlowTries]
    BY <1>0, <1>1
  <2>2. flowJob \in [1 .. FlowStages -> {"none", "waiting", "running", "done"}]
    BY <1>1
  <2>3. flowAt \in [0 .. FlowStages -> {"idle", "execute", "read", "write"}]
    BY <1>1
  <2>4. flowRan \in [1 .. FlowStages -> FlowRuns]
    BY <1>1 DEF FlowRuns
  <2>5. flowStatus = "none" /\ flowFailed = FALSE /\ flowPlan \in [1 .. FlowStages -> [delayed : BOOLEAN, optional : BOOLEAN]]
    BY <1>1
  <2> QED
    BY <2>1, <2>2, <2>3, <2>4, <2>5 DEF FlowTyped
<1>4. FlowRecords
  BY <1>1 DEF FlowRecords
<1>5. FlowOrchestrator
  <2>1. flowAt[0] = "idle" /\ flowStage = 1 /\ flowFailed = FALSE /\ FlowStages + 1 # 1
    BY <1>0, <1>1
  <2>2. \A n \in 1 .. FlowStages : Times(flowRan[n]) = 0 /\ flowJob[n] = "none" /\ ~(n < 1)
    <3>1. \A n \in 1 .. FlowStages : flowJob[n] = "none"
      BY <1>1
    <3>2. \A n \in 1 .. FlowStages : ~(n < 1)
      BY <1>0
    <3> QED
      BY <1>2, <3>1, <3>2
  <2> QED
    BY <1>0, <2>1, <2>2 DEF FlowOrchestrator
<1>6. FlowHandlers
  <2>1. ASSUME NEW n \in 1 .. FlowStages
        PROVE  flowAt[n] = "idle" /\ flowJob[n] = "none" /\ flowTries[n] = 0 /\ Times(flowRan[n]) = 0
    <3>1. n \in 0 .. FlowStages
      BY <1>0
    <3>2. flowAt[n] = "idle" /\ flowJob[n] = "none" /\ flowTries[n] = 0
      BY <1>1, <3>1
    <3> QED
      BY <1>2, <3>2
  <2> QED
    BY <1>0, <2>1 DEF FlowHandlers
<1>7. FlowVerdict /\ FlowStops
  BY <1>1, <1>2 DEF FlowVerdict, FlowStops
<1> QED
  BY <1>3, <1>4, <1>5, <1>6, <1>7 DEF FlowInv

(* The results array: what is written was read, or is the writer's entry.     *)
LEMMA FlowRecordsStep == ASSUME FlowInv, Flow(TRUE)!Next PROVE FlowRecords'
<1>0. /\ flowResults \subseteq FlowResults /\ flowStage \in Nat
      /\ flowEntry \in [0 .. FlowStages -> FlowResults \cup {<<>>}]
      /\ flowCopy \in [0 .. FlowStages -> SUBSET FlowResults]
      /\ flowAt \in [0 .. FlowStages -> {"idle", "execute", "read", "write"}]
      /\ FlowStages \in Nat /\ 0 \in 0 .. FlowStages
      /\ \A n \in 1 .. FlowStages : n \in 0 .. FlowStages
      /\ \A n \in 1 .. FlowStages, o \in FlowOutcomes \cup {"SCHEDULED"} : <<n, o>> \in FlowResults
  BY FlowConstants DEF FlowInv, FlowTyped, FlowRecords, FlowResults
<1>1. \A w \in 0 .. FlowStages : flowAt[w] \in {"read", "write"} => flowEntry[w] \in FlowResults
  BY DEF FlowInv, FlowRecords
<1>2. ASSUME NEW w \in 0 .. FlowStages, NEW p \in {"idle", "execute"}, Flow(TRUE)!Goto(w, p),
             flowResults' \subseteq FlowResults,
             \/ UNCHANGED <<flowEntry, flowCopy>>
             \/ Flow(TRUE)!Forget(w)
      PROVE  FlowRecords'
  <2>1. flowAt'[w] = p /\ \A v \in 0 .. FlowStages \ {w} : flowAt'[v] = flowAt[v]
    BY <1>0, <1>2 DEF Flow!Goto
  <2>2. /\ flowEntry' \in [0 .. FlowStages -> FlowResults \cup {<<>>}]
        /\ flowCopy' \in [0 .. FlowStages -> SUBSET FlowResults]
        /\ \A v \in 0 .. FlowStages \ {w} : flowEntry'[v] = flowEntry[v]
    BY <1>0, <1>2 DEF Flow!Forget
  <2> QED
    BY <1>0, <1>1, <1>2, <2>1, <2>2 DEF FlowRecords
<1>3. ASSUME NEW w \in 0 .. FlowStages, NEW entry \in FlowResults, Flow(TRUE)!Goto(w, "read"),
             flowEntry' = [flowEntry EXCEPT ![w] = entry], UNCHANGED <<flowResults, flowCopy>>
      PROVE  FlowRecords'
  <2>1. /\ flowEntry' \in [0 .. FlowStages -> FlowResults \cup {<<>>}] /\ flowEntry'[w] \in FlowResults
        /\ \A v \in 0 .. FlowStages \ {w} : flowEntry'[v] = flowEntry[v] /\ flowAt'[v] = flowAt[v]
    BY <1>0, <1>3 DEF Flow!Goto
  <2> QED
    BY <1>0, <1>1, <1>3, <2>1 DEF FlowRecords
<1>4. ASSUME NEW w \in 0 .. FlowStages, Flow(TRUE)!ReadResults(w) PROVE FlowRecords'
  <2>1. /\ flowCopy' \in [0 .. FlowStages -> SUBSET FlowResults]
        /\ \A v \in 0 .. FlowStages : flowAt'[v] \in {"read", "write"} => flowAt[v] \in {"read", "write"}
        /\ UNCHANGED <<flowResults, flowEntry>>
    BY <1>0, <1>4 DEF Flow!ReadResults, Flow!Goto
  <2> QED
    BY <1>0, <1>1, <2>1 DEF FlowRecords
<1>5. ASSUME NEW w \in 0 .. FlowStages, Flow(TRUE)!WriteResults(w) PROVE FlowRecords'
  <2>1. flowResults' \subseteq FlowResults /\ Flow(TRUE)!Forget(w)
    BY <1>0, <1>1, <1>5 DEF Flow!WriteResults
  <2>2. Flow(TRUE)!Goto(w, "execute") \/ Flow(TRUE)!Goto(w, "idle")
    BY <1>5 DEF Flow!WriteResults
  <2> QED
    BY <1>2, <2>1, <2>2
<1>6. CASE Flow(TRUE)!Schedule
  <2>1. <<flowStage, "SCHEDULED">> \in FlowResults
    BY <1>0, <1>6 DEF Flow!Schedule, FlowInv, FlowTyped
  <2> QED
    BY <1>0, <1>3, <1>6, <2>1 DEF Flow!Schedule
<1>7. CASE Flow(TRUE)!Execute
  <2>1. PICK outcome \in FlowOutcomes : flowEntry' = [flowEntry EXCEPT ![0] = <<flowStage, outcome>>]
    BY <1>7, FlowSets DEF Flow!Execute
  <2>2. <<flowStage, outcome>> \in FlowResults
    BY <1>0, <1>7 DEF Flow!Execute, FlowInv, FlowTyped
  <2> QED
    BY <1>0, <1>3, <1>7, <2>1, <2>2 DEF Flow!Execute
<1>8. ASSUME NEW n \in 1 .. FlowStages, Flow(TRUE)!ExecuteDelayed(n) PROVE FlowRecords'
  <2>1. PICK outcome \in FlowOutcomes : flowEntry' = [flowEntry EXCEPT ![n] = <<n, outcome>>]
    BY <1>8, FlowSets DEF Flow!ExecuteDelayed
  <2> QED
    BY <1>0, <1>3, <1>8, <2>1 DEF Flow!ExecuteDelayed
<1>9. CASE Flow(TRUE)!Start \/ Flow(TRUE)!Complete
  BY <1>0, <1>2, <1>9 DEF Flow!Start, Flow!Complete
<1>10. CASE Flow(TRUE)!Retry
  BY <1>10 DEF Flow!Retry, Flow!writer, FlowInv, FlowRecords
<1>11. ASSUME NEW n \in 1 .. FlowStages, Flow(TRUE)!RunJob(n) PROVE FlowRecords'
  BY <1>0, <1>2, <1>11 DEF Flow!RunJob
<1>12. ASSUME NEW w \in 0 .. FlowStages, Flow(TRUE)!Dies(w) PROVE FlowRecords'
  BY <1>0, <1>2, <1>12 DEF Flow!Dies
<1> QED
  BY <1>0, <1>4, <1>5, <1>6, <1>7, <1>8, <1>9, <1>10, <1>11, <1>12, FlowSets
     DEF Flow!Next, Flow!Orchestrate, Flow!Handle

(* A step of the handler of stage n.                                       *)
LEMMA FlowHandlerMoves ==
  ASSUME FlowInv, NEW n \in 1 .. FlowStages, NEW job \in {"waiting", "running", "done"},
         NEW tries \in 0 .. FlowTries, NEW at \in {"idle", "execute", "read", "write"}, NEW runs \in FlowRuns,
         flowJob[n] # "none", flowPlan[n].delayed = TRUE,
         flowJob' = [flowJob EXCEPT ![n] = job], flowTries' = [flowTries EXCEPT ![n] = tries],
         flowAt' = [flowAt EXCEPT ![n] = at], flowRan' = [flowRan EXCEPT ![n] = runs],
         UNCHANGED <<flowPlan, flowStatus, flowStage, flowFailed>>, FlowRecords',
         at # "idle" => job = "running", job = "waiting" => tries < FlowTries,
         Times(runs) <= tries, at = "execute" => Times(runs) < tries
  PROVE  FlowInv'
<1>0. /\ flowJob \in [1 .. FlowStages -> {"none", "waiting", "running", "done"}]
      /\ flowTries \in [1 .. FlowStages -> 0 .. FlowTries]
      /\ flowAt \in [0 .. FlowStages -> {"idle", "execute", "read", "write"}]
      /\ flowRan \in [1 .. FlowStages -> FlowRuns] /\ n \in 0 .. FlowStages /\ n # 0
      /\ 0 \in 0 .. FlowStages /\ \A m \in 1 .. FlowStages : m \in 0 .. FlowStages
      /\ flowStage \in 1 .. FlowStages + 1 /\ 1 \in 1 .. FlowStages /\ FlowStages \in Nat
  BY FlowConstants DEF FlowInv, FlowTyped
<1>1. /\ flowAt'[0] = flowAt[0]
      /\ flowJob'[n] = job /\ flowTries'[n] = tries /\ flowAt'[n] = at /\ flowRan'[n] = runs
      /\ \A m \in 1 .. FlowStages \ {n} :
           flowJob'[m] = flowJob[m] /\ flowTries'[m] = flowTries[m] /\ flowAt'[m] = flowAt[m] /\ flowRan'[m] = flowRan[m]
  BY <1>0
<1>2. FlowTyped'
  <2>1. /\ flowJob' \in [1 .. FlowStages -> {"none", "waiting", "running", "done"}]
        /\ flowTries' \in [1 .. FlowStages -> 0 .. FlowTries]
    BY <1>0
  <2>2. flowAt' \in [0 .. FlowStages -> {"idle", "execute", "read", "write"}] /\ flowRan' \in [1 .. FlowStages -> FlowRuns]
    BY <1>0
  <2> QED
    BY <2>1, <2>2 DEF FlowInv, FlowTyped
<1>3. ~Required(flowPlan[n])
  BY DEF Required
<1>4. \A m \in 1 .. FlowStages : Required(flowPlan'[m]) <=> Required(flowPlan[m])
  OBVIOUS
<1>5. \A m \in 1 .. FlowStages : Required(flowPlan[m]) => flowRan'[m] = flowRan[m]
  BY <1>1, <1>3
<1>6. FlowOrchestrator'
  <2>1. flowStatus # "none" \/ n # 1
    BY DEF FlowInv, FlowOrchestrator
  <2>2. ~(n > flowStage)
    BY DEF FlowInv, FlowOrchestrator
  <2>3. ~(flowAt[0] = "execute" /\ flowStage <= FlowStages /\ n = flowStage)
    BY DEF FlowInv, FlowOrchestrator
  <2>4. flowAt'[0] \in {"read", "write"} =>
          IF flowFailed' = TRUE THEN Required(flowPlan'[flowStage']) /\ HasFailed(flowRan'[flowStage'])
                                ELSE Required(flowPlan'[flowStage']) => Succeeded(flowRan'[flowStage'])
    <3>1. flowAt'[0] \in {"read", "write"} => flowStage \in 1 .. FlowStages
      BY <1>0, <1>1 DEF FlowInv, FlowOrchestrator
    <3> QED
      BY <1>1, <1>5, <3>1 DEF FlowInv, FlowOrchestrator
  <2>5. flowStage' = FlowStages + 1 =>
          IF flowFailed' = TRUE THEN \E m \in 1 .. FlowStages : Required(flowPlan'[m]) /\ HasFailed(flowRan'[m])
                                ELSE \A m \in 1 .. FlowStages : Required(flowPlan'[m]) => Succeeded(flowRan'[m])
    BY <1>5 DEF FlowInv, FlowOrchestrator
  <2>6. \A m \in 1 .. FlowStages :
          flowStage' <= FlowStages /\ m < flowStage' /\ Required(flowPlan'[m]) => Succeeded(flowRan'[m])
    BY <1>5 DEF FlowInv, FlowOrchestrator
  <2>7. /\ flowAt'[0] # "idle" => flowStatus' = "IN_PROGRESS"
        /\ flowAt'[0] \in {"read", "write"} => flowStage' <= FlowStages
        /\ flowStatus' = "none" => flowStage' = 1 /\ flowFailed' = FALSE /\ Times(flowRan'[1]) = 0 /\ flowJob'[1] = "none"
    BY <1>0, <1>1, <2>1 DEF FlowInv, FlowOrchestrator
  <2>8. flowAt'[0] = "execute" /\ flowStage' <= FlowStages =>
          flowFailed' = FALSE /\ Times(flowRan'[flowStage']) = 0 /\ flowJob'[flowStage'] = "none"
    <3>1. flowStage <= FlowStages => flowStage \in 1 .. FlowStages
      BY <1>0
    <3> QED
      BY <1>1, <2>3, <3>1 DEF FlowInv, FlowOrchestrator
  <2>9. \A m \in 1 .. FlowStages : m > flowStage' => Times(flowRan'[m]) = 0 /\ flowJob'[m] = "none"
    BY <1>1, <2>2 DEF FlowInv, FlowOrchestrator
  <2> QED
    BY <2>4, <2>5, <2>6, <2>7, <2>8, <2>9 DEF FlowOrchestrator, Times, Succeeded, HasFailed, Required
<1>7. FlowHandlers'
  <2>1. \A m \in 1 .. FlowStages \ {n} :
          /\ flowAt'[m] # "idle" => flowJob'[m] = "running"
          /\ flowJob'[m] # "none" => flowPlan'[m].delayed = TRUE
          /\ flowJob'[m] = "waiting" => flowTries'[m] < FlowTries
          /\ flowJob'[m] = "none" => flowTries'[m] = 0
          /\ flowPlan'[m].delayed = TRUE => Times(flowRan'[m]) <= flowTries'[m]
          /\ flowAt'[m] = "execute" => Times(flowRan'[m]) < flowTries'[m]
    BY <1>1 DEF FlowInv, FlowHandlers
  <2>2. /\ flowAt'[n] # "idle" => flowJob'[n] = "running"
        /\ flowJob'[n] # "none" => flowPlan'[n].delayed = TRUE
        /\ flowJob'[n] = "waiting" => flowTries'[n] < FlowTries
        /\ flowJob'[n] # "none"
        /\ flowPlan'[n].delayed = TRUE => Times(flowRan'[n]) <= flowTries'[n]
        /\ flowAt'[n] = "execute" => Times(flowRan'[n]) < flowTries'[n]
    BY <1>1
  <2> QED
    BY <2>1, <2>2 DEF FlowHandlers, Times
<1>8. FlowVerdict'
  BY <1>4, <1>5 DEF FlowInv, FlowVerdict, Required, HasFailed, Succeeded
<1>9. FlowStops'
  <2>1. \A m \in 1 .. FlowStages : flowPlan[m].delayed = FALSE => flowRan'[m] = flowRan[m]
    BY <1>1
  <2> QED
    BY <1>4, <1>5, <2>1 DEF FlowInv, FlowStops, Required, HasFailed, Times
<1> QED
  BY <1>2, <1>6, <1>7, <1>8, <1>9 DEF FlowInv

LEMMA FlowHandlerStep ==
  ASSUME FlowInv, FlowRecords', NEW n \in 1 .. FlowStages, Flow(TRUE)!Handle(n) \/ Flow(TRUE)!Dies(n)
  PROVE  FlowInv'
<1>0. /\ flowJob \in [1 .. FlowStages -> {"none", "waiting", "running", "done"}]
      /\ flowTries \in [1 .. FlowStages -> 0 .. FlowTries] /\ FlowTries \in Nat
      /\ flowAt \in [0 .. FlowStages -> {"idle", "execute", "read", "write"}]
      /\ flowRan \in [1 .. FlowStages -> FlowRuns] /\ n \in 0 .. FlowStages /\ n # 0
  BY FlowConstants DEF FlowInv, FlowTyped
<1>1. /\ flowAt[n] # "idle" => flowJob[n] = "running"
      /\ flowJob[n] # "none" => flowPlan[n].delayed = TRUE
      /\ flowJob[n] = "waiting" => flowTries[n] < FlowTries
      /\ flowPlan[n].delayed = TRUE => Times(flowRan[n]) <= flowTries[n]
      /\ flowAt[n] = "execute" => Times(flowRan[n]) < flowTries[n]
  BY DEF FlowInv, FlowHandlers
<1>2. flowRan[n] \in FlowRuns /\ Times(flowRan[n]) \in Nat /\ flowTries[n] \in 0 .. FlowTries
  BY <1>0, FlowTimes
<1>3. /\ flowTries = [flowTries EXCEPT ![n] = flowTries[n]] /\ flowRan = [flowRan EXCEPT ![n] = flowRan[n]]
      /\ flowJob = [flowJob EXCEPT ![n] = flowJob[n]]
  BY <1>0
<1>4. CASE Flow(TRUE)!RunJob(n)
  <2> DEFINE again == flowTries[n] + 1
  <2>1. flowJob[n] = "waiting" /\ again \in 0 .. FlowTries /\ Times(flowRan[n]) < again
    BY <1>0, <1>1, <1>2, <1>4 DEF Flow!RunJob
  <2>2. /\ flowJob' = [flowJob EXCEPT ![n] = "running"] /\ flowTries' = [flowTries EXCEPT ![n] = again]
        /\ flowAt' = [flowAt EXCEPT ![n] = "execute"] /\ flowRan' = [flowRan EXCEPT ![n] = flowRan[n]]
        /\ UNCHANGED <<flowPlan, flowStatus, flowStage, flowFailed>>
    BY <1>3, <1>4 DEF Flow!RunJob, Flow!Goto, Flow!orchestrator
  <2>3. Times(flowRan[n]) <= again
    BY <1>0, <1>2, <2>1
  <2> HIDE DEF again
  <2> QED
    BY <1>1, <1>2, <2>1, <2>2, <2>3, FlowHandlerMoves
<1>5. CASE Flow(TRUE)!ExecuteDelayed(n)
  <2>1. PICK outcome \in FlowOutcomes : Flow(TRUE)!Runs(n, outcome)
    BY <1>5, FlowSets DEF Flow!ExecuteDelayed
  <2> DEFINE runs == [flowRan[n] EXCEPT ![outcome] = @ + 1]
  <2>2. runs \in FlowRuns /\ Times(runs) = Times(flowRan[n]) + 1
    BY <1>2, RunCounts
  <2>3. /\ flowAt[n] = "execute" /\ flowAt' = [flowAt EXCEPT ![n] = "read"] /\ flowRan' = [flowRan EXCEPT ![n] = runs]
        /\ UNCHANGED <<flowPlan, flowStatus, flowStage, flowFailed, flowJob, flowTries>>
    BY <1>5, <2>1 DEF Flow!ExecuteDelayed, Flow!Runs, Flow!Goto, Flow!orchestrator
  <2> HIDE DEF runs
  <2>4. Times(runs) <= flowTries[n] /\ flowJob[n] = "running"
    BY <1>0, <1>1, <1>2, <2>2, <2>3
  <2> QED
    BY <1>1, <1>2, <1>3, <2>2, <2>3, <2>4, FlowHandlerMoves
<1>6. CASE Flow(TRUE)!ReadResults(n)
  <2>1. /\ flowAt[n] = "read" /\ flowAt' = [flowAt EXCEPT ![n] = "write"]
        /\ UNCHANGED <<flowPlan, flowStatus, flowStage, flowFailed, flowJob, flowTries, flowRan>>
    BY <1>6 DEF Flow!ReadResults, Flow!Goto, Flow!orchestrator
  <2> QED
    BY <1>1, <1>2, <1>3, <2>1, FlowHandlerMoves
<1>7. CASE Flow(TRUE)!WriteResults(n)
  <2>1. /\ flowAt[n] = "write" /\ flowAt' = [flowAt EXCEPT ![n] = "idle"] /\ flowJob' = [flowJob EXCEPT ![n] = "done"]
        /\ UNCHANGED <<flowPlan, flowStatus, flowStage, flowFailed, flowTries, flowRan>>
    BY <1>0, <1>7 DEF Flow!WriteResults, Flow!Goto
  <2> QED
    BY <1>1, <1>2, <1>3, <2>1, FlowHandlerMoves
<1>8. CASE Flow(TRUE)!Dies(n)
  <2> DEFINE job == IF flowTries[n] < FlowTries THEN "waiting" ELSE "done"
  <2>1. /\ flowAt[n] # "idle" /\ flowAt' = [flowAt EXCEPT ![n] = "idle"] /\ flowJob' = [flowJob EXCEPT ![n] = job]
        /\ UNCHANGED <<flowPlan, flowStatus, flowStage, flowFailed, flowTries, flowRan>>
    BY <1>0, <1>8 DEF Flow!Dies, Flow!Goto, Flow!orchestrator
  <2>2. job \in {"waiting", "running", "done"} /\ (job = "waiting" => flowTries[n] < FlowTries)
    OBVIOUS
  <2> HIDE DEF job
  <2> QED
    BY <1>1, <1>2, <1>3, <2>1, <2>2, FlowHandlerMoves
<1> QED
  BY <1>4, <1>5, <1>6, <1>7, <1>8 DEF Flow!Handle

(* A step of the orchestrator, or of retry, that runs no automation.          *)
LEMMA FlowQuietStep ==
  ASSUME FlowInv, FlowRecords',
         \/ Flow(TRUE)!Start \/ Flow(TRUE)!ReadResults(0) \/ Flow(TRUE)!WriteResults(0)
         \/ Flow(TRUE)!Complete \/ Flow(TRUE)!Dies(0) \/ Flow(TRUE)!Retry
  PROVE  FlowInv'
<1>0. /\ flowAt \in [0 .. FlowStages -> {"idle", "execute", "read", "write"}] /\ 0 \in 0 .. FlowStages
      /\ \A m \in 1 .. FlowStages : m \in 0 .. FlowStages /\ m # 0 /\ m \in Nat
      /\ flowStage \in 1 .. FlowStages + 1 /\ 1 \in 1 .. FlowStages /\ FlowStages \in Nat
      /\ flowFailed \in BOOLEAN /\ flowStatus \in {"none", "IN_PROGRESS", "PENDING", "SUCCEEDED", "FAILED"}
  BY FlowConstants DEF FlowInv, FlowTyped
<1>1. /\ UNCHANGED <<flowPlan, flowFailed, flowJob, flowTries, flowRan>>
      /\ \A m \in 1 .. FlowStages : flowAt'[m] = flowAt[m]
      /\ flowAt' \in [0 .. FlowStages -> {"idle", "execute", "read", "write"}]
  BY <1>0 DEF Flow!Start, Flow!ReadResults, Flow!WriteResults, Flow!Complete, Flow!Dies, Flow!Retry, Flow!Goto,
              Flow!orchestrator, Flow!writer
<1>2. \/ /\ flowStatus = "none" /\ flowStatus' = "IN_PROGRESS" /\ flowAt'[0] = "execute" /\ flowStage' = flowStage
      \/ /\ flowAt[0] = "read" /\ flowAt'[0] = "write" /\ flowStatus' = flowStatus /\ flowStage' = flowStage
      \/ /\ flowAt[0] = "write" /\ flowAt'[0] = "execute" /\ flowStatus' = flowStatus
         /\ flowStage' = IF flowFailed = TRUE THEN FlowStages + 1 ELSE flowStage + 1
      \/ /\ flowAt[0] = "execute" /\ flowStage = FlowStages + 1 /\ flowAt'[0] = "idle" /\ flowStage' = flowStage
         /\ flowStatus' \in {flowStatus, IF flowFailed = TRUE THEN "FAILED" ELSE "SUCCEEDED"}
      \/ /\ flowAt[0] # "idle" /\ flowAt'[0] = "idle" /\ flowStatus' = flowStatus /\ flowStage' = flowStage
      \/ /\ flowStatus = "FAILED" /\ flowStatus' = "PENDING" /\ flowAt' = flowAt /\ flowStage' = flowStage
  <2>1. CASE Flow(TRUE)!Start
    BY <1>0, <2>1 DEF Flow!Start, Flow!Goto, Flow!orchestrator
  <2>2. CASE Flow(TRUE)!ReadResults(0)
    BY <1>0, <2>2 DEF Flow!ReadResults, Flow!Goto, Flow!orchestrator
  <2>3. CASE Flow(TRUE)!WriteResults(0)
    BY <1>0, <2>3 DEF Flow!WriteResults, Flow!Goto
  <2>4. CASE Flow(TRUE)!Complete
    BY <1>0, <2>4 DEF Flow!Complete, Flow!Goto, Flow!orchestrator
  <2>5. CASE Flow(TRUE)!Dies(0)
    BY <1>0, <2>5 DEF Flow!Dies, Flow!Goto, Flow!orchestrator
  <2>6. CASE Flow(TRUE)!Retry
    BY <2>6 DEF Flow!Retry, Flow!writer, Flow!orchestrator
  <2> QED
    BY <2>1, <2>2, <2>3, <2>4, <2>5, <2>6
<1>3. /\ flowAt[0] # "idle" => flowStatus = "IN_PROGRESS"
      /\ flowAt[0] \in {"read", "write"} => flowStage \in 1 .. FlowStages
      /\ flowStatus = "none" => flowStage = 1 /\ flowFailed = FALSE /\ Times(flowRan[1]) = 0 /\ flowJob[1] = "none"
  BY <1>0 DEF FlowInv, FlowOrchestrator
<1>4. flowStage' \in 1 .. FlowStages + 1 /\ flowStatus' \in {"none", "IN_PROGRESS", "PENDING", "SUCCEEDED", "FAILED"}
  BY <1>0, <1>2, <1>3
<1>5. FlowTyped'
  BY <1>0, <1>1, <1>4 DEF FlowInv, FlowTyped
<1>6. FlowOrchestrator'
  <2>1. CASE flowStage' = flowStage
    BY <1>0, <1>1, <1>2, <1>3, <2>1 DEF FlowInv, FlowOrchestrator
  <2>2. CASE flowStage' # flowStage
    <3>1. /\ flowAt[0] = "write" /\ flowAt'[0] = "execute" /\ flowStatus' = "IN_PROGRESS"
          /\ flowStage' = IF flowFailed = TRUE THEN FlowStages + 1 ELSE flowStage + 1
          /\ flowStage \in 1 .. FlowStages
          /\ IF flowFailed = TRUE THEN Required(flowPlan[flowStage]) /\ HasFailed(flowRan[flowStage])
                                  ELSE Required(flowPlan[flowStage]) => Succeeded(flowRan[flowStage])
      BY <1>2, <1>3, <2>2 DEF FlowInv, FlowOrchestrator
    <3>2. CASE flowFailed = TRUE
      BY <1>0, <1>1, <3>1, <3>2 DEF FlowInv, FlowOrchestrator
    <3>3. CASE flowFailed = FALSE
      <4>1. flowStage' = flowStage + 1
        BY <3>1, <3>3
      <4>2. \A m \in 1 .. FlowStages : m < flowStage + 1 => m = flowStage \/ m < flowStage
        BY <1>0
      <4>3. \A m \in 1 .. FlowStages : m < flowStage' /\ Required(flowPlan[m]) => Succeeded(flowRan[m])
        BY <3>1, <3>3, <4>1, <4>2 DEF FlowInv, FlowOrchestrator
      <4>4. \A m \in 1 .. FlowStages : m >= flowStage' => Times(flowRan[m]) = 0 /\ flowJob[m] = "none"
        BY <1>0, <4>1 DEF FlowInv, FlowOrchestrator
      <4>5. flowStage' <= FlowStages => flowStage' \in 1 .. FlowStages
        BY <1>0, <4>1
      <4> QED
        BY <1>0, <1>1, <3>1, <3>3, <4>1, <4>3, <4>4, <4>5 DEF FlowOrchestrator
    <3> QED
      BY <1>0, <3>2, <3>3
  <2> QED
    BY <2>1, <2>2
<1>7. FlowHandlers'
  BY <1>1 DEF FlowInv, FlowHandlers
<1>8. FlowVerdict'
  BY <1>0, <1>1, <1>2 DEF FlowInv, FlowOrchestrator, FlowVerdict
<1>9. FlowStops'
  BY <1>1 DEF FlowInv, FlowStops
<1> QED
  BY <1>5, <1>6, <1>7, <1>8, <1>9 DEF FlowInv

LEMMA FlowScheduleStep == ASSUME FlowInv, FlowRecords', Flow(TRUE)!Schedule PROVE FlowInv'
<1>0. /\ flowAt \in [0 .. FlowStages -> {"idle", "execute", "read", "write"}] /\ 0 \in 0 .. FlowStages
      /\ \A m \in 1 .. FlowStages : m \in 0 .. FlowStages /\ m # 0 /\ m \in Nat
      /\ flowJob \in [1 .. FlowStages -> {"none", "waiting", "running", "done"}]
      /\ flowStage \in 1 .. FlowStages /\ FlowStages \in Nat /\ FlowTries \in Nat \ {0}
  BY FlowConstants DEF FlowInv, FlowTyped, Flow!Schedule
<1>1. /\ flowAt[0] = "execute" /\ flowPlan[flowStage].delayed
      /\ flowJob' = [flowJob EXCEPT ![flowStage] = "waiting"] /\ flowAt' = [flowAt EXCEPT ![0] = "read"]
      /\ UNCHANGED <<flowPlan, flowStatus, flowStage, flowFailed, flowTries, flowRan>>
  BY DEF Flow!Schedule, Flow!Goto, Flow!orchestrator
<1>2. /\ flowAt'[0] = "read" /\ \A m \in 1 .. FlowStages : flowAt'[m] = flowAt[m]
      /\ flowJob'[flowStage] = "waiting" /\ \A m \in 1 .. FlowStages \ {flowStage} : flowJob'[m] = flowJob[m]
  BY <1>0, <1>1
<1>3. flowPlan[flowStage].delayed = TRUE /\ ~Required(flowPlan[flowStage])
  <2>1. flowPlan[flowStage].delayed \in BOOLEAN
    BY <1>0 DEF FlowInv, FlowTyped
  <2> QED
    BY <1>1, <2>1, Zenon DEF Required
<1>4. flowStatus = "IN_PROGRESS" /\ flowFailed = FALSE /\ Times(flowRan[flowStage]) = 0 /\ flowJob[flowStage] = "none"
  BY <1>0, <1>1 DEF FlowInv, FlowOrchestrator
<1>5. FlowTyped'
  <2>1. flowJob' \in [1 .. FlowStages -> {"none", "waiting", "running", "done"}]
    BY <1>0, <1>1
  <2>2. flowAt' \in [0 .. FlowStages -> {"idle", "execute", "read", "write"}]
    BY <1>0, <1>1
  <2> QED
    BY <1>1, <2>1, <2>2 DEF FlowInv, FlowTyped
<1>6. FlowOrchestrator'
  BY <1>0, <1>1, <1>2, <1>3, <1>4 DEF FlowInv, FlowOrchestrator
<1>7. FlowHandlers'
  <2>1. flowTries[flowStage] = 0 /\ flowAt[flowStage] = "idle"
    BY <1>0, <1>4 DEF FlowInv, FlowHandlers, FlowTyped
  <2>2. \A m \in 1 .. FlowStages \ {flowStage} :
          /\ flowAt'[m] # "idle" => flowJob'[m] = "running"
          /\ flowJob'[m] # "none" => flowPlan'[m].delayed = TRUE
          /\ flowJob'[m] = "waiting" => flowTries'[m] < FlowTries
          /\ flowJob'[m] = "none" => flowTries'[m] = 0
          /\ flowPlan'[m].delayed = TRUE => Times(flowRan'[m]) <= flowTries'[m]
          /\ flowAt'[m] = "execute" => Times(flowRan'[m]) < flowTries'[m]
    BY <1>1, <1>2 DEF FlowInv, FlowHandlers
  <2>3. flowAt'[flowStage] = "idle" /\ flowTries'[flowStage] = 0 /\ Times(flowRan'[flowStage]) = 0
    BY <1>0, <1>1, <1>2, <1>4, <2>1
  <2> QED
    BY <1>0, <1>1, <1>2, <1>3, <2>2, <2>3 DEF FlowHandlers, Times
<1>8. FlowVerdict' /\ FlowStops'
  BY <1>1 DEF FlowInv, FlowVerdict, FlowStops
<1> QED
  BY <1>5, <1>6, <1>7, <1>8 DEF FlowInv

LEMMA FlowExecuteStep == ASSUME FlowInv, FlowRecords', Flow(TRUE)!Execute PROVE FlowInv'
<1>0. /\ flowAt \in [0 .. FlowStages -> {"idle", "execute", "read", "write"}] /\ 0 \in 0 .. FlowStages
      /\ \A m \in 1 .. FlowStages : m \in 0 .. FlowStages /\ m # 0 /\ m \in Nat
      /\ flowRan \in [1 .. FlowStages -> FlowRuns]
      /\ flowStage \in 1 .. FlowStages /\ FlowStages \in Nat
      /\ flowPlan[flowStage].delayed \in BOOLEAN /\ flowPlan[flowStage].optional \in BOOLEAN
  BY FlowConstants DEF FlowInv, FlowTyped, Flow!Execute
<1>1. PICK outcome \in FlowOutcomes :
        Flow(TRUE)!Runs(flowStage, outcome) /\ flowFailed' = (outcome = "FAILED" /\ ~flowPlan[flowStage].optional)
  BY FlowSets DEF Flow!Execute
<1> DEFINE runs == [flowRan[flowStage] EXCEPT ![outcome] = @ + 1]
<1>2. /\ flowAt[0] = "execute" /\ ~flowPlan[flowStage].delayed
      /\ flowRan' = [flowRan EXCEPT ![flowStage] = runs] /\ flowAt' = [flowAt EXCEPT ![0] = "read"]
      /\ UNCHANGED <<flowPlan, flowStatus, flowStage, flowJob, flowTries>>
  BY <1>1 DEF Flow!Execute, Flow!Goto, Flow!Runs
<1>3. flowPlan[flowStage].delayed = FALSE
  BY <1>0, <1>2, Zenon
<1>4. /\ flowStatus = "IN_PROGRESS" /\ flowFailed = FALSE /\ Times(flowRan[flowStage]) = 0
      /\ flowJob[flowStage] = "none"
  BY <1>0, <1>2 DEF FlowInv, FlowOrchestrator
<1>5. /\ runs \in FlowRuns /\ Times(runs) = 1 /\ (outcome = "FAILED" => HasFailed(runs))
      /\ outcome = "SUCCEEDED" => Succeeded(runs)
  <2>1. flowRan[flowStage] \in FlowRuns
    BY <1>0
  <2> QED
    BY <1>4, <2>1, RunCounts
<1>6. IF flowFailed' = TRUE THEN Required(flowPlan[flowStage]) /\ HasFailed(runs)
                            ELSE Required(flowPlan[flowStage]) => Succeeded(runs)
  <2>1. CASE outcome = "FAILED" /\ ~flowPlan[flowStage].optional
    <3>1. flowPlan[flowStage].optional = FALSE /\ flowFailed' = TRUE
      BY <1>0, <1>1, <2>1, Zenon
    <3> QED
      BY <1>3, <1>5, <2>1, <3>1 DEF Required
  <2>2. CASE outcome = "FAILED" /\ flowPlan[flowStage].optional
    <3>1. flowPlan[flowStage].optional = TRUE /\ flowFailed' = FALSE
      BY <1>0, <1>1, <2>2, Zenon
    <3> QED
      BY <3>1 DEF Required
  <2>3. CASE outcome # "FAILED"
    <3>1. flowFailed' = FALSE
      BY <1>1, <2>3, Zenon
    <3>2. outcome = "SUCCEEDED"
      BY <2>3 DEF FlowOutcomes
    <3> QED
      BY <1>5, <3>1, <3>2
  <2> QED
    BY <2>1, <2>2, <2>3
<1>b. flowFailed' \in BOOLEAN
  BY <1>1, Zenon
<1> HIDE DEF runs
<1>7. /\ flowAt'[0] = "read" /\ flowRan'[flowStage] = runs
      /\ \A m \in 1 .. FlowStages : flowAt'[m] = flowAt[m]
      /\ \A m \in 1 .. FlowStages \ {flowStage} : flowRan'[m] = flowRan[m]
  BY <1>0, <1>2
<1>8. FlowTyped'
  <2>1. flowRan' \in [1 .. FlowStages -> FlowRuns]
    BY <1>0, <1>2, <1>5
  <2>2. flowAt' \in [0 .. FlowStages -> {"idle", "execute", "read", "write"}]
    BY <1>0, <1>2
  <2> QED
    BY <1>2, <1>b, <2>1, <2>2 DEF FlowInv, FlowTyped
<1>9. FlowOrchestrator'
  <2>1. \A m \in 1 .. FlowStages : m > flowStage' => Times(flowRan'[m]) = 0 /\ flowJob'[m] = "none"
    BY <1>0, <1>2, <1>7 DEF FlowInv, FlowOrchestrator
  <2>2. \A m \in 1 .. FlowStages :
          flowStage' <= FlowStages /\ m < flowStage' /\ Required(flowPlan'[m]) => Succeeded(flowRan'[m])
    BY <1>0, <1>2, <1>7 DEF FlowInv, FlowOrchestrator
  <2>3. flowAt'[0] \in {"read", "write"} =>
          IF flowFailed' = TRUE THEN Required(flowPlan'[flowStage']) /\ HasFailed(flowRan'[flowStage'])
                                ELSE Required(flowPlan'[flowStage']) => Succeeded(flowRan'[flowStage'])
    BY <1>2, <1>6, <1>7
  <2>4. flowStatus' = "IN_PROGRESS" /\ flowStage' <= FlowStages /\ flowStage' # FlowStages + 1
    BY <1>0, <1>2, <1>4
  <2> QED
    BY <1>7, <2>1, <2>2, <2>3, <2>4 DEF FlowOrchestrator, Times, Required, Succeeded, HasFailed
<1>10. FlowHandlers'
  <2>1. ASSUME NEW m \in 1 .. FlowStages, flowPlan[m].delayed = TRUE PROVE flowRan'[m] = flowRan[m]
    BY <1>3, <1>7, <2>1
  <2>2. ASSUME NEW m \in 1 .. FlowStages, flowAt[m] = "execute" PROVE flowRan'[m] = flowRan[m]
    <3>1. flowPlan[m].delayed = TRUE
      BY <2>2 DEF FlowInv, FlowHandlers
    <3> QED
      BY <2>1, <3>1
  <2> QED
    BY <1>2, <1>7, <2>1, <2>2 DEF FlowInv, FlowHandlers, Times
<1>11. FlowVerdict'
  BY <1>2, <1>4 DEF FlowVerdict
<1>12. FlowStops'
  <2>1. ASSUME NEW n \in 1 .. FlowStages, flowPlan[n].delayed = FALSE PROVE Times(flowRan'[n]) <= 1
    BY <1>5, <1>7, <2>1 DEF FlowInv, FlowStops
  <2>2. ASSUME NEW n \in 1 .. FlowStages, NEW m \in 1 .. FlowStages, flowPlan[n].delayed = FALSE,
               m < n, Required(flowPlan[m]), HasFailed(flowRan'[m])
        PROVE  Times(flowRan'[n]) = 0
    <3>1. CASE m = flowStage
      <4>1. n > flowStage /\ n # flowStage
        BY <1>0, <2>2, <3>1
      <4> QED
        BY <1>7, <4>1 DEF FlowInv, FlowOrchestrator
    <3>2. CASE m # flowStage /\ n # flowStage
      BY <1>7, <2>2, <3>2 DEF FlowInv, FlowStops
    <3>3. CASE m # flowStage /\ n = flowStage
      <4>1. HasFailed(flowRan[m])
        BY <1>7, <2>2, <3>3
      <4>2. flowStage <= FlowStages /\ m < flowStage
        BY <1>0, <2>2, <3>3
      <4>3. Succeeded(flowRan[m])
        BY <2>2, <4>2 DEF FlowInv, FlowOrchestrator
      <4> QED
        BY <4>1, <4>3, FlowTimes
    <3> QED
      BY <3>1, <3>2, <3>3
  <2> QED
    BY <1>2, <2>1, <2>2 DEF FlowStops, Times, Required, HasFailed
<1> QED
  BY <1>8, <1>9, <1>10, <1>11, <1>12 DEF FlowInv

LEMMA FlowStep == ASSUME FlowInv, [Flow(TRUE)!Next]_flowVars PROVE FlowInv'
<1>1. CASE UNCHANGED flowVars
  BY <1>1 DEF flowVars, FlowInv, FlowTyped, FlowRecords, FlowOrchestrator, FlowHandlers, FlowVerdict, FlowStops,
              Times, Required, Succeeded, HasFailed
<1>2. CASE Flow(TRUE)!Next
  <2>1. FlowRecords'
    BY <1>2, FlowRecordsStep
  <2>2. \A w \in 0 .. FlowStages : w = 0 \/ w \in 1 .. FlowStages
    BY FlowConstants
  <2> QED
    BY <1>2, <2>1, <2>2, FlowSets, FlowHandlerStep, FlowQuietStep, FlowScheduleStep, FlowExecuteStep
       DEF Flow!Next, Flow!Orchestrate
<1> QED
  BY <1>1, <1>2

LEMMA FlowTells ==
  ASSUME FlowInv
  PROVE  Flow(TRUE)!TypeOK /\ Flow(TRUE)!StatusTellsImmediate /\ Flow(TRUE)!FailureStopsImmediate
<1>1. \A n \in 1 .. FlowStages : flowRan[n] \in FlowRuns /\ flowPlan[n].delayed \in BOOLEAN /\ flowPlan[n].optional \in BOOLEAN
  BY DEF FlowInv, FlowTyped
<1>2. \A n \in 1 .. FlowStages : ~flowPlan[n].delayed <=> flowPlan[n].delayed = FALSE
  BY <1>1, Zenon
<1>3. \A n \in 1 .. FlowStages : ~flowPlan[n].optional <=> flowPlan[n].optional = FALSE
  BY <1>1, Zenon
<1>4. flowRan \in [1 .. FlowStages -> [FlowOutcomes -> 0 .. FlowTries]]
  <2>1. ASSUME NEW n \in 1 .. FlowStages PROVE Times(flowRan[n]) <= FlowTries
    <3>1. flowTries[n] \in 0 .. FlowTries /\ FlowTries \in Nat \ {0} /\ Times(flowRan[n]) \in Nat
      BY FlowConstants, FlowTimes DEF FlowInv, FlowTyped
    <3> QED
      BY <1>1, <3>1 DEF FlowInv, FlowHandlers, FlowStops
  <2>2. ASSUME NEW n \in 1 .. FlowStages PROVE flowRan[n] \in [FlowOutcomes -> 0 .. FlowTries]
    BY <1>1, <2>1, FlowConstants DEF FlowRuns, FlowOutcomes, Times
  <2>3. flowRan \in [1 .. FlowStages -> FlowRuns]
    BY DEF FlowInv, FlowTyped
  <2> QED
    BY <2>2, <2>3
<1>5. Flow(TRUE)!TypeOK
  BY <1>4, FlowSets DEF FlowInv, FlowTyped, FlowRecords, Flow!TypeOK, Flow!Stage
<1>6. Flow(TRUE)!StatusTellsImmediate
  BY <1>2, <1>3, FlowSets DEF FlowInv, FlowVerdict, Required, Succeeded, HasFailed, Flow!StatusTellsImmediate, Flow!RequiredFailed
<1>7. Flow(TRUE)!FailureStopsImmediate
  <2>1. \A n \in 1 .. FlowStages : Times(flowRan[n]) = 0 => ~(flowRan[n]["SUCCEEDED"] + flowRan[n]["FAILED"] > 0)
    BY DEF Times
  <2> QED
    BY <1>2, <1>3, <2>1, FlowSets DEF FlowInv, FlowStops, Required, HasFailed, Times,
        Flow!FailureStopsImmediate, Flow!RequiredFailed, Flow!Ran
<1> QED
  BY <1>5, <1>6, <1>7

LEMMA FlowTurns == ASSUME [Next]_vars PROVE [Flow(TRUE)!Next]_flowVars
BY DEF Next, Turn, NoticesNext, vars, NotNotice, NotBreaker, NotHook, NotFlow, NotWait, NotMail, NotInbox,
       NotSub, NotConnect, NotSync

(* Whoever writes the results at once and whoever dies, SUCCEEDED means that  *)
(* each required immediate stage succeeded and FAILED or PENDING that one     *)
(* failed, after which no immediate stage ran: for any number of stages,      *)
(* delayed or not, required or not, and any number of tries.                 *)
THEOREM StatusIsTrue == Spec => []StatusTellsImmediate
<1>1. Init => FlowInv
  BY FlowInit DEF Init, Start, NoticeModes
<1>2. FlowInv /\ [Next]_vars => FlowInv'
  BY FlowStep, FlowTurns
<1>3. FlowInv => StatusTellsImmediate
  BY FlowTells DEF StatusTellsImmediate
<1> QED
  BY <1>1, <1>2, <1>3, PTL DEF Spec
-----------------------------------------------------------------------------
(* The waitlist.  Entries are numbered as they are made, so an entry that is  *)
(* made once a handler has picked the oldest is younger than that one.       *)
WaitRows == [id: 1 .. MaxWaitEntries, client: WaitClients, day: WaitDays \cup {0}, status: {"ACTIVE", "NOTIFIED"}]
Waiting  == {e \in waitEntries : e.status = "ACTIVE"}

WaitTyped ==
  /\ waitEntries \subseteq WaitRows
  /\ waitMade \in 0 .. MaxWaitEntries
  /\ waitMailed \subseteq 1 .. MaxWaitEntries
  /\ waitJoin \in [{j1} -> [at: {"idle", "create"}, client: WaitClients, day: WaitDays \cup {0}]]
  /\ waitHand \in [WaitHandlers -> [at: {"idle", "dated", "general", "mark", "mail"},
                                    day: WaitDays \cup {0}, entry: (1 .. MaxWaitEntries) \cup {0}]]

WaitNumbered ==
  /\ \A e \in waitEntries : e.id <= waitMade
  /\ \A h \in WaitHandlers : waitHand[h].entry <= waitMade

WaitOnce ==
  /\ \A e, f \in Waiting : e.client = f.client => e = f
  /\ waitJoin[j1].at = "create" => \A e \in Waiting : e.client # waitJoin[j1].client

WaitOldest ==
  \A h \in WaitHandlers : waitHand[h].at = "mark" =>
    \A e \in Waiting : e.day = waitHand[h].day => waitHand[h].entry <= e.id

WaitInv == WaitTyped /\ WaitNumbered /\ WaitOnce /\ WaitOldest

LEMMA WaitConstants == MaxWaitEntries \in Nat /\ WaitDays \subseteq Nat \ {0} /\ WaitClients # {}
<1>1. Wait(FALSE)!WaitlistAssumption
  BY MessagesAssumption
<1> QED
  BY <1>1 DEF Wait!WaitlistAssumption

(* The least of a set of numbers that is not empty is its Min.               *)
LEMMA OldestIsLeast ==
  ASSUME NEW S, S \subseteq WaitRows, S # {}
  PROVE  /\ \E e \in S : e.id = Wait(FALSE)!Oldest(S)
         /\ \A e \in S : Wait(FALSE)!Oldest(S) <= e.id
<1> DEFINE ids == {e.id : e \in S}
<1>1. ids \subseteq Nat /\ ids # {}
  BY WaitConstants DEF WaitRows
<1>2. \E x \in ids : \A y \in ids : x <= y
  <2> HIDE DEF ids
  <2> QED
    BY <1>1, LeastOfNumbers
<1>3. Wait(FALSE)!Oldest(S) \in ids /\ \A y \in ids : Wait(FALSE)!Oldest(S) <= y
  BY <1>2 DEF Wait!Oldest, Wait!Min
<1> QED
  BY <1>3

LEMMA WaitInit == ASSUME Wait(FALSE)!Init PROVE WaitInv
<1> USE DEF Wait!Init
<1>1. WaitTyped
  BY WaitConstants DEF WaitTyped, Wait!NoJoin, Wait!NoSlot
<1>2. WaitNumbered
  BY WaitConstants DEF WaitNumbered, Wait!NoSlot
<1>3. WaitOnce
  BY DEF WaitOnce, Waiting, Wait!NoJoin
<1>4. WaitOldest
  BY DEF WaitOldest, Waiting
<1> QED
  BY <1>1, <1>2, <1>3, <1>4 DEF WaitInv

(* What happens to the entries: one is made, or some wait no longer.         *)
LEMMA WaitJoins == ASSUME WaitInv, Wait(FALSE)!Look(j1) PROVE WaitInv'
<1>1. PICK c \in WaitClients, d \in WaitDays \cup {0} :
        /\ \A e \in Waiting : e.client # c
        /\ waitJoin' = [waitJoin EXCEPT ![j1] = [at |-> "create", client |-> c, day |-> d]]
  BY DEF Wait!Look, Wait!Active, Waiting
<1>2. UNCHANGED <<waitEntries, waitMade, waitHand, waitMailed>>
  BY DEF Wait!Look
<1>3. WaitTyped'
  BY <1>1, <1>2 DEF WaitInv, WaitTyped
<1>4. WaitNumbered' /\ WaitOldest'
  BY <1>2 DEF WaitInv, WaitNumbered, WaitOldest, Waiting
<1>5. waitJoin'[j1].client = c
  BY <1>1 DEF WaitInv, WaitTyped
<1>6. WaitOnce'
  BY <1>1, <1>2, <1>5 DEF WaitInv, WaitOnce, Waiting
<1> QED
  BY <1>3, <1>4, <1>6 DEF WaitInv

LEMMA WaitMakes == ASSUME WaitInv, Wait(FALSE)!Create(j1) PROVE WaitInv'
<1> DEFINE new == [id |-> waitMade + 1, client |-> waitJoin[j1].client, day |-> waitJoin[j1].day, status |-> "ACTIVE"]
<1>1. /\ waitJoin[j1].at = "create"
      /\ waitEntries' = waitEntries \cup {new}
      /\ waitMade < MaxWaitEntries /\ waitMade' = waitMade + 1
      /\ waitJoin' = [waitJoin EXCEPT ![j1] = Wait(FALSE)!NoJoin]
      /\ waitHand' = waitHand /\ waitMailed' = waitMailed
  BY DEF Wait!Create
<1>2. new \in WaitRows
  BY <1>1, WaitConstants DEF WaitInv, WaitTyped, WaitRows
<1>3. Wait(FALSE)!NoJoin \in [at: {"idle", "create"}, client: WaitClients, day: WaitDays \cup {0}] /\ Wait(FALSE)!NoJoin.at = "idle"
  BY WaitConstants DEF Wait!NoJoin
<1>4. WaitTyped'
  <2>1. waitJoin' \in [{j1} -> [at: {"idle", "create"}, client: WaitClients, day: WaitDays \cup {0}]]
    BY <1>1, <1>3 DEF WaitInv, WaitTyped
  <2>2. waitEntries' \subseteq WaitRows /\ waitMade' \in 0 .. MaxWaitEntries
    BY <1>1, <1>2, WaitConstants DEF WaitInv, WaitTyped
  <2> QED
    BY <1>1, <2>1, <2>2 DEF WaitInv, WaitTyped
<1>5. new.id = waitMade + 1 /\ new.client = waitJoin[j1].client
  OBVIOUS
<1>6. Waiting' = Waiting \cup {new}
  BY <1>1 DEF Waiting
<1>7. waitMade \in Nat /\ \A e \in waitEntries : e.id \in Nat
  BY WaitConstants DEF WaitInv, WaitTyped, WaitRows
<1>8. \A h \in WaitHandlers : waitHand[h].entry \in Nat
  BY WaitConstants DEF WaitInv, WaitTyped
<1> HIDE DEF new
<1>9. WaitNumbered'
  BY <1>1, <1>5, <1>7, <1>8 DEF WaitInv, WaitNumbered
<1>10. WaitOnce'
  <2>1. waitJoin'[j1].at # "create"
    BY <1>1, <1>3 DEF WaitInv, WaitTyped
  <2> QED
    BY <1>1, <1>5, <1>6, <2>1 DEF WaitInv, WaitOnce
<1>11. WaitOldest'
  BY <1>1, <1>5, <1>6, <1>7, <1>8 DEF WaitInv, WaitOldest, WaitNumbered
<1> QED
  BY <1>4, <1>9, <1>10, <1>11 DEF WaitInv

(* Fewer wait, and a handler that goes to its mark is there by its reasons.  *)
LEMMA WaitFewer ==
  ASSUME WaitInv, WaitTyped', waitMade' = waitMade, waitJoin' = waitJoin,
         \A e \in waitEntries' : e.id <= waitMade,
         Waiting' \subseteq Waiting,
         \A h \in WaitHandlers : waitHand'[h].entry <= waitMade,
         \A h \in WaitHandlers : waitHand'[h].at = "mark" =>
           \A e \in Waiting : e.day = waitHand'[h].day => waitHand'[h].entry <= e.id
  PROVE  WaitInv'
<1>1. WaitNumbered'
  BY DEF WaitNumbered
<1>2. WaitOnce'
  BY DEF WaitInv, WaitOnce
<1>3. WaitOldest'
  BY DEF WaitOldest
<1> QED
  BY <1>1, <1>2, <1>3 DEF WaitInv

LEMMA WaitRemoves == ASSUME WaitInv, Wait(FALSE)!remove PROVE WaitInv'
<1>1. waitEntries' \subseteq waitEntries /\ UNCHANGED <<waitMade, waitJoin, waitHand, waitMailed>>
  BY DEF Wait!remove
<1>2. WaitTyped' /\ Waiting' \subseteq Waiting
  BY <1>1 DEF WaitInv, WaitTyped, Waiting
<1>3. \A e \in waitEntries' : e.id <= waitMade
  BY <1>1 DEF WaitInv, WaitNumbered
<1>4. \A h \in WaitHandlers : waitHand'[h].entry <= waitMade
  BY <1>1 DEF WaitInv, WaitNumbered
<1>5. \A h \in WaitHandlers : waitHand'[h].at = "mark" =>
        \A e \in Waiting : e.day = waitHand'[h].day => waitHand'[h].entry <= e.id
  BY <1>1 DEF WaitInv, WaitOldest
<1> QED
  BY <1>1, <1>2, <1>3, <1>4, <1>5, WaitFewer

(* A handler moves: to where it marks with the oldest, or elsewhere.         *)
WaitSlots == [at: {"idle", "dated", "general", "mark", "mail"}, day: WaitDays \cup {0}, entry: (1 .. MaxWaitEntries) \cup {0}]

LEMMA WaitMoves ==
  ASSUME WaitInv, NEW h \in WaitHandlers, NEW slot \in WaitSlots,
         waitHand' = [waitHand EXCEPT ![h] = slot],
         waitMade' = waitMade, waitJoin' = waitJoin, waitMailed' \subseteq 1 .. MaxWaitEntries,
         waitEntries' \subseteq WaitRows,
         \A e \in waitEntries' : e.id <= waitMade,
         Waiting' \subseteq Waiting,
         slot.entry <= waitMade,
         slot.at = "mark" => \A e \in Waiting : e.day = slot.day => slot.entry <= e.id
  PROVE  WaitInv'
<1>1. waitHand \in [WaitHandlers -> WaitSlots]
  BY DEF WaitInv, WaitTyped, WaitSlots
<1>2. waitHand'[h] = slot /\ \A g \in WaitHandlers : g # h => waitHand'[g] = waitHand[g]
  BY <1>1
<1>3. waitHand' \in [WaitHandlers -> WaitSlots]
  BY <1>1
<1>4. WaitTyped'
  BY <1>3 DEF WaitInv, WaitTyped, WaitSlots
<1>5. \A g \in WaitHandlers : waitHand'[g].entry <= waitMade
  BY <1>2 DEF WaitInv, WaitNumbered
<1>6. \A g \in WaitHandlers : waitHand'[g].at = "mark" =>
        \A e \in Waiting : e.day = waitHand'[g].day => waitHand'[g].entry <= e.id
  BY <1>2 DEF WaitInv, WaitOldest
<1> QED
  BY <1>4, <1>5, <1>6, WaitFewer

(* What a handler finds: it goes on to mark the oldest of those.             *)
LEMMA WaitPicks ==
  ASSUME WaitInv, NEW h \in WaitHandlers, NEW S, S \subseteq Waiting, S # {},
         \A e \in Waiting : e.day = waitHand[h].day => e \in S,
         Wait(FALSE)!Pick(h, S), UNCHANGED <<waitEntries, waitMade, waitJoin, waitMailed>>
  PROVE  WaitInv'
<1> DEFINE old  == Wait(FALSE)!Oldest(S)
           slot == [waitHand[h] EXCEPT !.at = "mark", !.entry = old]
<1>1. S \subseteq WaitRows
  BY DEF WaitInv, WaitTyped, Waiting
<1>2. PICK e \in S : e.id = old
  BY <1>1, OldestIsLeast
<1>3. \A f \in S : old <= f.id
  BY <1>1, OldestIsLeast
<1>4. old \in 1 .. MaxWaitEntries /\ old <= waitMade
  BY <1>1, <1>2 DEF WaitInv, WaitNumbered, Waiting, WaitRows
<1>5. waitHand' = [waitHand EXCEPT ![h].at = "mark", ![h].entry = old]
  BY DEF Wait!Pick
<1> HIDE DEF old
<1>6. waitHand[h] \in WaitSlots
  BY DEF WaitInv, WaitTyped, WaitSlots
<1>7. slot \in WaitSlots /\ slot.entry = old /\ slot.day = waitHand[h].day
  BY <1>4, <1>6 DEF WaitSlots
<1>8. waitHand' = [waitHand EXCEPT ![h] = slot]
  BY <1>5
<1>9. Waiting' = Waiting
  BY DEF Waiting
<1>10. waitEntries' \subseteq WaitRows /\ waitMailed' \subseteq 1 .. MaxWaitEntries
  BY DEF WaitInv, WaitTyped
<1>11. \A f \in waitEntries' : f.id <= waitMade
  BY DEF WaitInv, WaitNumbered
<1>12. \A f \in Waiting : f.day = slot.day => slot.entry <= f.id
  BY <1>3, <1>7
<1> HIDE DEF slot
<1> QED
  BY <1>4, <1>7, <1>8, <1>9, <1>10, <1>11, <1>12, WaitMoves

(* A handler gives up, or goes elsewhere than to its mark.                   *)
LEMMA WaitElsewhere ==
  ASSUME WaitInv, NEW h \in WaitHandlers, NEW slot \in WaitSlots,
         waitHand' = [waitHand EXCEPT ![h] = slot], slot.at # "mark", slot.entry <= waitMade,
         waitMade' = waitMade, waitJoin' = waitJoin, waitMailed' \subseteq 1 .. MaxWaitEntries,
         waitEntries' = waitEntries
  PROVE  WaitInv'
<1>1. waitEntries' \subseteq WaitRows /\ Waiting' \subseteq Waiting
  BY DEF WaitInv, WaitTyped, Waiting
<1>2. \A e \in waitEntries' : e.id <= waitMade
  BY DEF WaitInv, WaitNumbered
<1> QED
  BY <1>1, <1>2, WaitMoves

LEMMA WaitListens ==
  ASSUME WaitInv, NEW h \in WaitHandlers,
         \/ Wait(FALSE)!BookingCancelled(h)
         \/ Wait(FALSE)!FindDated(h)
         \/ Wait(FALSE)!FindGeneral(h)
         \/ Wait(FALSE)!Mail(h)
  PROVE  WaitInv'
<1>1. waitHand[h] \in WaitSlots /\ waitHand[h].entry <= waitMade
  BY DEF WaitInv, WaitTyped, WaitSlots, WaitNumbered
<1>2. waitMade \in Nat /\ 0 <= waitMade /\ waitMailed \subseteq 1 .. MaxWaitEntries
  BY WaitConstants DEF WaitInv, WaitTyped
<1>3. Wait(FALSE)!NoSlot \in WaitSlots /\ Wait(FALSE)!NoSlot.at # "mark" /\ Wait(FALSE)!NoSlot.entry <= waitMade
  BY <1>2 DEF Wait!NoSlot, WaitSlots
<1>4. CASE Wait(FALSE)!BookingCancelled(h)
  <2>1. PICK d \in WaitDays : waitHand' = [waitHand EXCEPT ![h] = [at |-> "dated", day |-> d, entry |-> 0]]
    BY <1>4 DEF Wait!BookingCancelled
  <2> DEFINE slot == [at |-> "dated", day |-> d, entry |-> 0]
  <2>2. slot \in WaitSlots /\ slot.at # "mark" /\ slot.entry <= waitMade
    BY <1>2 DEF WaitSlots
  <2>3. waitHand' = [waitHand EXCEPT ![h] = slot]
    BY <2>1
  <2>4. UNCHANGED <<waitEntries, waitMade, waitJoin, waitMailed>>
    BY <1>4 DEF Wait!BookingCancelled
  <2> HIDE DEF slot
  <2> QED
    BY <1>2, <2>2, <2>3, <2>4, WaitElsewhere
<1>5. CASE Wait(FALSE)!FindDated(h)
  <2> DEFINE dated == {e \in Waiting : e.day = waitHand[h].day}
             slot  == [waitHand[h] EXCEPT !.at = "general"]
  <2>1. UNCHANGED <<waitEntries, waitMade, waitJoin, waitMailed>>
    BY <1>5 DEF Wait!FindDated
  <2>2. IF dated # {} THEN Wait(FALSE)!Pick(h, dated) ELSE waitHand' = [waitHand EXCEPT ![h] = slot]
    BY <1>5 DEF Wait!FindDated, Wait!Active, Wait!Goto, Waiting
  <2>3. dated \subseteq Waiting /\ \A e \in Waiting : e.day = waitHand[h].day => e \in dated
    OBVIOUS
  <2>4. slot \in WaitSlots /\ slot.at # "mark" /\ slot.entry <= waitMade
    BY <1>1 DEF WaitSlots
  <2> HIDE DEF dated, slot
  <2>5. CASE dated # {}
    BY <2>1, <2>2, <2>3, <2>5, WaitPicks
  <2>6. CASE dated = {}
    BY <1>2, <2>1, <2>2, <2>4, <2>6, WaitElsewhere
  <2> QED
    BY <2>5, <2>6
<1>6. CASE Wait(FALSE)!FindGeneral(h)
  <2>1. UNCHANGED <<waitEntries, waitMade, waitJoin, waitMailed>>
    BY <1>6 DEF Wait!FindGeneral
  <2>2. IF Waiting # {} THEN Wait(FALSE)!Pick(h, Waiting) ELSE waitHand' = [waitHand EXCEPT ![h] = Wait(FALSE)!NoSlot]
    BY <1>6 DEF Wait!FindGeneral, Wait!Active, Wait!Done, Waiting
  <2>3. CASE Waiting # {}
    BY <2>1, <2>2, <2>3, WaitPicks
  <2>4. CASE Waiting = {}
    BY <1>2, <1>3, <2>1, <2>2, <2>4, WaitElsewhere
  <2> QED
    BY <2>3, <2>4
<1>7. CASE Wait(FALSE)!Mail(h)
  <2>1. waitMailed' = waitMailed /\ UNCHANGED <<waitEntries, waitMade, waitJoin>>
    BY <1>7 DEF Wait!Mail
  <2>2. waitHand' = [waitHand EXCEPT ![h] = Wait(FALSE)!NoSlot]
    BY <1>7 DEF Wait!Mail, Wait!Done
  <2> QED
    BY <1>2, <1>3, <2>1, <2>2, WaitElsewhere
<1> QED
  BY <1>4, <1>5, <1>6, <1>7

LEMMA WaitMarks ==
  ASSUME WaitInv, NEW h \in WaitHandlers, Wait(FALSE)!markNotified(h)
  PROVE  WaitInv'
<1> DEFINE mine == {e \in waitEntries : e.id = waitHand[h].entry}
           told == {[e EXCEPT !.status = "NOTIFIED"] : e \in mine}
           mail == [waitHand[h] EXCEPT !.at = "mail"]
<1>1. /\ waitEntries' = (waitEntries \ mine) \cup told
      /\ UNCHANGED <<waitMade, waitJoin, waitMailed>>
      /\ waitHand' = [waitHand EXCEPT ![h] = mail] \/ waitHand' = [waitHand EXCEPT ![h] = Wait(FALSE)!NoSlot]
  BY DEF Wait!markNotified, Wait!Mine, Wait!Goto, Wait!Done
<1>2. \A e \in told : e \in WaitRows /\ e.status = "NOTIFIED" /\ e.id <= waitMade
  BY DEF WaitInv, WaitTyped, WaitNumbered, WaitRows
<1>3. waitHand[h] \in WaitSlots /\ waitHand[h].entry <= waitMade
  BY DEF WaitInv, WaitTyped, WaitSlots, WaitNumbered
<1>4. mail \in WaitSlots /\ mail.at # "mark" /\ mail.entry <= waitMade
  BY <1>3 DEF WaitSlots
<1>5. waitMade \in Nat /\ 0 <= waitMade /\ waitMailed' \subseteq 1 .. MaxWaitEntries
  BY <1>1, WaitConstants DEF WaitInv, WaitTyped
<1>6. Wait(FALSE)!NoSlot \in WaitSlots /\ Wait(FALSE)!NoSlot.at # "mark" /\ Wait(FALSE)!NoSlot.entry <= waitMade
  BY <1>5 DEF Wait!NoSlot, WaitSlots
<1> HIDE DEF told, mail
<1>7. waitEntries' \subseteq WaitRows
  BY <1>1, <1>2 DEF WaitInv, WaitTyped
<1>8. \A e \in waitEntries' : e.id <= waitMade
  BY <1>1, <1>2 DEF WaitInv, WaitNumbered
<1>9. Waiting' \subseteq Waiting
  BY <1>1, <1>2 DEF Waiting
<1>10. PICK slot \in WaitSlots : waitHand' = [waitHand EXCEPT ![h] = slot] /\ slot.at # "mark" /\ slot.entry <= waitMade
  BY <1>1, <1>4, <1>6
<1> QED
  BY <1>1, <1>5, <1>7, <1>8, <1>9, <1>10, WaitMoves

LEMMA WaitStep == ASSUME WaitInv, [Wait(FALSE)!Next]_waitVars PROVE WaitInv'
<1>1. CASE UNCHANGED waitVars
  BY <1>1 DEF waitVars, WaitInv, WaitTyped, WaitNumbered, WaitOnce, WaitOldest, Waiting
<1>2. CASE Wait(FALSE)!Next
  BY <1>2, WaitJoins, WaitMakes, WaitRemoves, WaitListens, WaitMarks DEF Wait!Next, Wait!Handler
<1> QED
  BY <1>1, <1>2

LEMMA WaitTells == WaitInv => Wait(FALSE)!TypeOK /\ Wait(FALSE)!OneActivePerClient
BY DEF WaitInv, WaitTyped, WaitOnce, Waiting, WaitRows, Wait!TypeOK, Wait!OneActivePerClient, Wait!Active, Wait!Ids

LEMMA WaitMarksOldest == ASSUME WaitInv PROVE Wait(FALSE)!OldestOfDay
<1>1. \A h \in WaitHandlers : waitHand[h].entry \in Nat
  BY WaitConstants DEF WaitInv, WaitTyped
<1>2. \A e \in Waiting : e.id \in Nat
  BY WaitConstants DEF WaitInv, WaitTyped, WaitRows, Waiting
<1>3. \A h \in WaitHandlers : waitHand[h].at = "mark" =>
        ~\E e \in Waiting : e.day = waitHand[h].day /\ e.id < waitHand[h].entry
  BY <1>1, <1>2 DEF WaitInv, WaitOldest
<1> QED
  BY <1>3 DEF Wait!OldestOfDay, Wait!Active, Waiting

LEMMA WaitTurns == ASSUME [Next]_vars PROVE [Wait(FALSE)!Next]_waitVars
BY DEF Next, Turn, NoticesNext, vars, NotNotice, NotBreaker, NotHook, NotFlow, NotWait, NotMail, NotInbox,
       NotSub, NotConnect, NotSync
-----------------------------------------------------------------------------
(* The owner's SMS.  Only a job that looks at the clock goes on to send.     *)
SmsRows      == [at: {"none", "waiting", "send", "record", "ended"}, wake: Int, tries: Int]
NewsTyped(n) == newsNow \in Nat /\ newsSms \in [1 .. n -> SmsRows]
NewsCounts   == {1, MaxNews, MaxFailingNews}

LEMMA NewsConstants ==
  /\ HoursOfDay \in Nat \ {0} /\ NightFrom \in 0 .. HoursOfDay - 1 /\ NightTo \in 0 .. HoursOfDay - 1
  /\ MaxNews \in Nat /\ MaxFailingNews \in Nat
<1>1. \A n \in NewsCounts : News(FALSE, n)!NewsAssumption
  BY MessagesAssumption DEF NoticesAssumed, NewsCounts
<1>2. News(FALSE, 1)!NewsAssumption /\ News(FALSE, MaxNews)!NewsAssumption /\ News(FALSE, MaxFailingNews)!NewsAssumption
  BY <1>1 DEF NewsCounts
<1> QED
  BY <1>2 DEF News!NewsAssumption

LEMMA NewsInit ==
  ASSUME NEW CONSTANT b, NEW CONSTANT n, News(b, n)!Init PROVE NewsTyped(n)
BY NewsConstants DEF News!Init, News!Ids, News!NoSms, NewsTyped, SmsRows

(* A change of one SMS.                                                      *)
LEMMA NewsChangesSms ==
  ASSUME NEW CONSTANT n, NewsTyped(n), NEW e, NEW x \in SmsRows,
         newsSms' = [newsSms EXCEPT ![e] = x], newsNow' = newsNow,
         newsSms[e].at = "waiting" /\ x.at = "send" => ~News(FALSE, 1)!InQuietHours(newsNow)
  PROVE  /\ NewsTyped(n)'
         /\ \A d \in 1 .. n : newsSms[d].at = "waiting" /\ newsSms'[d].at = "send" =>
                                ~News(FALSE, 1)!InQuietHours(newsNow)
<1>1. NewsTyped(n)'
  BY DEF NewsTyped
<1>2. \A d \in 1 .. n : newsSms'[d] = IF d = e THEN x ELSE newsSms[d]
  BY DEF NewsTyped
<1>3. \A d \in 1 .. n : newsSms[d] \in SmsRows
  BY DEF NewsTyped
<1> QED
  BY <1>1, <1>2, <1>3

LEMMA NewsStep ==
  ASSUME NEW CONSTANT b \in BOOLEAN, NEW CONSTANT n \in Nat, NewsTyped(n), [News(b, n)!Next]_newsVars
  PROVE  NewsTyped(n)' /\ [News(b, n)!NotWoken]_newsVars
<1> DEFINE Quiet == News(FALSE, 1)!InQuietHours(newsNow)
           Spared == NewsTyped(n)' /\ \A d \in 1 .. n : newsSms[d].at = "waiting" /\ newsSms'[d].at = "send" => ~Quiet
<1>1. News(b, n)!InQuietHours(newsNow) = Quiet
  BY DEF News!InQuietHours
<1>2. \A d \in 1 .. n : newsSms[d] \in SmsRows
  BY DEF NewsTyped
<1>3. ASSUME newsSms' = newsSms, newsNow' \in Nat PROVE Spared
  BY <1>3 DEF NewsTyped
<1>4. CASE UNCHANGED newsVars
  BY <1>4 DEF newsVars, NewsTyped
<1>5. ASSUME NEW s, NEW kinds, News(b, n)!Emit(s, kinds) PROVE Spared
  <2>1. newsNow' = newsNow
    BY <1>5 DEF News!Emit
  <2> DEFINE new == {e \in 1 .. n : /\ e \in Len(newsHeard) + 1 .. Len(newsHeard) + Len(kinds)
                                    /\ kinds[e - Len(newsHeard)] \in News(b, n)!Sms}
             x   == [at |-> "waiting", wake |-> newsNow, tries |-> 0]
  <2>2. newsSms' = [e \in 1 .. n |-> IF e \in new THEN x ELSE newsSms[e]]
    BY <1>5 DEF News!Emit, News!Ids
  <2>3. x \in SmsRows /\ x.at = "waiting"
    BY DEF SmsRows, NewsTyped
  <2> HIDE DEF new, x
  <2>4. newsSms' \in [1 .. n -> SmsRows]
    BY <1>2, <2>2, <2>3
  <2> QED
    BY <2>1, <2>2, <2>3, <2>4 DEF NewsTyped
<1>6. ASSUME NEW e \in 1 .. n, News(b, n)!Wake(e) PROVE Spared
  <2> DEFINE w == newsNow + News(b, n)!HoursUntilQuietEnd(newsNow)
             x == IF Quiet THEN [newsSms[e] EXCEPT !.wake = w, !.tries = 0]
                  ELSE [newsSms[e] EXCEPT !.at = "send"]
  <2>1. newsSms' = [newsSms EXCEPT ![e] = x] /\ newsNow' = newsNow
    BY <1>1, <1>6 DEF News!Wake, News!Sms1
  <2>2. w \in Int
    BY NewsConstants DEF News!HoursUntilQuietEnd, NewsTyped
  <2>3. x \in SmsRows /\ (newsSms[e].at = "waiting" /\ x.at = "send" => ~Quiet)
    <3>1. newsSms[e] \in SmsRows /\ w \in Int /\ 0 \in Int
      BY <1>2, <2>2
    <3> HIDE DEF w, Quiet
    <3>2. CASE Quiet
      <4> DEFINE r == newsSms[e]
                 y == [r EXCEPT !.wake = w, !.tries = 0]
      <4>1. x = y
        BY <3>2
      <4>2. y \in SmsRows /\ y.at = r.at
        BY <3>1 DEF SmsRows
      <4>3. ~(r.at = "waiting" /\ y.at = "send")
        BY <4>2
      <4> HIDE DEF y, x
      <4> QED
        BY <4>1, <4>2, <4>3
    <3>3. CASE ~Quiet
      BY <3>1, <3>3 DEF SmsRows
    <3> QED
      BY <3>2, <3>3
  <2> HIDE DEF x
  <2> QED
    BY <2>1, <2>3, NewsChangesSms
<1>7. ASSUME NEW e \in 1 .. n, News(b, n)!SendSms(e) \/ News(b, n)!Record(e) \/ News(b, n)!Throws(e) PROVE Spared
  <2>1. PICK x : /\ newsSms' = [newsSms EXCEPT ![e] = x]
                 /\ x \in {[newsSms[e] EXCEPT !.at = "record"],
                          [newsSms[e] EXCEPT !.at = "ended"],
                          [newsSms[e] EXCEPT !.at = "waiting", !.tries = newsSms[e].tries + 1],
                          [newsSms[e] EXCEPT !.at = "ended", !.tries = newsSms[e].tries + 1]}
    BY <1>2, <1>7 DEF News!SendSms, News!Record, News!Throws, News!Sms1
  <2>2. x \in SmsRows /\ x.at # "send"
    <3> DEFINE r == newsSms[e]
               k == newsSms[e].tries + 1
    <3>1. r \in SmsRows /\ k \in Int /\ 0 \in Int
      BY <1>2 DEF SmsRows
    <3>2. \/ x = [r EXCEPT !.at = "record"]
          \/ x = [r EXCEPT !.at = "ended"]
          \/ x = [r EXCEPT !.at = "waiting", !.tries = k]
          \/ x = [r EXCEPT !.at = "ended", !.tries = k]
      BY <2>1
    <3> HIDE DEF r, k
    <3>3. CASE x = [r EXCEPT !.at = "record"]
      BY <3>1, <3>3 DEF SmsRows
    <3>4. CASE x = [r EXCEPT !.at = "ended"]
      BY <3>1, <3>4 DEF SmsRows
    <3>5. CASE x = [r EXCEPT !.at = "waiting", !.tries = k]
      BY <3>1, <3>5 DEF SmsRows
    <3>6. CASE x = [r EXCEPT !.at = "ended", !.tries = k]
      BY <3>1, <3>6 DEF SmsRows
    <3> QED
      BY <3>2, <3>3, <3>4, <3>5, <3>6
  <2>3. newsNow' = newsNow
    BY <1>7 DEF News!SendSms, News!Record, News!Throws, News!Sms1
  <2> QED
    BY <2>1, <2>2, <2>3, NewsChangesSms
<1>8. ASSUME NEW e \in 1 .. n, News(b, n)!Handler(e) \/ News(b, n)!SkipGroup(e) PROVE Spared
  <2>1. newsSms' = newsSms /\ newsNow' = newsNow
    BY <1>8 DEF News!Handler, News!SkipGroup, News!Look, News!Carry, News!Done
  <2> QED
    BY <1>3, <2>1 DEF NewsTyped
<1>9. CASE News(b, n)!Tick
  <2>1. newsSms' = newsSms /\ newsNow' \in Nat
    BY <1>9 DEF News!Tick, NewsTyped
  <2>2. Spared
    BY <1>3, <2>1
  <2> QED
    BY <1>1, <2>2 DEF News!NotWoken, News!Ids
<1>10. ASSUME News(b, n)!Next PROVE Spared
  <2>1. ASSUME NEW auto \in BOOLEAN, News(b, n)!Book(auto) PROVE Spared
    BY <1>5, <2>1 DEF News!Book
  <2>2. ASSUME News(b, n)!Confirm \/ News(b, n)!Cancel \/ News(b, n)!Move \/ News(b, n)!Complete \/ News(b, n)!NoShow PROVE Spared
    BY <1>5, <2>2 DEF News!Confirm, News!Cancel, News!Move, News!Complete, News!NoShow
  <2>3. ASSUME News(b, n)!Tick PROVE Spared
    <3>1. newsSms' = newsSms /\ newsNow' \in Nat
      BY <2>3 DEF News!Tick, NewsTyped
    <3> QED
      BY <1>3, <3>1
  <2>4. ASSUME NEW e \in 1 .. n,
               News(b, n)!Handler(e) \/ News(b, n)!SkipGroup(e) \/ News(b, n)!Job(e) \/ News(b, n)!Throws(e)
        PROVE  Spared
    BY <1>6, <1>7, <1>8, <2>4 DEF News!Job
  <2> QED
    BY <1>10, <2>1, <2>2, <2>3, <2>4 DEF News!Next, News!Ids
<1> QED
  <2>1. ASSUME News(b, n)!Next PROVE NewsTyped(n)' /\ News(b, n)!NotWoken
    BY <1>1, <1>10, <2>1 DEF News!NotWoken, News!Ids
  <2> QED
    BY <1>4, <2>1
-----------------------------------------------------------------------------
(* Notifications on screens, one delivery after the other.  The telephone of  *)
(* whoever is about to send is switched on, and nobody else switches it off.  *)
PushPoints == {"new", "rate", "rows", "push", "touch", "count", "device", "send", "done"}
PushRows   == [at: PushPoints, count: Nat, left: SUBSET PushPages, sent: Nat, tries: Int, failures: Nat]

ScreenTyped ==
  /\ DOMAIN screenRows \subseteq PushPages
  /\ screenRate.n \in Nat
  /\ screenJob \in [PushJobs -> PushRows]
  /\ screenDevice \in [active: BOOLEAN, failures: Nat]

AtWork(j) == screenJob[j].at \notin {"new", "done"}

ScreenAlone ==
  /\ \A i, j \in PushJobs : AtWork(i) /\ AtWork(j) => i = j
  /\ \A j \in PushJobs : screenJob[j].at = "send" => screenDevice.active = TRUE

ScreenInv == ScreenTyped /\ ScreenAlone

LEMMA ScreenInit == ASSUME Screen(FALSE)!Init PROVE ScreenInv
<1>1. Screen(FALSE)!NoJob \in PushRows /\ Screen(FALSE)!NoJob.at = "new"
  BY DEF Screen!NoJob, PushRows, PushPoints
<1>2. ScreenTyped
  <2>1. screenRows = <<>> /\ DOMAIN screenRows = {}
    BY DEF Screen!Init
  <2>2. screenRate.n \in Nat /\ screenDevice \in [active: BOOLEAN, failures: Nat]
    BY DEF Screen!Init
  <2>3. screenJob \in [PushJobs -> PushRows]
    BY <1>1 DEF Screen!Init
  <2> QED
    BY <2>1, <2>2, <2>3 DEF ScreenTyped
<1>3. \A j \in PushJobs : screenJob[j].at = "new"
  BY <1>1 DEF Screen!Init
<1> QED
  BY <1>2, <1>3 DEF ScreenInv, ScreenAlone, AtWork

(* A delivery moves: it is at work already, or nothing else is.              *)
LEMMA ScreenMoves ==
  ASSUME ScreenInv, NEW j \in PushJobs, NEW x \in PushRows,
         screenJob' = [screenJob EXCEPT ![j] = x],
         AtWork(j) \/ (\A i \in PushJobs : ~AtWork(i)),
         DOMAIN screenRows' \subseteq PushPages, screenRate'.n \in Nat,
         \/ screenDevice' = screenDevice /\ (x.at = "send" => screenDevice.active = TRUE)
         \/ /\ AtWork(j) /\ x.at = "done"
            /\ screenDevice' \in [active: BOOLEAN, failures: Nat]
  PROVE  ScreenInv'
<1>1. ScreenTyped'
  BY DEF ScreenInv, ScreenTyped
<1>2. \A i \in PushJobs : screenJob'[i] = IF i = j THEN x ELSE screenJob[i]
  BY DEF ScreenInv, ScreenTyped
<1>3. \A i \in PushJobs : AtWork(i)' => AtWork(i) \/ i = j
  BY <1>2 DEF AtWork
<1>4. \A i \in PushJobs : AtWork(i) /\ AtWork(j) => i = j
  BY DEF ScreenInv, ScreenAlone
<1>5. \A i \in PushJobs : AtWork(i)' => i = j
  BY <1>3, <1>4
<1>6. \A i \in PushJobs : screenJob'[i].at = "send" => i = j
  BY <1>5 DEF AtWork
<1>7. \A i \in PushJobs : screenJob'[i].at = "send" => screenDevice'.active = TRUE
  BY <1>2, <1>6
<1> QED
  BY <1>1, <1>5, <1>7 DEF ScreenInv, ScreenAlone

LEMMA ScreenDelivers ==
  ASSUME ScreenInv, NEW j \in PushJobs,
         Screen(FALSE)!Step(j) \/ Screen(FALSE)!Throws(j) \/ \E p \in PushPages : Screen(FALSE)!PushFails(j, p)
  PROVE  ScreenInv' /\ (screenDevice'.active = TRUE => screenDevice.active = TRUE)
<1> DEFINE r == screenJob[j]
           Moved == ScreenInv' /\ (screenDevice'.active = TRUE => screenDevice.active = TRUE)
           After == IF j \in PushByListener THEN "done" ELSE "device"
<1>1. r \in PushRows
  BY DEF ScreenInv, ScreenTyped
<1>2. ASSUME NEW x \in PushRows, screenJob' = [screenJob EXCEPT ![j] = x], x.at # "send",
             AtWork(j) \/ (\A i \in PushJobs : ~AtWork(i)),
             DOMAIN screenRows' \subseteq PushPages, screenRate'.n \in Nat, screenDevice' = screenDevice
      PROVE  Moved
  BY <1>2, ScreenMoves
<1>3. After \in PushPoints /\ After # "send" /\ Screen(FALSE)!AfterBrowsers(j) = After
  BY DEF PushPoints, Screen!AfterBrowsers
<1>4. DOMAIN screenRows \subseteq PushPages /\ screenRate.n \in Nat /\ Screen(FALSE)!Count \in Nat
  BY DEF ScreenInv, ScreenTyped, Screen!Count
<1> HIDE DEF Moved, After
<1>5. CASE Screen(FALSE)!Begin(j)
  <2> DEFINE x == [r EXCEPT !.at = "rate"]
  <2>1. screenJob' = [screenJob EXCEPT ![j] = x] /\ UNCHANGED <<screenRows, screenRate, screenDevice>>
    BY <1>5 DEF Screen!Begin
  <2>2. x \in PushRows /\ x.at # "send"
    BY <1>1 DEF PushRows, PushPoints
  <2>3. \A i \in PushJobs : ~AtWork(i)
    BY <1>5 DEF Screen!Begin, Screen!Busy, AtWork
  <2> HIDE DEF x
  <2>4. DOMAIN screenRows' \subseteq PushPages /\ screenRate'.n \in Nat /\ screenDevice' = screenDevice
    BY <1>4, <2>1
  <2> QED
    BY <1>2, <2>1, <2>2, <2>3, <2>4 DEF Moved
<1>6. CASE Screen(FALSE)!ReadRate(j)
  <2> DEFINE n == Screen(FALSE)!Count
             at == IF n >= PushLimit THEN After ELSE "rows"
             x == [r EXCEPT !.count = n, !.at = at]
  <2>1. screenJob' = [screenJob EXCEPT ![j] = x] /\ UNCHANGED <<screenRows, screenRate, screenDevice>>
    BY <1>3, <1>6 DEF Screen!ReadRate
  <2>2. n \in Nat /\ at \in PushPoints /\ at # "send"
    BY <1>3, <1>4 DEF PushPoints
  <2>3. AtWork(j)
    BY <1>6 DEF Screen!ReadRate, AtWork
  <2> HIDE DEF n, at
  <2>4. x \in PushRows /\ x.at # "send"
    BY <1>1, <2>2 DEF PushRows
  <2> HIDE DEF x
  <2>5. DOMAIN screenRows' \subseteq PushPages /\ screenRate'.n \in Nat /\ screenDevice' = screenDevice
    BY <1>4, <2>1
  <2> QED
    BY <1>2, <2>1, <2>3, <2>4, <2>5 DEF Moved
<1>7. CASE Screen(FALSE)!ReadRows(j)
  <2> DEFINE at == IF screenRows = <<>> THEN After ELSE "push"
             d  == DOMAIN screenRows
             x  == [r EXCEPT !.left = d, !.sent = 0, !.at = at]
  <2>1. screenJob' = [screenJob EXCEPT ![j] = x] /\ UNCHANGED <<screenRows, screenRate, screenDevice>>
    BY <1>3, <1>7 DEF Screen!ReadRows
  <2>2. d \in SUBSET PushPages /\ at \in PushPoints /\ at # "send"
    BY <1>3, <1>4 DEF PushPoints
  <2>3. AtWork(j)
    BY <1>7 DEF Screen!ReadRows, AtWork
  <2> HIDE DEF d, at
  <2>4. x \in PushRows /\ x.at # "send"
    BY <1>1, <2>2 DEF PushRows
  <2> HIDE DEF x
  <2>5. DOMAIN screenRows' \subseteq PushPages /\ screenRate'.n \in Nat /\ screenDevice' = screenDevice
    BY <1>4, <2>1
  <2> QED
    BY <1>2, <2>1, <2>3, <2>4, <2>5 DEF Moved
<1>8. ASSUME NEW left \in SUBSET PushPages, NEW sent \in Nat, Screen(FALSE)!Onward(j, left, sent), r.at = "push",
             DOMAIN screenRows' \subseteq PushPages, screenRate' = screenRate, screenDevice' = screenDevice
      PROVE  Moved
  <2> DEFINE at == IF left # {} THEN "push" ELSE IF sent > 0 THEN "count" ELSE After
             x  == [r EXCEPT !.left = left, !.sent = sent, !.at = at]
  <2>1. screenJob' = [screenJob EXCEPT ![j] = x]
    BY <1>3, <1>8 DEF Screen!Onward
  <2>2. at \in PushPoints /\ at # "send"
    BY <1>3 DEF PushPoints
  <2>3. AtWork(j)
    BY <1>8 DEF AtWork
  <2> HIDE DEF at
  <2>4. x \in PushRows /\ x.at # "send"
    BY <1>1, <2>2 DEF PushRows
  <2> HIDE DEF x
  <2> QED
    BY <1>2, <1>4, <1>8, <2>1, <2>3, <2>4
<1>9. ASSUME NEW p \in PushPages,
             Screen(FALSE)!Push(j, p) \/ Screen(FALSE)!PushGone(j, p) \/ Screen(FALSE)!PushFails(j, p)
      PROVE  Moved
  <2>1. r.at = "push" /\ screenRate' = screenRate /\ screenDevice' = screenDevice
    BY <1>9 DEF Screen!Push, Screen!PushGone, Screen!PushFails
  <2>2. DOMAIN screenRows' \subseteq PushPages
    BY <1>4, <1>9 DEF Screen!Push, Screen!PushGone, Screen!PushFails, Screen!Without
  <2>3. r.left \ {p} \in SUBSET PushPages /\ r.sent \in Nat /\ r.sent + 1 \in Nat
    BY <1>1 DEF PushRows
  <2>4. Screen(FALSE)!Onward(j, r.left \ {p}, r.sent) \/ Screen(FALSE)!Onward(j, r.left \ {p}, r.sent + 1)
    BY <1>9 DEF Screen!Push, Screen!PushGone, Screen!PushFails
  <2> HIDE DEF r
  <2> QED
    BY <1>8, <2>1, <2>2, <2>3, <2>4
<1>10. CASE Screen(FALSE)!SetRate(j)
  <2> DEFINE x == [r EXCEPT !.at = After]
  <2>1. screenJob' = [screenJob EXCEPT ![j] = x] /\ UNCHANGED <<screenRows, screenDevice>>
    BY <1>3, <1>10 DEF Screen!SetRate
  <2>2. x \in PushRows /\ x.at # "send"
    BY <1>1, <1>3 DEF PushRows
  <2>3. screenRate'.n \in Nat
    <3>1. screenRate'.n = r.count + r.sent
      BY <1>10 DEF Screen!SetRate
    <3> QED
      BY <1>1, <3>1 DEF PushRows
  <2>4. AtWork(j)
    BY <1>10 DEF Screen!SetRate, AtWork
  <2> HIDE DEF x
  <2>5. DOMAIN screenRows' \subseteq PushPages /\ screenDevice' = screenDevice
    BY <1>4, <2>1
  <2> QED
    BY <1>2, <2>1, <2>2, <2>3, <2>4, <2>5 DEF Moved
<1>11. CASE Screen(FALSE)!Throws(j)
  BY <1>11 DEF Screen!Throws
<1>12. CASE Screen(FALSE)!ReadDevice(j)
  <2> DEFINE at == IF screenDevice.active THEN "send" ELSE "done"
             f  == screenDevice.failures
             x  == [r EXCEPT !.at = at, !.failures = f]
  <2>1. screenJob' = [screenJob EXCEPT ![j] = x] /\ UNCHANGED <<screenRows, screenRate, screenDevice>>
    BY <1>12 DEF Screen!ReadDevice
  <2>2. at \in PushPoints /\ f \in Nat /\ (at = "send" => screenDevice.active = TRUE)
    BY DEF PushPoints, ScreenInv, ScreenTyped
  <2>3. AtWork(j)
    BY <1>12 DEF Screen!ReadDevice, AtWork
  <2> HIDE DEF at, f
  <2>4. x \in PushRows /\ x.at = at
    BY <1>1, <2>2 DEF PushRows
  <2> HIDE DEF x
  <2> QED
    BY <1>4, <2>1, <2>2, <2>3, <2>4, ScreenMoves DEF Moved
<1>13. CASE Screen(FALSE)!SendDevice(j)
  <2> DEFINE x == [r EXCEPT !.at = "done"]
  <2>1. screenJob' = [screenJob EXCEPT ![j] = x] /\ UNCHANGED <<screenRows, screenRate>>
    BY <1>13 DEF Screen!SendDevice
  <2>2. x \in PushRows /\ x.at = "done"
    BY <1>1 DEF PushRows, PushPoints
  <2>3. AtWork(j) /\ screenDevice.active = TRUE
    BY <1>13 DEF Screen!SendDevice, AtWork, ScreenInv, ScreenAlone
  <2>4. r.failures + 1 \in Nat /\ screenDevice.failures \in Nat
    BY <1>1 DEF PushRows, ScreenInv, ScreenTyped
  <2>5. screenDevice' \in [active: BOOLEAN, failures: Nat]
    <3>1. screenDevice \in [active: BOOLEAN, failures: Nat]
      BY DEF ScreenInv, ScreenTyped
    <3>2. \/ screenDevice' = screenDevice
          \/ screenDevice' = [screenDevice EXCEPT !.active = FALSE]
          \/ screenDevice' = [active |-> r.failures + 1 < MaxPushFailures, failures |-> r.failures + 1]
      BY <1>13 DEF Screen!SendDevice
    <3>3. CASE screenDevice' = [screenDevice EXCEPT !.active = FALSE] \/ screenDevice' = screenDevice
      BY <3>1, <3>3
    <3>4. CASE screenDevice' = [active |-> r.failures + 1 < MaxPushFailures, failures |-> r.failures + 1]
      <4> DEFINE k == r.failures + 1
                 b == k < MaxPushFailures
      <4>1. k \in Nat /\ b \in BOOLEAN
        BY <2>4
      <4>2. screenDevice' = [active |-> b, failures |-> k]
        BY <3>4
      <4> HIDE DEF k, b
      <4> QED
        BY <4>1, <4>2
    <3> QED
      BY <3>2, <3>3, <3>4
  <2> HIDE DEF x
  <2> QED
    BY <1>4, <2>1, <2>2, <2>3, <2>5, ScreenMoves DEF Moved
<1> QED
  BY <1>5, <1>6, <1>7, <1>9, <1>10, <1>11, <1>12, <1>13 DEF Moved, Screen!Step

LEMMA ScreenStep ==
  ASSUME ScreenInv, [Screen(FALSE)!Next]_screenVars
  PROVE  ScreenInv' /\ [Screen(FALSE)!OffUntilRegistered]_screenVars
<1> DEFINE Spared == ScreenInv' /\ (screenDevice.active = FALSE /\ screenDevice'.active = TRUE => screenDevice'.failures = 0)
<1>1. ASSUME UNCHANGED <<screenRows, screenRate, screenJob, screenDevice>> PROVE Spared
  BY <1>1 DEF ScreenInv, ScreenTyped, ScreenAlone, AtWork
<1>2. ASSUME DOMAIN screenRows' \subseteq PushPages, UNCHANGED <<screenRate, screenJob, screenDevice>> PROVE Spared
  BY <1>2 DEF ScreenInv, ScreenTyped, ScreenAlone, AtWork
<1>3. ASSUME NEW p \in PushPages, Screen(FALSE)!Look(p) \/ Screen(FALSE)!Create(p) \/ Screen(FALSE)!Unsubscribe(p) PROVE Spared
  <2>1. DOMAIN screenRows' \subseteq PushPages
    BY <1>3 DEF Screen!Look, Screen!Create, Screen!Unsubscribe, Screen!Without, ScreenInv, ScreenTyped
  <2>2. UNCHANGED <<screenRate, screenJob, screenDevice>>
    BY <1>3 DEF Screen!Look, Screen!Create, Screen!Unsubscribe
  <2> QED
    BY <1>2, <2>1, <2>2
<1>4. ASSUME NEW e \in PushEndpoints, Screen(FALSE)!Expire(e) PROVE Spared
  BY <1>1, <1>4 DEF Screen!Expire
<1>5. ASSUME Screen(FALSE)!Tick PROVE Spared
  BY <1>1, <1>5 DEF Screen!Tick
<1>6. ASSUME Screen(FALSE)!Register PROVE Spared
  <2>1. screenDevice' = [active |-> TRUE, failures |-> 0] /\ UNCHANGED <<screenRows, screenRate, screenJob>>
    BY <1>6 DEF Screen!Register
  <2> QED
    BY <2>1 DEF ScreenInv, ScreenTyped, ScreenAlone, AtWork
<1>7. ~Screen(FALSE)!SwitchOff
  BY DEF Screen!SwitchOff
<1>8. ASSUME NEW j \in PushJobs,
             Screen(FALSE)!Step(j) \/ Screen(FALSE)!Throws(j) \/ \E p \in PushPages : Screen(FALSE)!PushFails(j, p)
      PROVE  Spared
  BY <1>8, ScreenDelivers
<1>9. ASSUME Screen(FALSE)!Next PROVE Spared
  BY <1>3, <1>4, <1>5, <1>6, <1>7, <1>8, <1>9 DEF Screen!Next
<1>10. CASE UNCHANGED screenVars
  BY <1>1, <1>10 DEF screenVars
<1>11. CASE Screen(FALSE)!Next
  <2>1. ScreenInv' /\ screenDevice.active \in BOOLEAN /\ screenDevice'.active \in BOOLEAN
    BY <1>9, <1>11 DEF ScreenInv, ScreenTyped
  <2>2. screenDevice.active = FALSE /\ screenDevice'.active = TRUE => screenDevice'.failures = 0
    BY <1>9, <1>11
  <2> QED
    BY <2>1, <2>2 DEF Screen!OffUntilRegistered
<1> QED
  BY <1>10, <1>11
-----------------------------------------------------------------------------
(* What may be told at what time.                                            *)
SparedInv ==
  /\ under = "waitlist" => WaitInv
  /\ under = "news" => NewsTyped(MaxNews)
  /\ under = "news, steps fail" => NewsTyped(MaxFailingNews)
  /\ under = "screens" => ScreenInv

LEMMA NoticeTurns ==
  ASSUME [Next]_vars
  PROVE  /\ under = "news" => [News(FALSE, MaxNews)!Next]_newsVars
         /\ under = "news, steps fail" => [News(TRUE, MaxFailingNews)!Next]_newsVars
         /\ under = "screens" => [Screen(FALSE)!Next]_screenVars
BY DEF Next, Turn, NoticesNext, vars, noticeVars, NotNotice, NotBreaker, NotHook, NotFlow, NotWait, NotMail, NotInbox,
       NotSub, NotConnect, NotSync, NotRemind, NotImport, NotNews, NotScreen, NotDigest

(* However joining, leaving and cancellations interleave, nobody waits twice  *)
(* and who is notified of a day has waited longest for it; the owner's        *)
(* telephone does not ring by night, whatever fails, and one that was         *)
(* switched off as broken is not switched on but by registering: for any      *)
(* number of clients, days, cancellations, deliveries, tries and hours.      *)
THEOREM WaitlistIsFairAlways == Spec => WaitlistIsFair
<1>1. Init => SparedInv
  <2> SUFFICES ASSUME Init PROVE SparedInv
    OBVIOUS
  <2>1. Wait(FALSE)!Init \/ under # "waitlist"
    BY DEF Init, Start
  <2>2. /\ under = "news" => News(FALSE, MaxNews)!Init
        /\ under = "news, steps fail" => News(TRUE, MaxFailingNews)!Init
        /\ under = "screens" => Screen(FALSE)!Init
    BY DEF Init, Start, NoticesInit
  <2>3. MaxNews \in Nat /\ MaxFailingNews \in Nat
    BY NewsConstants
  <2> QED
    BY <2>1, <2>2, <2>3, WaitInit, NewsInit, ScreenInit DEF SparedInv
<1>2. SparedInv /\ [Next]_vars => SparedInv'
  <2> SUFFICES ASSUME SparedInv, [Next]_vars PROVE SparedInv'
    OBVIOUS
  <2>1. under' = under
    BY UnderStays
  <2>2. under = "waitlist" => WaitInv'
    BY WaitStep, WaitTurns DEF SparedInv
  <2>3. under = "news" => NewsTyped(MaxNews)'
    BY NewsStep, NewsConstants, NoticeTurns DEF SparedInv
  <2>4. under = "news, steps fail" => NewsTyped(MaxFailingNews)'
    BY NewsStep, NewsConstants, NoticeTurns DEF SparedInv
  <2>5. under = "screens" => ScreenInv'
    BY ScreenStep, NoticeTurns DEF SparedInv
  <2> QED
    BY <2>1, <2>2, <2>3, <2>4, <2>5 DEF SparedInv
<1>3. SparedInv => (under = "waitlist" => Wait(FALSE)!TypeOK /\ Wait(FALSE)!OneActivePerClient)
  BY WaitTells DEF SparedInv
<1>4. SparedInv => (under = "waitlist" => Wait(FALSE)!OldestOfDay)
  BY WaitMarksOldest DEF SparedInv
<1>5. SparedInv /\ [Next]_vars => [OwnerIsSpared]_vars
  <2> SUFFICES ASSUME SparedInv, Next PROVE OwnerIsSpared \/ UNCHANGED vars
    OBVIOUS
  <2>1. CASE under = "news"
    <3>1. [News(FALSE, MaxNews)!NotWoken]_newsVars
      BY <2>1, NewsStep, NewsConstants, NoticeTurns DEF SparedInv
    <3>2. newsVars' = newsVars => News(FALSE, MaxNews)!NotWoken
      BY DEF newsVars, News!NotWoken
    <3> QED
      BY <2>1, <3>1, <3>2 DEF OwnerIsSpared
  <2>2. CASE under = "news, steps fail"
    <3>1. [News(TRUE, MaxFailingNews)!NotWoken]_newsVars
      BY <2>2, NewsStep, NewsConstants, NoticeTurns DEF SparedInv
    <3>2. newsVars' = newsVars => News(TRUE, MaxFailingNews)!NotWoken
      BY DEF newsVars, News!NotWoken
    <3> QED
      BY <2>2, <3>1, <3>2 DEF OwnerIsSpared
  <2>3. CASE under = "screens"
    <3>1. [Screen(FALSE)!OffUntilRegistered]_screenVars
      BY <2>3, ScreenStep, NoticeTurns DEF SparedInv
    <3>2. screenVars' = screenVars => Screen(FALSE)!OffUntilRegistered
      BY DEF screenVars, Screen!OffUntilRegistered
    <3> QED
      BY <2>3, <3>1, <3>2 DEF OwnerIsSpared
  <2> QED
    BY <2>1, <2>2, <2>3 DEF OwnerIsSpared
<1> QED
  BY <1>1, <1>2, <1>3, <1>4, <1>5, PTL DEF Spec, WaitlistIsFair
=============================================================================
