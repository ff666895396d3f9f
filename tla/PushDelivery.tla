------------------------------ MODULE PushDelivery ------------------------------
(***************************************************************************)
(* Notifications on the screens of one user: the browsers that subscribed, *)
(* rows of browser_push_subscriptions, with an hourly limit that is kept in *)
(* the key-value store; and a telephone, a row of device_push_tokens, that  *)
(* is switched off when it fails too often.                                *)
(*                                                                         *)
(* A delivery is a job of the booking listener, that Inngest runs again     *)
(* when it throws, or an automation's SEND_PUSH, that logs what fails and   *)
(* goes on to the telephone.  (Jobs are put off at night as in EventNews.)  *)
(***************************************************************************)
EXTENDS Naturals, Sequences, FiniteSets, FiniteSetsExt

CONSTANTS
  Jobs,         \* deliveries
  ByListener,   \* those of the listener
  Pages,        \* requests to subscribe
  Endpoints,    \* browsers
  Limit,        \* MAX_PUSHES_PER_HOUR
  Hour,         \* RATE_LIMIT_TTL_SECONDS, in ticks
  MaxFailures,  \* MAX_FAILURE_COUNT
  Tries,        \* attempts that Inngest makes
  Faults,       \* whether statements fail
  AtOnce,       \* whether deliveries overlap
  UserActs,     \* whether the user switches the telephone off
  MaxTime       \* bound: ticks

PushAssumption ==
  /\ ByListener \subseteq Jobs /\ IsFiniteSet(Pages) /\ {Limit, Hour, MaxFailures, Tries} \subseteq Nat \ {0}
  /\ {Faults, AtOnce, UserActs} \subseteq BOOLEAN /\ MaxTime \in Nat

VARIABLES
  now,
  rows,      \* subscriptions: per request that made one, its endpoint
  page,      \* per request: [at, endpoint]
  gone,      \* endpoints that the push service answers 410 for
  rate,      \* the counter: [n, until]; there is none after until
  job,       \* per delivery: [at, count, left, sent, tries, device]; device: as it was read
  pushed,    \* history: notifications shown, by tick
  device     \* the telephone's row: [active, failures]

vars == <<now, rows, page, gone, rate, job, pushed, device>>

NoJob == [at |-> "new", count |-> 0, left |-> {}, sent |-> 0, tries |-> 0, failures |-> 0]

TypeOK ==
  /\ now \in 0 .. MaxTime /\ gone \subseteq Endpoints /\ DOMAIN rows \subseteq Pages
  /\ \A r \in DOMAIN rows : rows[r] \in Endpoints
  /\ page \in [Pages -> [at: {"new", "create", "done"}, endpoint: Endpoints]]
  /\ rate \in [n: Nat, until: Nat] /\ pushed \in [0 .. MaxTime -> Nat]
  /\ job \in [Jobs -> [at: {"new", "rate", "rows", "push", "touch", "count", "device", "send", "done"},
                       count: Nat, left: SUBSET Pages, sent: Nat, tries: 0 .. Tries, failures: Nat]]
  /\ device \in [active: BOOLEAN, failures: 0 .. MaxFailures]

Init ==
  /\ now = 0 /\ rows = <<>> /\ gone = {}
  /\ page \in [Pages -> [at: {"new"}, endpoint: Endpoints]]
  /\ rate = [n |-> 0, until |-> 0] /\ job = [j \in Jobs |-> NoJob]
  /\ pushed = [t \in 0 .. MaxTime |-> 0] /\ device = [active |-> TRUE, failures |-> 0]

-----------------------------------------------------------------------------
(* Browsers.                                                                 *)

Look(p) ==
  /\ page[p].at = "new"
  /\ page' = [page EXCEPT ![p].at = IF \E r \in DOMAIN rows : rows[r] = page[p].endpoint THEN "done" ELSE "create"]
  /\ UNCHANGED <<now, rows, gone, rate, job, pushed, device>>

Create(p) ==
  /\ page[p].at = "create" /\ page' = [page EXCEPT ![p].at = "done"]
  /\ rows' = [r \in DOMAIN rows \cup {p} |-> IF r = p THEN page[p].endpoint ELSE rows[r]]
  /\ UNCHANGED <<now, gone, rate, job, pushed, device>>

Without(p) == [r \in DOMAIN rows \ {p} |-> rows[r]]

Unsubscribe(p) ==
  /\ UserActs /\ p \in DOMAIN rows /\ rows' = Without(p)
  /\ UNCHANGED <<now, page, gone, rate, job, pushed, device>>

Expire(e) ==
  /\ e \notin gone /\ gone' = gone \cup {e}
  /\ UNCHANGED <<now, rows, page, rate, job, pushed, device>>

Tick == now < MaxTime /\ now' = now + 1 /\ UNCHANGED <<rows, page, gone, rate, job, pushed, device>>

-----------------------------------------------------------------------------
(* A delivery.                                                               *)

Busy(j)  == job[j].at \notin {"new", "done"}
Count    == IF now < rate.until THEN rate.n ELSE 0
AfterBrowsers(j) == IF j \in ByListener THEN "done" ELSE "device"

Begin(j) ==
  /\ job[j].at = "new" /\ (AtOnce \/ \A i \in Jobs : ~Busy(i))
  /\ job' = [job EXCEPT ![j].at = "rate"]
  /\ UNCHANGED <<now, rows, page, gone, rate, pushed, device>>

ReadRate(j) ==
  /\ job[j].at = "rate"
  /\ job' = [job EXCEPT ![j].count = Count, ![j].at = IF Count >= Limit THEN AfterBrowsers(j) ELSE "rows"]
  /\ UNCHANGED <<now, rows, page, gone, rate, pushed, device>>

ReadRows(j) ==
  /\ job[j].at = "rows"
  /\ job' = [job EXCEPT ![j].left = DOMAIN rows, ![j].sent = 0, ![j].at = IF rows = <<>> THEN AfterBrowsers(j) ELSE "push"]
  /\ UNCHANGED <<now, rows, page, gone, rate, pushed, device>>

(* After the last browser what was sent is counted.                          *)
Onward(j, left, sent) ==
  job' = [job EXCEPT ![j].left = left, ![j].sent = sent,
            ![j].at = IF left # {} THEN "push" ELSE IF sent > 0 THEN "count" ELSE AfterBrowsers(j)]

(* The endpoint of a row: known from the list, even if the row is gone.      *)
PushGone(j, p) ==
  /\ job[j].at = "push" /\ p \in job[j].left /\ page[p].endpoint \in gone
  /\ rows' = Without(p) /\ Onward(j, job[j].left \ {p}, job[j].sent)
  /\ UNCHANGED <<now, page, gone, rate, pushed, device>>

Push(j, p) ==
  /\ job[j].at = "push" /\ p \in job[j].left /\ page[p].endpoint \notin gone
  /\ pushed' = [pushed EXCEPT ![now] = @ + 1]
  /\ IF p \in DOMAIN rows
       THEN Onward(j, job[j].left \ {p}, job[j].sent + 1)
       ELSE Onward(j, job[j].left \ {p}, job[j].sent)     \* the row's update fails
  /\ UNCHANGED <<now, rows, page, gone, rate, device>>

(* Any other answer of the push service is logged.                           *)
PushFails(j, p) ==
  /\ Faults /\ job[j].at = "push" /\ p \in job[j].left
  /\ Onward(j, job[j].left \ {p}, job[j].sent)
  /\ UNCHANGED <<now, rows, page, gone, rate, pushed, device>>

(* The count that was read, and what was sent since; the hour begins anew.   *)
SetRate(j) ==
  /\ job[j].at = "count" /\ job' = [job EXCEPT ![j].at = AfterBrowsers(j)]
  /\ rate' = [n |-> job[j].count + job[j].sent, until |-> now + Hour]
  /\ UNCHANGED <<now, rows, page, gone, pushed, device>>

Throws(j) ==
  /\ Faults /\ job[j].at \in {"rate", "rows", "count"}
  /\ job' = [job EXCEPT ![j] =
       IF j \notin ByListener THEN [NoJob EXCEPT !.at = "device"]
       ELSE [NoJob EXCEPT !.at = IF job[j].tries + 1 < Tries THEN "new" ELSE "done", !.tries = job[j].tries + 1]]
  /\ UNCHANGED <<now, rows, page, gone, rate, pushed, device>>

-----------------------------------------------------------------------------
(* The telephone.                                                            *)

ReadDevice(j) ==
  /\ job[j].at = "device"
  /\ job' = [job EXCEPT ![j].at = IF device.active THEN "send" ELSE "done", ![j].failures = device.failures]
  /\ UNCHANGED <<now, rows, page, gone, rate, pushed, device>>

(* Expo takes it, does not know the telephone, or fails.                     *)
SendDevice(j) ==
  /\ job[j].at = "send" /\ job' = [job EXCEPT ![j].at = "done"]
  /\ \/ UNCHANGED device
     \/ device' = [device EXCEPT !.active = FALSE]
     \/ device' = [active |-> job[j].failures + 1 < MaxFailures, failures |-> job[j].failures + 1]
  /\ UNCHANGED <<now, rows, page, gone, rate, pushed>>

Register ==
  /\ device' = [active |-> TRUE, failures |-> 0] /\ device' # device
  /\ UNCHANGED <<now, rows, page, gone, rate, job, pushed>>

SwitchOff ==
  /\ UserActs /\ device.active /\ device' = [device EXCEPT !.active = FALSE]
  /\ UNCHANGED <<now, rows, page, gone, rate, job, pushed>>

Step(j) ==
  \/ Begin(j) \/ ReadRate(j) \/ ReadRows(j) \/ SetRate(j) \/ ReadDevice(j) \/ SendDevice(j)
  \/ \E p \in Pages : Push(j, p) \/ PushGone(j, p)

Next ==
  \/ \E p \in Pages : Look(p) \/ Create(p) \/ Unsubscribe(p)
  \/ \E e \in Endpoints : Expire(e)
  \/ Tick \/ Register \/ SwitchOff
  \/ \E j \in Jobs : Step(j) \/ Throws(j) \/ \E p \in Pages : PushFails(j, p)

Spec == Init /\ [][Next]_vars

-----------------------------------------------------------------------------
Within(t) == FoldSet(LAMBDA u, n : pushed[u] + n, 0, {u \in 0 .. MaxTime : t <= u /\ u < t + Hour})

(* Deliveries one after the other keep within the limit in any hour, but for *)
(* a user's other browsers, which the last one allowed still reaches.        *)
WithinLimit ==
  ~AtOnce /\ ~Faults /\ ~UserActs => \A t \in 0 .. MaxTime : Within(t) <= Limit - 1 + Cardinality(Pages)

(* A telephone that failed too often, or is unknown, is not tried again      *)
(* until it registers.                                                       *)
OffUntilRegistered ==
  ~AtOnce /\ ~UserActs /\ ~device.active /\ device'.active => device'.failures = 0

BrokenIsOff == device.failures >= MaxFailures => ~device.active

-----------------------------------------------------------------------------
\* Not kept by the code: README.md, "Divergences".

(* "Rate-limits push notifications to 5 per user per hour via Redis"         *)
(* (browser-push.service.ts:29).                                             *)
LimitedPerHour == \A t \in 0 .. MaxTime : Within(t) <= Limit

(* "Check for existing subscription with same endpoint to avoid duplicates"  *)
(* (browser-push.service.ts:67).                                             *)
OneRowPerBrowser == \A p, q \in DOMAIN rows : rows[p] = rows[q] => p = q
=============================================================================
