--------------------------- MODULE CalendarMirror ---------------------------
(***************************************************************************)
(* The INBOUND rows of one calendar: a copy of its events at Google that    *)
(* availability treats as busy time.                                       *)
(*                                                                         *)
(* A sync reads the stored sync token, lists what changed since the token   *)
(* was given (everything, without one), writes the rows one event at a      *)
(* time, and stores the new token last.  Google may refuse an old token:    *)
(* the token is dropped and the sync starts over.  Syncs are started by the *)
(* half-hourly sweep, by a push notification and by hand, and may overlap.  *)
(***************************************************************************)
EXTENDS Integers, FiniteSets

CONSTANTS
  Events,
  Times,        \* times an event can have
  Syncs,        \* syncs that can run at once
  MaxChanges,   \* bound: changes made at Google
  Expires,      \* whether Google refuses old tokens
  MaxDeaths     \* bound: syncs that throw or whose process dies

CalendarMirrorAssumption ==
  /\ IsFiniteSet(Events) /\ Times \subseteq Nat /\ Syncs # {} /\ IsFiniteSet(Syncs)
  /\ {MaxChanges, MaxDeaths} \subseteq Nat /\ Expires \in BOOLEAN

VARIABLES
  google,    \* per event: its time; Gone: it was deleted or never was
  changed,   \* per event: the number of its last change
  now,       \* the number of the last change
  oldest,    \* the oldest token Google takes
  token,     \* the stored token: the change it was given after; NoToken
  rows,      \* INBOUND rows: set of [event, by, time], by: the sync that made it
  deaths,    \* how many syncs were cut short
  sync       \* per sync: [at, from, list, upto, item, row]

vars == <<google, changed, now, oldest, token, rows, deaths, sync>>

Gone == -1
NoToken == -1
Item == [event: Events, time: Times \cup {Gone}]
Idle == [at |-> "idle", from |-> NoToken, list |-> {}, upto |-> 0, item |-> {}, row |-> {}]
Rows == [event: Events, by: Syncs, time: Times]

TypeOK ==
  /\ google \in [Events -> Times \cup {Gone}] /\ changed \in [Events -> 0 .. MaxChanges]
  /\ now \in 0 .. MaxChanges /\ oldest \in 0 .. MaxChanges /\ token \in 0 .. MaxChanges \cup {NoToken}
  /\ rows \subseteq Rows /\ deaths \in 0 .. MaxDeaths
  /\ \A s \in Syncs :
       /\ sync[s].at \in {"idle", "read", "list", "apply", "create", "update"}
       /\ sync[s].from \in 0 .. MaxChanges \cup {NoToken} /\ sync[s].upto \in 0 .. MaxChanges
       /\ sync[s].list \subseteq Item /\ sync[s].item \subseteq Item /\ sync[s].row \subseteq Rows

Init ==
  /\ google \in [Events -> {Gone}] /\ changed = [e \in Events |-> 0] /\ now = 0
  /\ oldest = 0 /\ token = NoToken /\ rows = {} /\ deaths = 0 /\ sync = [s \in Syncs |-> Idle]

-----------------------------------------------------------------------------
(* Google.                                                                  *)

(* The owner makes, moves or deletes an event.                               *)
Change(e) ==
  /\ now < MaxChanges
  /\ \E t \in (Times \cup {Gone}) \ {google[e]} : google' = [google EXCEPT ![e] = t]
  /\ changed' = [changed EXCEPT ![e] = now + 1] /\ now' = now + 1
  /\ UNCHANGED <<oldest, token, rows, deaths, sync>>

Expire ==
  /\ Expires /\ oldest < now
  /\ oldest' = now
  /\ UNCHANGED <<google, changed, now, token, rows, deaths, sync>>

(* What events.list answers: a full list leaves out what was deleted.        *)
Listed(from) ==
  {[event |-> e, time |-> google[e]] :
     e \in {e \in Events : IF from = NoToken THEN google[e] # Gone ELSE changed[e] > from}}

-----------------------------------------------------------------------------
(* A sync.                                                                  *)

Becomes(s, state) == sync' = [sync EXCEPT ![s] = state]

Start(s) ==
  /\ sync[s].at = "idle"
  /\ Becomes(s, [Idle EXCEPT !.at = "read"])
  /\ UNCHANGED <<google, changed, now, oldest, token, rows, deaths>>

ReadToken(s) ==
  /\ sync[s].at = "read"
  /\ Becomes(s, [Idle EXCEPT !.at = "list", !.from = token])
  /\ UNCHANGED <<google, changed, now, oldest, token, rows, deaths>>

Refused(s) == sync[s].from # NoToken /\ sync[s].from < oldest

List(s) ==
  /\ sync[s].at = "list" /\ ~Refused(s)
  /\ Becomes(s, [sync[s] EXCEPT !.at = "apply", !.list = Listed(sync[s].from), !.upto = now])
  /\ UNCHANGED <<google, changed, now, oldest, token, rows, deaths>>

(* 410 Gone: the token is deleted, and the function calls itself.            *)
StartOver(s) ==
  /\ sync[s].at = "list" /\ Refused(s)
  /\ token' = NoToken
  /\ Becomes(s, [Idle EXCEPT !.at = "read"])
  /\ UNCHANGED <<google, changed, now, oldest, rows, deaths>>

RowsOf(e) == {r \in rows : r.event = e}

ApplyDeleted(s, i) ==
  /\ sync[s].at = "apply" /\ i \in sync[s].list /\ i.time = Gone
  /\ rows' = rows \ RowsOf(i.event)
  /\ Becomes(s, [sync[s] EXCEPT !.list = @ \ {i}])
  /\ UNCHANGED <<google, changed, now, oldest, token, deaths>>

(* findFirst, and then create or update.                                     *)
Find(s, i) ==
  /\ sync[s].at = "apply" /\ i \in sync[s].list /\ i.time # Gone
  /\ \/ RowsOf(i.event) = {} /\ Becomes(s, [sync[s] EXCEPT !.at = "create", !.item = {i}])
     \/ \E r \in RowsOf(i.event) :
          Becomes(s, [sync[s] EXCEPT !.at = "update", !.item = {i}, !.row = {r}])
  /\ UNCHANGED <<google, changed, now, oldest, token, rows, deaths>>

NextItem(s) == [sync[s] EXCEPT !.at = "apply", !.list = @ \ sync[s].item, !.item = {}, !.row = {}]

(* The row is the one found, whatever has happened to its time since.        *)
Update(s) ==
  /\ sync[s].at = "update"
  /\ \E i \in sync[s].item, r \in sync[s].row, q \in rows :
        /\ q.event = r.event /\ q.by = r.by
        /\ rows' = (rows \ {q}) \cup {[q EXCEPT !.time = i.time]}
  /\ Becomes(s, NextItem(s))
  /\ UNCHANGED <<google, changed, now, oldest, token, deaths>>

(* The row is gone: the update throws.                                       *)
UpdateFails(s) ==
  /\ sync[s].at = "update"
  /\ \A r \in sync[s].row, q \in rows : q.event # r.event \/ q.by # r.by
  /\ Becomes(s, Idle)
  /\ UNCHANGED <<google, changed, now, oldest, token, rows, deaths>>

Create(s) ==
  /\ sync[s].at = "create"
  /\ rows' = rows \cup {[event |-> i.event, by |-> s, time |-> i.time] : i \in sync[s].item}
  /\ Becomes(s, NextItem(s))
  /\ UNCHANGED <<google, changed, now, oldest, token, deaths>>

(* Broken: the token is stored before the events are written.                *)
SaveTokenFirst(s) ==
  /\ sync[s].at = "apply"
  /\ token' = sync[s].upto
  /\ IF sync[s].list = {} THEN Becomes(s, Idle) ELSE UNCHANGED sync
  /\ UNCHANGED <<google, changed, now, oldest, rows, deaths>>

SaveToken(s) ==
  /\ sync[s].at = "apply" /\ sync[s].list = {}
  /\ token' = sync[s].upto
  /\ Becomes(s, Idle)
  /\ UNCHANGED <<google, changed, now, oldest, rows, deaths>>

Die(s) ==
  /\ deaths < MaxDeaths /\ sync[s].at # "idle"
  /\ Becomes(s, Idle) /\ deaths' = deaths + 1
  /\ UNCHANGED <<google, changed, now, oldest, token, rows>>

Step(s) ==
  \/ Start(s) \/ ReadToken(s) \/ List(s) \/ StartOver(s)
  \/ \E i \in Item : ApplyDeleted(s, i) \/ Find(s, i)
  \/ Update(s) \/ UpdateFails(s) \/ Create(s) \/ SaveToken(s)

Next == \/ \E e \in Events : Change(e)
        \/ Expire
        \/ \E s \in Syncs : Step(s) \/ Die(s)

(* The sweep starts a sync every half hour, and it goes on while its process *)
(* lives.                                                                    *)
Spec == Init /\ [][Next]_vars /\ \A s \in Syncs : WF_vars(Step(s))

-----------------------------------------------------------------------------
Mirrored(e) ==
  IF google[e] = Gone THEN RowsOf(e) = {}
                      ELSE Cardinality(RowsOf(e)) = 1 /\ \A r \in RowsOf(e) : r.time = google[e]

(* One sync at a time, none cut short and no token refused: what changed      *)
(* before the stored token was given is in the rows.                         *)
TokenMeansMirrored ==
  token # NoToken => \A e \in Events : changed[e] <= token => Mirrored(e)

(* Wherever syncs are cut short, and also when tokens are refused, an event  *)
(* that is at Google has one row with its time.                              *)
ExistingAreMirrored ==
  token # NoToken => \A e \in Events : changed[e] <= token /\ google[e] # Gone => Mirrored(e)

(* Syncs that overlap make no more rows of an event than there are syncs.    *)
RowsBounded == \A e \in Events : Cardinality(RowsOf(e)) <= Cardinality(Syncs)

(* Syncs of one connection do not make two rows of one event.                *)
OneRowPerEvent == \A e \in Events : Cardinality(RowsOf(e)) <= 1
=============================================================================
