------------------------------ MODULE Waitlist ------------------------------
(***************************************************************************)
(* The waitlist of one service: clients join it from a booking session, and  *)
(* the listener of a cancelled booking notifies the first entry that wants    *)
(* the day, or failing that the first entry.                                 *)
(*                                                                         *)
(* Joining is a look and an insert, notifying a look (or two), an update and *)
(* an email, each a statement of its own.                                    *)
(***************************************************************************)
EXTENDS Naturals, FiniteSets, FiniteSetsExt

CONSTANTS
  Clients,      \* clients that join
  Days,         \* days a client can prefer and a booking can be on; 0: no preference
  Joins,        \* requests to join that can be under way at once
  Handlers,     \* cancellations that can be handled at once
  MaxEntries,   \* bound: entries made
  Removals,     \* whether staff remove entries
  Users         \* identifiers of rows of users; an entry's is none of them

WaitlistAssumption ==
  /\ \A S \in {Clients, Days, Joins, Handlers} : IsFiniteSet(S)
  /\ Clients # {} /\ Days \subseteq Nat \ {0} /\ MaxEntries \in Nat
  /\ Removals \in BOOLEAN /\ Users \cap (1 .. MaxEntries) = {}

VARIABLES
  entries,   \* the rows: set of [id, client, day, status]; ids in the order made
  made,      \* how many entries have been made
  join,      \* per request to join: [at, client, day]
  hand,      \* per handler: [at, day, entry]
  mailed     \* entries whose client has been sent the email

vars == <<entries, made, join, hand, mailed>>

Ids     == 1 .. MaxEntries
NoJoin  == [at |-> "idle", client |-> CHOOSE c \in Clients : TRUE, day |-> 0]
NoSlot  == [at |-> "idle", day |-> 0, entry |-> 0]

TypeOK ==
  /\ entries \subseteq [id: Ids, client: Clients, day: Days \cup {0}, status: {"ACTIVE", "NOTIFIED"}]
  /\ made \in 0 .. MaxEntries /\ mailed \subseteq Ids
  /\ join \in [Joins -> [at: {"idle", "create"}, client: Clients, day: Days \cup {0}]]
  /\ hand \in [Handlers -> [at: {"idle", "dated", "general", "mark", "mail"},
                            day: Days \cup {0}, entry: Ids \cup {0}]]

Init ==
  /\ entries = {} /\ made = 0 /\ mailed = {}
  /\ join = [j \in Joins |-> NoJoin] /\ hand = [h \in Handlers |-> NoSlot]

Active == {e \in entries : e.status = "ACTIVE"}
Oldest(S) == Min({e.id : e \in S})

-----------------------------------------------------------------------------
(* createFromSession.                                                        *)

(* A client with an active entry is given that one.                          *)
Look(j) ==
  /\ join[j].at = "idle"
  /\ \E c \in Clients, d \in Days \cup {0} :
       /\ \A e \in Active : e.client # c
       /\ join' = [join EXCEPT ![j] = [at |-> "create", client |-> c, day |-> d]]
  /\ UNCHANGED <<entries, made, hand, mailed>>

Create(j) ==
  /\ join[j].at = "create" /\ made < MaxEntries
  /\ entries' = entries \cup {[id |-> made + 1, client |-> join[j].client,
                               day |-> join[j].day, status |-> "ACTIVE"]}
  /\ made' = made + 1
  /\ join' = [join EXCEPT ![j] = NoJoin]
  /\ UNCHANGED <<hand, mailed>>

remove ==
  /\ Removals
  /\ \E e \in entries : entries' = entries \ {e}
  /\ UNCHANGED <<made, join, hand, mailed>>

-----------------------------------------------------------------------------
(* handleBookingCancelled.                                                   *)

Goto(h, at) == hand' = [hand EXCEPT ![h].at = at]
Done(h)     == hand' = [hand EXCEPT ![h] = NoSlot]

BookingCancelled(h) ==
  /\ hand[h].at = "idle"
  /\ \E d \in Days : hand' = [hand EXCEPT ![h] = [at |-> "dated", day |-> d, entry |-> 0]]
  /\ UNCHANGED <<entries, made, join, mailed>>

Pick(h, S) == hand' = [hand EXCEPT ![h].at = "mark", ![h].entry = Oldest(S)]

(* Broken: newest first.                                                     *)
FindDatedNewest(h) ==
  LET dated == {e \in Active : e.day = hand[h].day}
  IN  /\ hand[h].at = "dated"
      /\ IF dated = {} THEN Goto(h, "general")
         ELSE hand' = [hand EXCEPT ![h].at = "mark", ![h].entry = Max({e.id : e \in dated})]
      /\ UNCHANGED <<entries, made, join, mailed>>

FindDated(h) ==
  LET dated == {e \in Active : e.day = hand[h].day}
  IN  /\ hand[h].at = "dated"
      /\ IF dated # {} THEN Pick(h, dated) ELSE Goto(h, "general")
      /\ UNCHANGED <<entries, made, join, mailed>>

(* Without a day the query returns every active entry, whatever its day.     *)
FindGeneral(h) ==
  /\ hand[h].at = "general"
  /\ IF Active # {} THEN Pick(h, Active) ELSE Done(h)
  /\ UNCHANGED <<entries, made, join, mailed>>

Mine(h) == {e \in entries : e.id = hand[h].entry}

(* An entry that has been removed meanwhile throws, and the slot is given up. *)
markNotified(h) ==
  /\ hand[h].at = "mark"
  /\ entries' = (entries \ Mine(h)) \cup {[e EXCEPT !.status = "NOTIFIED"] : e \in Mine(h)}
  /\ IF Mine(h) # {} THEN Goto(h, "mail") ELSE Done(h)
  /\ UNCHANGED <<made, join, mailed>>

(* createAndSend inserts a row whose recipient is the entry; the column      *)
(* refers to users, and what it throws is logged.                            *)
Mail(h) ==
  /\ hand[h].at = "mail"
  /\ mailed' = mailed \cup ({hand[h].entry} \cap Users)
  /\ Done(h)
  /\ UNCHANGED <<entries, made, join>>

Handler(h) == FindDated(h) \/ FindGeneral(h) \/ markNotified(h) \/ Mail(h)
Next == \/ \E j \in Joins : Look(j) \/ Create(j)
        \/ remove
        \/ \E h \in Handlers : BookingCancelled(h) \/ Handler(h)
Spec == Init /\ [][Next]_vars /\ \A h \in Handlers : WF_vars(Handler(h))

-----------------------------------------------------------------------------
(* One request to join at a time: "return existing active entry for same      *)
(* client + service".                                                        *)
OneActivePerClient == \A e, f \in Active : e.client = f.client => e = f

(* However joining, leaving and cancellations interleave, who is notified     *)
(* about a day has waited longest of those who asked for that day.           *)
OldestOfDay ==
  \A h \in Handlers : hand[h].at = "mark" /\ hand'[h].at = "mail" =>
    ~\E e \in Active : e.day = hand[h].day /\ e.id < hand[h].entry

NobodyOvertaken == [][OldestOfDay]_vars

(* One cancellation at a time: while somebody waits, the slot makes an active *)
(* entry a notified one.                                                     *)
SlotReachesSomeone ==
  \A n \in 0 .. MaxEntries, h \in Handlers :
    (hand[h].at = "dated" /\ Active # {} /\ Cardinality(entries \ Active) = n)
      ~> (Cardinality(entries \ Active) > n)

(* "Fall back to general waitlist entries (no date preference)".             *)
GeneralHasNoDay ==
  [][\A h \in Handlers : hand[h].at = "general" /\ hand'[h].at = "mark" =>
       \A e \in entries : e.id = hand'[h].entry => e.day = 0]_vars

(* "should notify the first date-specific match": who is notified is mailed. *)
NotifiedIsMailed ==
  (\A h \in Handlers : hand[h].at = "idle") =>
    \A e \in entries : e.status = "NOTIFIED" => e.id \in mailed
=============================================================================
