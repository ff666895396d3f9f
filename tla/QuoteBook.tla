----------------------------- MODULE QuoteBook -----------------------------
(***************************************************************************)
(* The quotes of one booking: versions, line items and totals.              *)
(*                                                                         *)
(* A handler reads the quote, checks its status, and writes in a later      *)
(* statement; an edit of the items is four statements (status, item, all    *)
(* items, totals) outside a transaction.  Only the staff's acceptance locks  *)
(* the row.                                                                 *)
(***************************************************************************)
EXTENDS Naturals, FiniteSets, FiniteSetsExt

CONSTANTS
  Requests,     \* requests that can be under way at once
  MaxVersions,  \* bound: versions of the quote
  MaxItems,     \* bound: line items created
  Prices,       \* totals a line item can have
  MaxDeaths     \* bound: requests that die between two statements

QuoteBookAssumption ==
  /\ IsFiniteSet(Requests) /\ Prices \subseteq Nat
  /\ MaxVersions \in Nat \ {0} /\ {MaxItems, MaxDeaths} \subseteq Nat

VARIABLES
  quotes,   \* per version: [status, total, items]; "none" until created
  req,      \* per request: [at, op, q, item, copy], copy: what it has read
  made,     \* how many items have been created
  deaths    \* how many requests have died

vars == <<quotes, req, made, deaths>>

Versions == 1 .. MaxVersions
Items    == [id: 1 .. MaxItems, price: Prices]
NoQuote  == [status |-> "none", total |-> 0, items |-> {}]
Idle     == [at |-> "idle", op |-> "none", q |-> 1, item |-> 0, copy |-> NoQuote]

recalculateTotals(items) == MapThenSumSet(LAMBDA i : i.price, items)

Quote  == [status: {"none", "DRAFT", "SENT", "ACCEPTED", "REJECTED"}, total: Nat,
           items: SUBSET Items]
TypeOK ==
  /\ quotes \in [Versions -> Quote]
  /\ \A r \in Requests :
       /\ req[r].at \in {"idle", "item", "all", "totals", "write"} /\ req[r].q \in Versions
       /\ req[r].op \in {"none", "add", "change", "delete", "send", "reject", "accept", "revise"}
       /\ req[r].item \in 0 .. MaxItems /\ req[r].copy \in Quote
  /\ made \in 0 .. MaxItems /\ deaths \in 0 .. MaxDeaths

Init ==
  /\ quotes = [v \in Versions |-> NoQuote] /\ made = 0 /\ deaths = 0
  /\ req = [r \in Requests |-> Idle]

-----------------------------------------------------------------------------
(* createQuote makes version 1; (booking, version) is unique.  A quote may    *)
(* be created without items, which are then added.                           *)
createQuote ==
  /\ quotes[1].status = "none"
  /\ quotes' = [quotes EXCEPT ![1].status = "DRAFT"]
  /\ UNCHANGED <<req, made, deaths>>

Status(q) == quotes[q].status
SetStatus(q, s) == quotes' = [quotes EXCEPT ![q].status = s]
Over(r) == req' = [req EXCEPT ![r] = Idle]

(* The first statement of a handler: the quote is read and its status        *)
(* checked; a request that is refused changes nothing.                       *)
Begin(r, op, q, item, at) ==
  /\ req[r].at = "idle"
  /\ req' = [req EXCEPT ![r] = [at |-> at, op |-> op, q |-> q, item |-> item, 
                                copy |-> IF op = "revise" THEN quotes[q] ELSE NoQuote]]
  /\ UNCHANGED <<quotes, made, deaths>>

(* Broken: only updateQuote looks at the status.                             *)
EditAnyItem(r) ==
  \E q \in Versions :
    /\ Status(q) # "none"
    /\ \/ /\ made + Cardinality({x \in Requests : req[x].op = "add" /\ req[x].at = "item"}) < MaxItems
          /\ Begin(r, "add", q, 0, "item")
       \/ \E i \in quotes[q].items, op \in {"change", "delete"} : Begin(r, op, q, i.id, "item")

EditItem(r) ==
  \E q \in Versions :
    /\ Status(q) = "DRAFT"
    /\ \/ /\ made + Cardinality({x \in Requests : req[x].op = "add" /\ req[x].at = "item"}) < MaxItems
          /\ Begin(r, "add", q, 0, "item")
       \/ \E i \in quotes[q].items, op \in {"change", "delete"} : Begin(r, op, q, i.id, "item")

Send(r)   == \E q \in Versions : Status(q) = "DRAFT" /\ Begin(r, "send", q, 0, "write")
Reject(r) == \E q \in Versions : Status(q) = "SENT" /\ Begin(r, "reject", q, 0, "write")
Revise(r) ==
  \E q \in Versions \ {MaxVersions} : Status(q) \in {"SENT", "REJECTED"} /\ Begin(r, "revise", q, 0, "write")

(* The client's acceptance in the portal; its valid-until check is left out. *)
PortalAccept(r) ==
  \E q \in Versions : Status(q) = "SENT" /\ Begin(r, "accept", q, 0, "write")

(* The staff's acceptance: SELECT ... FOR UPDATE, check and update.          *)
acceptQuote ==
  /\ \E q \in Versions : Status(q) = "SENT" /\ SetStatus(q, "ACCEPTED")
  /\ UNCHANGED <<req, made, deaths>>

-----------------------------------------------------------------------------
(* The item of an edit.  An item another request has deleted meanwhile makes *)
(* the statement throw.                                                      *)
WriteItem(r) ==
  LET q     == req[r].q
      mine  == {i \in quotes[q].items : i.id = req[r].item}
      becomes(items) == /\ quotes' = [quotes EXCEPT ![q].items = items]
                        /\ req' = [req EXCEPT ![r].at = "all"]
  IN  /\ req[r].at = "item"
      /\ \/ /\ req[r].op = "add"
            /\ \E p \in Prices : becomes(quotes[q].items \cup {[id |-> made + 1, price |-> p]})
            /\ made' = made + 1
         \/ /\ req[r].op = "change" /\ mine # {}
            /\ \E p \in Prices :
                 becomes((quotes[q].items \ mine) \cup {[id |-> req[r].item, price |-> p]})
            /\ UNCHANGED made
         \/ /\ req[r].op = "delete" /\ mine # {} /\ becomes(quotes[q].items \ mine)
            /\ UNCHANGED made
         \/ /\ req[r].op # "add" /\ mine = {}
            /\ Over(r) /\ UNCHANGED <<quotes, made>>
      /\ UNCHANGED deaths

ReadItems(r) ==
  /\ req[r].at = "all"
  /\ req' = [req EXCEPT ![r].at = "totals", ![r].copy = quotes[req[r].q]]
  /\ UNCHANGED <<quotes, made, deaths>>

WriteTotals(r) ==
  /\ req[r].at = "totals"
  /\ quotes' = [quotes EXCEPT ![req[r].q].total = recalculateTotals(req[r].copy.items)]
  /\ Over(r)
  /\ UNCHANGED <<made, deaths>>

(* sendQuote, rejectQuote and the portal's acceptQuote do not look again.    *)
WriteStatus(r) ==
  /\ req[r].at = "write" /\ req[r].op \in {"send", "reject", "accept"}
  /\ SetStatus(req[r].q, CASE req[r].op = "send" -> "SENT" [] req[r].op = "reject" -> "REJECTED"
                           [] OTHER -> "ACCEPTED")
  /\ Over(r)
  /\ UNCHANGED <<made, deaths>>

(* The copy is inserted as the original's version plus one, or refused by    *)
(* the unique index.                                                         *)
CreateRevision(r) ==
  LET v == req[r].q + 1
  IN  /\ req[r].at = "write" /\ req[r].op = "revise"
      /\ quotes' = IF quotes[v].status = "none"
                     THEN [quotes EXCEPT ![v] = [req[r].copy EXCEPT !.status = "DRAFT"]] ELSE quotes
      /\ Over(r)
      /\ UNCHANGED <<made, deaths>>

Die(r) ==
  /\ req[r].at # "idle" /\ deaths < MaxDeaths
  /\ Over(r) /\ deaths' = deaths + 1
  /\ UNCHANGED <<quotes, made>>

Request(r) ==
  \/ EditItem(r) \/ Send(r) \/ Reject(r) \/ Revise(r) \/ PortalAccept(r)
  \/ WriteItem(r) \/ ReadItems(r) \/ WriteTotals(r) \/ WriteStatus(r) \/ CreateRevision(r) \/ Die(r)
Next == createQuote \/ acceptQuote \/ \E r \in Requests : Request(r)
Spec == Init /\ [][Next]_vars

-----------------------------------------------------------------------------
Quiet == \A r \in Requests : req[r].at = "idle"
TotalOf(q) == recalculateTotals(quotes[q].items)

(* "should add line item and recalculate totals": when no edit is under way  *)
(* the total is that of the items.                                           *)
TotalIsSum == Quiet => \A q \in Versions : quotes[q].total = TotalOf(q)

(* One request at a time: whatever an edit that died has left, the next one   *)
(* that writes totals leaves the right ones, in revisions too.               *)
Repairs ==
  \A q \in Versions : quotes[q].status = "DRAFT" /\ quotes'[q].total # quotes[q].total
    => quotes'[q].total = TotalOf(q)'

(* However the requests interleave, the versions are consecutive.            *)
VersionsAreConsecutive ==
  \A v \in Versions \ {1} : quotes[v].status # "none" => quotes[v - 1].status \notin {"none", "DRAFT"}

(* The items and the total of a quote that has been sent stay as they are.   *)
Frozen ==
  \A q \in Versions : quotes[q].status \notin {"none", "DRAFT"} =>
    quotes'[q].items = quotes[q].items /\ quotes'[q].total = quotes[q].total

SentIsFrozen == [][Frozen]_quotes

(* An accepted quote stays accepted.                                         *)
AcceptedStays ==
  [][\A q \in Versions : quotes[q].status = "ACCEPTED" => quotes'[q].status = "ACCEPTED"]_quotes
=============================================================================
