--------------------------- MODULE AccountingSync ---------------------------
(***************************************************************************)
(* The connection of one tenant to QuickBooks or Xero, and the jobs that post  *)
(* its invoices, payments and clients there.  Inngest runs the jobs at once    *)
(* and runs one again that throws.                                           *)
(***************************************************************************)
EXTENDS Naturals, Sequences, FiniteSets

CONSTANTS
  Provider,    \* "QUICKBOOKS" or "XERO"
  Decrypts,    \* FALSE: getTokensFromConnection returns what is stored
  Requests,    \* presses of "sync"
  Batch,       \* 50 invoices or payments, 100 clients
  MaxDocs,     \* bound: rows of the tenant
  Retries      \* attempts of Inngest after the first

Kinds == {"INVOICE", "PAYMENT", "CLIENT", "ONE"}    \* ONE: a single invoice

AccountingAssumption ==
  /\ Provider \in {"QUICKBOOKS", "XERO"} /\ Decrypts \in BOOLEAN
  /\ Batch \in Nat \ {0} /\ MaxDocs \in Nat /\ Retries \in Nat /\ IsFiniteSet(Requests)

VARIABLES
  status,    \* accounting_connections.status
  stored,    \* ... access_token and refresh_token: "none" or "cipher"
  expired,   \* ... token_expires_at is past
  synced,    \* ... last_synced_at is set
  rows,      \* the kinds of the tenant's rows, in the order they were made
  posted,    \* how often the provider has each
  job        \* [at, tries, token, listed, left] of each kind of each request

connVars == <<status, stored, expired, synced>>
vars == <<connVars, rows, posted, job>>

Docs == 1 .. MaxDocs
Away == [at |-> "none", tries |-> 0, token |-> "none", listed |-> {}, left |-> {}]
Jobs == Requests \X Kinds

TypeOK ==
  /\ status \in {"NONE", "ACTIVE", "ERROR", "DISCONNECTED"}
  /\ stored \in {"none", "cipher"} /\ expired \in BOOLEAN /\ synced \in BOOLEAN
  /\ rows \in Seq({"INVOICE", "PAYMENT", "CLIENT"}) /\ Len(rows) <= MaxDocs
  /\ posted \in [Docs -> Nat]
  /\ job \in [Jobs -> [at : {"none", "queued", "refresh", "keep", "list", "post", "stamp", "catch", "done"},
                       tries : 0 .. Retries, token : {"none", "cipher", "plain"},
                       listed : SUBSET Docs, left : SUBSET Docs]]

Init ==
  /\ status = "NONE" /\ stored = "none" /\ expired = FALSE /\ synced = FALSE
  /\ rows = <<>> /\ posted = [d \in Docs |-> 0]
  /\ job = [j \in Jobs |-> Away]

Put(j, local)   == job' = [job EXCEPT ![j] = local]
Goto(j, point)  == job' = [job EXCEPT ![j].at = point]
Loop(j, docs)   == Put(j, [job[j] EXCEPT !.at = "post", !.listed = docs, !.left = docs])
Newest(kind, n) ==
  LET ofKind == {d \in 1 .. Len(rows) : rows[d] = kind}
  IN {d \in ofKind : Cardinality({x \in ofKind : x > d}) < n}

-----------------------------------------------------------------------------
handleCallback ==
  /\ status' = "ACTIVE" /\ stored' = "cipher" /\ expired' = FALSE
  /\ UNCHANGED <<synced, rows, posted, job>>

disconnect ==
  /\ status # "NONE"
  /\ status' = "DISCONNECTED" /\ stored' = "none" /\ expired' = FALSE
  /\ UNCHANGED <<synced, rows, posted, job>>

triggerSync(r, kinds) ==
  /\ status = "ACTIVE"
  /\ \A k \in Kinds : job[<<r, k>>] = Away
  /\ job' = [j \in Jobs |-> IF j[1] = r /\ j[2] \in kinds THEN [Away EXCEPT !.at = "queued"] ELSE job[j]]
  /\ UNCHANGED <<connVars, rows, posted>>

syncSingleInvoice(r, d) ==
  /\ status = "ACTIVE"
  /\ d \in Newest("INVOICE", MaxDocs) /\ \A k \in Kinds : job[<<r, k>>] = Away
  /\ Put(<<r, "ONE">>, [Away EXCEPT !.at = "queued", !.listed = {d}])
  /\ UNCHANGED <<connVars, rows, posted>>

Add(kind) ==
  /\ Len(rows) < MaxDocs
  /\ rows' = Append(rows, kind)
  /\ UNCHANGED <<connVars, posted, job>>

Expire ==
  /\ stored # "none" /\ ~expired /\ expired' = TRUE
  /\ UNCHANGED <<status, stored, synced, rows, posted, job>>

-----------------------------------------------------------------------------
getTokensFromConnection == IF Decrypts /\ stored = "cipher" THEN "plain" ELSE stored

(* A handler reads the connection if it is active ...                          *)
JobReads(j) ==
  /\ job[j].at = "queued"
  /\ Put(j, IF status # "ACTIVE" THEN [job[j] EXCEPT !.at = "done"]
            ELSE [job[j] EXCEPT !.at = IF expired THEN "refresh" ELSE "list", !.token = getTokensFromConnection])
  /\ UNCHANGED <<connVars, rows, posted>>

(* ... exchanges the tokens, which may be refused ...                          *)
RefreshToken(j) ==
  /\ job[j].at = "refresh"
  /\ Goto(j, IF job[j].token = "plain" THEN "keep" ELSE "catch")
  /\ UNCHANGED <<connVars, rows, posted>>

RefreshFails(j) ==
  /\ job[j].at = "refresh"
  /\ Goto(j, "catch")
  /\ UNCHANGED <<connVars, rows, posted>>

KeepTokens(j) ==
  /\ job[j].at = "keep"
  /\ stored' = "cipher" /\ expired' = FALSE
  /\ Goto(j, "list")
  /\ UNCHANGED <<status, synced, rows, posted>>

(* ... and reads the rows.                                                   *)
ListInvoices(r) ==
  /\ job[<<r, "INVOICE">>].at = "list"
  /\ Loop(<<r, "INVOICE">>, Newest("INVOICE", Batch))
  /\ UNCHANGED <<connVars, rows, posted>>

ListPayments(r) ==
  /\ job[<<r, "PAYMENT">>].at = "list"
  /\ Loop(<<r, "PAYMENT">>, Newest("PAYMENT", Batch))
  /\ UNCHANGED <<connVars, rows, posted>>

ListClients(r) ==
  /\ job[<<r, "CLIENT">>].at = "list"
  /\ Loop(<<r, "CLIENT">>, Newest("CLIENT", Batch))
  /\ UNCHANGED <<connVars, rows, posted>>

FindInvoice(r) ==
  /\ job[<<r, "ONE">>].at = "list"
  /\ Loop(<<r, "ONE">>, job[<<r, "ONE">>].listed)
  /\ UNCHANGED <<connVars, rows, posted>>

(* QuickBooks is asked without the company: its exchange does not say which.    *)
Accepts(j) == job[j].token = "plain" /\ Provider = "XERO"

(* Each is a POST of a new record; a refusal is logged and the loop goes on.    *)
Post(j, d) ==
  /\ job[j].at = "post" /\ d \in job[j].left
  /\ posted' = [posted EXCEPT ![d] = IF Accepts(j) THEN @ + 1 ELSE @]
  /\ job' = [job EXCEPT ![j].left = @ \ {d}]
  /\ UNCHANGED <<connVars, rows>>

PostRefused(j, d) ==
  /\ job[j].at = "post" /\ d \in job[j].left
  /\ job' = [job EXCEPT ![j].left = @ \ {d}]
  /\ UNCHANGED <<connVars, rows, posted>>

Posted(j) ==
  /\ job[j].at = "post" /\ job[j].left = {}
  /\ Goto(j, IF j[2] = "ONE" THEN "done" ELSE "stamp")
  /\ UNCHANGED <<connVars, rows, posted>>

Stamp(j) ==
  /\ job[j].at = "stamp"
  /\ synced' = TRUE
  /\ Goto(j, "done")
  /\ UNCHANGED <<status, stored, expired, rows, posted>>

(* A statement of the handler throws: the database, or a feature switched off.  *)
Throws(j) ==
  /\ job[j].at \in {"queued", "keep", "list", "post", "stamp"}
  /\ Goto(j, "catch")
  /\ UNCHANGED <<connVars, rows, posted>>

(* The status is written if the database will have it; the job throws anyway.  *)
Catch(j) ==
  /\ job[j].at = "catch"
  /\ status' \in {status, "ERROR"}
  /\ Put(j, IF job[j].tries < Retries THEN [job[j] EXCEPT !.at = "queued", !.tries = @ + 1, !.token = "none"]
            ELSE [job[j] EXCEPT !.at = "done"])
  /\ UNCHANGED <<stored, expired, synced, rows, posted>>

-----------------------------------------------------------------------------
Steps(j) ==
  \/ JobReads(j) \/ RefreshToken(j) \/ KeepTokens(j)
  \/ (\E d \in Docs : Post(j, d)) \/ Posted(j) \/ Stamp(j) \/ Catch(j)

Lists(r) == ListInvoices(r) \/ ListPayments(r) \/ ListClients(r) \/ FindInvoice(r)

Works == (\E j \in Jobs : Steps(j)) \/ (\E r \in Requests : Lists(r))

OneKind ==
  \/ handleCallback \/ Expire
  \/ \E kind \in {"INVOICE", "PAYMENT", "CLIENT"} : Add(kind)
  \/ \E r \in Requests :
       \/ \E k \in {"INVOICE", "PAYMENT", "CLIENT"} : triggerSync(r, {k})
       \/ \E d \in Docs : syncSingleInvoice(r, d)

Owner == OneKind \/ \E r \in Requests : triggerSync(r, {"INVOICE", "PAYMENT", "CLIENT"})

Failures ==
  \E j \in Jobs : RefreshFails(j) \/ Throws(j) \/ \E d \in Docs : PostRefused(j, d)

Next == Works \/ Owner \/ disconnect \/ Failures
Spec == Init /\ [][Next]_vars

FineSpec == Init /\ [][Works \/ Owner]_vars             \* nothing fails
KeptSpec == Init /\ [][Works \/ Owner \/ disconnect]_vars

FairSpec ==
  /\ Spec
  /\ \A j \in Jobs : WF_vars(Steps(j))
  /\ \A r \in Requests : WF_vars(Lists(r))

-----------------------------------------------------------------------------
(* What the provider has twice was posted by two attempts: an attempt posts    *)
(* each row once, whatever fails (the loops of the handlers).                 *)
Attempts(j) == IF job[j].at = "none" THEN 0 ELSE job[j].tries + 1
OncePerAttempt ==
  \A d \in Docs : posted[d] <= Cardinality({a \in Jobs \X (0 .. Retries) : a[2] < Attempts(a[1])})

(* Whatever the provider answers, the database throws and the owner does        *)
(* meanwhile, a job that was asked for ends: at an inactive connection too       *)
(* (the handlers' early return, onFailure, Inngest's retries).                  *)
SyncsEnd == \A j \in Jobs : job[j].at = "queued" ~> job[j].at = "done"

(* "Never creates duplicates" (phase-3-implementation-plan.md).               *)
NoDuplicates == \A d \in Docs : posted[d] <= 1

(* "Last synced" (the settings page): what a sync listed has been passed on     *)
(* when its time is written.                                                 *)
SyncedIsPosted ==
  [][\A j \in Jobs : job[j].at = "stamp" /\ job'[j].at = "done" => \A d \in job[j].listed : posted[d] > 0]_vars

(* "Disconnect (revoke tokens, deactivate)" (phase-3-implementation-plan.md).  *)
DisconnectClears == status = "DISCONNECTED" => stored = "none"

(* "On failure: retry 3x with exponential backoff, then mark connection status  *)
(* = ERROR" (phase-3-implementation-plan.md).                                 *)
ErrorAfterTries ==
  [][status # "ERROR" /\ status' = "ERROR" => \E j \in Jobs : job[j].at = "catch" /\ job[j].tries = Retries]_vars
=============================================================================
