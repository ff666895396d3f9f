--------------------------- MODULE TeamInvitation ---------------------------
(***************************************************************************)
(* Invitations of one email address to one tenant.                          *)
(*                                                                         *)
(* Inviting looks for a member and for a pending invitation and inserts;     *)
(* accepting reads the invitation, inserts the membership and marks the      *)
(* invitation; revoking reads and marks.  Every statement stands alone.      *)
(***************************************************************************)
EXTENDS Naturals, FiniteSets

CONSTANTS
  Requests,         \* requests that can be under way at once
  MaxInvitations,   \* bound: invitations made
  MaxDeaths         \* bound: requests that die between two statements

TeamInvitationAssumption ==
  /\ IsFiniteSet(Requests) /\ {MaxInvitations, MaxDeaths} \subseteq Nat

VARIABLES
  invitations,  \* status of each: "none" until made
  expired,      \* invitations whose seven days are over
  member,       \* whether the invited user is a member
  req,          \* per request: [at, op, inv]
  deaths        \* how many requests have died

vars == <<invitations, expired, member, req, deaths>>

Ids      == 1 .. MaxInvitations
Idle     == [at |-> "idle", op |-> "none", inv |-> 0]

TypeOK ==
  /\ invitations \in [Ids -> {"none", "PENDING", "ACCEPTED", "REVOKED"}]
  /\ expired \subseteq Ids /\ member \in BOOLEAN /\ deaths \in 0 .. MaxDeaths
  /\ req \in [Requests -> [at: {"idle", "look", "create", "join", "mark"},
                           op: {"none", "invite", "accept", "revoke"}, inv: 0 .. MaxInvitations]]

Init ==
  /\ invitations = [i \in Ids |-> "none"] /\ expired = {} /\ member = FALSE
  /\ req = [r \in Requests |-> Idle] /\ deaths = 0

-----------------------------------------------------------------------------
Pending == {i \in Ids : invitations[i] = "PENDING"}
Free    == {i \in Ids : invitations[i] = "none"}
Goto(r, at, op, i) == req' = [req EXCEPT ![r] = [at |-> at, op |-> op, inv |-> i]]
Over(r) == req' = [req EXCEPT ![r] = Idle]
Set(i, s) == invitations' = [invitations EXCEPT ![i] = s]

(* inviteMember.                                                             *)
inviteMember(r) ==
  /\ req[r].at = "idle" /\ ~member
  /\ Goto(r, "look", "invite", 0)
  /\ UNCHANGED <<invitations, expired, member, deaths>>

(* An expired invitation counts as pending until it is revoked.              *)
Look(r) ==
  /\ req[r].at = "look"
  /\ IF Pending = {} THEN Goto(r, "create", "invite", 0) ELSE Over(r)
  /\ UNCHANGED <<invitations, expired, member, deaths>>

Create(r) ==
  /\ req[r].at = "create"
  /\ \E i \in Free : (\A j \in Free : i <= j) /\ Set(i, "PENDING")
  /\ Over(r)
  /\ UNCHANGED <<expired, member, deaths>>

Expire ==
  /\ \E i \in Pending \ expired : expired' = expired \cup {i}
  /\ UNCHANGED <<invitations, member, req, deaths>>

(* acceptInvitation: the check; the membership, which is unique and throws    *)
(* when there is one; the mark, which does not look again.                   *)
acceptInvitation(r) ==
  /\ req[r].at = "idle"
  /\ \E i \in Pending \ expired : Goto(r, "join", "accept", i)
  /\ UNCHANGED <<invitations, expired, member, deaths>>

Join(r) ==
  /\ req[r].at = "join"
  /\ IF member THEN Over(r) /\ UNCHANGED member
     ELSE member' = TRUE /\ Goto(r, "mark", "accept", req[r].inv)
  /\ UNCHANGED <<invitations, expired, deaths>>

Mark(r) ==
  /\ req[r].at = "mark"
  /\ Set(req[r].inv, IF req[r].op = "accept" THEN "ACCEPTED" ELSE "REVOKED")
  /\ Over(r)
  /\ UNCHANGED <<expired, member, deaths>>

(* revokeInvitation looks at no status.                                      *)
revokeInvitation(r) ==
  /\ req[r].at = "idle"
  /\ \E i \in Ids \ Free : Goto(r, "mark", "revoke", i)
  /\ UNCHANGED <<invitations, expired, member, deaths>>

(* removeMember (see TeamRoles).                                             *)
removeMember ==
  /\ member /\ member' = FALSE
  /\ UNCHANGED <<invitations, expired, req, deaths>>

Die(r) ==
  /\ req[r].at # "idle" /\ deaths < MaxDeaths
  /\ Over(r) /\ deaths' = deaths + 1
  /\ UNCHANGED <<invitations, expired, member>>

Request(r) == \/ inviteMember(r) \/ Look(r) \/ Create(r) \/ acceptInvitation(r) \/ Join(r)
              \/ Mark(r) \/ revokeInvitation(r) \/ Die(r)
Next == Expire \/ removeMember \/ \E r \in Requests : Request(r)
Spec == Init /\ [][Next]_vars

-----------------------------------------------------------------------------
Quiet == \A r \in Requests : req[r].at = "idle"

(* One request at a time: an address has one pending invitation at most,      *)
(* also after it has expired or a request has died.                          *)
OnePending == Cardinality(Pending) <= 1

(* One request at a time and none dies: who can still accept is no member.    *)
PendingIsNoMember == Quiet /\ member => Pending = {}

(* "Invitation has already been used or revoked": it is not used after that.  *)
RevokedIsNotUsed ==
  [][\A i \in Ids : invitations[i] = "REVOKED" => invitations'[i] # "ACCEPTED"]_invitations
=============================================================================
