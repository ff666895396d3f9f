----------------------------- MODULE TeamRoles -----------------------------
(***************************************************************************)
(* The members of one tenant, their roles, and the cache of roles that the   *)
(* guard of every request reads first.                                      *)
(*                                                                         *)
(* Changing a role and removing a member are a chain of statements: the      *)
(* membership, the number of owners, the write, and the deletion of the      *)
(* cache entry.  The guard fills the cache in a statement after the read.    *)
(***************************************************************************)
EXTENDS Naturals, FiniteSets

CONSTANTS
  Users,        \* members to begin with
  Founders,     \* those of them that are owners to begin with
  Requests,     \* requests that can be under way at once
  MaxChanges,   \* bound: requests that change a role or remove a member
  Unreachable   \* whether the cache may be unreachable when an entry is deleted

TeamRolesAssumption ==
  /\ IsFiniteSet(Users) /\ IsFiniteSet(Requests) /\ Founders \subseteq Users /\ Founders # {}
  /\ MaxChanges \in Nat /\ Unreachable \in BOOLEAN

VARIABLES
  role,      \* the memberships: a role, or "NONE" for a user who is no member
  cache,     \* tenant:role:<tenant>:<user>; "NONE": no entry
  req,       \* per request: [at, op, by, target, role]; role: what has been read
  changes    \* how many requests to change something there have been

vars == <<role, cache, req, changes>>

Roles  == {"OWNER", "ADMIN", "STAFF"}
Ops    == Roles \cup {"look", "remove"}      \* a role: updateMemberRole to it
Nobody == CHOOSE u \in Users : TRUE
Idle   == [at |-> "idle", op |-> "look", by |-> Nobody, target |-> Nobody, role |-> "NONE"]

TypeOK ==
  /\ role \in [Users -> Roles \cup {"NONE"}] /\ cache \in [Users -> Roles \cup {"NONE"}]
  /\ changes \in 0 .. MaxChanges
  /\ req \in [Requests -> [at: {"idle", "guard", "fill", "check", "count", "write", "forget"},
                           op: Ops, by: Users, target: Users, role: Roles \cup {"NONE"}]]

Init ==
  /\ role = [u \in Users |-> IF u \in Founders THEN "OWNER" ELSE "STAFF"]
  /\ cache = [u \in Users |-> "NONE"]
  /\ req = [r \in Requests |-> Idle] /\ changes = 0

-----------------------------------------------------------------------------
Goto(r, at) == req' = [req EXCEPT ![r].at = at]
Over(r)     == req' = [req EXCEPT ![r] = Idle]

(* A request arrives.  Nobody changes or removes himself.                    *)
Arrive(r) ==
  /\ req[r].at = "idle"
  /\ \E u \in Users, t \in Users, op \in Ops :
       /\ \/ op = "look" /\ t = u
          \/ op # "look" /\ t # u /\ changes < MaxChanges
       /\ req' = [req EXCEPT ![r] = [at |-> "guard", op |-> op, by |-> u, target |-> t, role |-> "NONE"]]
       /\ changes' = changes + IF op = "look" THEN 0 ELSE 1
  /\ UNCHANGED <<role, cache>>

-----------------------------------------------------------------------------
(* TenantRolesGuard.                                                         *)
Pass(r, rl) ==
  IF req[r].op # "look" /\ rl \in {"OWNER", "ADMIN"} THEN Goto(r, "check") ELSE Over(r)

Guard(r) ==
  LET u == req[r].by
  IN  /\ req[r].at = "guard"
      /\ \/ cache[u] # "NONE" /\ Pass(r, cache[u])
         \/ cache[u] = "NONE" /\ role[u] = "NONE" /\ Over(r)
         \/ /\ cache[u] = "NONE" /\ role[u] # "NONE"
            /\ req' = [req EXCEPT ![r].at = "fill", ![r].role = role[u]]
      /\ UNCHANGED <<role, cache, changes>>

Fill(r) ==
  /\ req[r].at = "fill"
  /\ cache' = [cache EXCEPT ![req[r].by] = req[r].role]
  /\ Pass(r, req[r].role)
  /\ UNCHANGED <<role, changes>>

(* The entry lives for 900 s.                                                *)
Expire(u) ==
  /\ cache[u] # "NONE"
  /\ cache' = [cache EXCEPT ![u] = "NONE"]
  /\ UNCHANGED <<role, req, changes>>

-----------------------------------------------------------------------------
(* TeamService.updateMemberRole and removeMember.                            *)
Owners == {u \in Users : role[u] = "OWNER"}
Target(r) == role[req[r].target]

Check(r) ==
  /\ req[r].at = "check"
  /\ \/ Target(r) = "NONE" /\ Over(r)
     \/ Target(r) = "OWNER" /\ req[r].op # "OWNER" /\ Goto(r, "count")
     \/ Target(r) # "NONE" /\ ~(Target(r) = "OWNER" /\ req[r].op # "OWNER") /\ Goto(r, "write")
  /\ UNCHANGED <<role, cache, changes>>

Count(r) ==
  /\ req[r].at = "count"
  /\ IF Cardinality(Owners) <= 1 THEN Over(r) ELSE Goto(r, "write")
  /\ UNCHANGED <<role, cache, changes>>

(* The row that another request has deleted meanwhile makes it throw.        *)
Write(r) ==
  /\ req[r].at = "write"
  /\ IF Target(r) = "NONE" THEN Over(r) /\ UNCHANGED role
     ELSE /\ role' = [role EXCEPT ![req[r].target] = IF req[r].op = "remove" THEN "NONE" ELSE req[r].op]
          /\ Goto(r, "forget")
  /\ UNCHANGED <<cache, changes>>

(* Broken: the entry of who asked is deleted.                                *)
ForgetSelf(r) ==
  /\ req[r].at = "forget"
  /\ \/ cache' = [cache EXCEPT ![req[r].by] = "NONE"]
     \/ Unreachable /\ UNCHANGED cache
  /\ Over(r)
  /\ UNCHANGED <<role, changes>>

(* An error of the cache is swallowed.                                       *)
Forget(r) ==
  /\ req[r].at = "forget"
  /\ \/ cache' = [cache EXCEPT ![req[r].target] = "NONE"]
     \/ Unreachable /\ UNCHANGED cache
  /\ Over(r)
  /\ UNCHANGED <<role, changes>>

Request(r) == Guard(r) \/ Fill(r) \/ Check(r) \/ Count(r) \/ Write(r) \/ Forget(r)
Next == \/ \E r \in Requests : Arrive(r) \/ Request(r)
        \/ \E u \in Users : Expire(u)
Fairness == (\A r \in Requests : WF_vars(Request(r))) /\ \A u \in Users : WF_vars(Expire(u))
Spec == Init /\ [][Next]_vars /\ Fairness

-----------------------------------------------------------------------------
(* "Cannot remove the last OWNER": a tenant always has an owner.             *)
AlwaysAnOwner == Owners # {}

(* One request at a time and the cache reachable: no entry of the cache       *)
(* outlives the role it was read from.                                       *)
CacheAgrees ==
  (\A r \in Requests : req[r].at # "forget") => \A u \in Users : cache[u] \in {"NONE", role[u]}
=============================================================================
