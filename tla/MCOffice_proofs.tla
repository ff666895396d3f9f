---- MODULE MCOffice_proofs ----
(***************************************************************************)
(* Theorems about the components that MCOffice runs, for every value of    *)
(* their constants.  Each is an invariant of one component, which holds    *)
(* while that component steps and while the others do.                     *)
(***************************************************************************)
EXTENDS MCOffice, SetSums, SequenceTheorems

-----------------------------------------------------------------------------
(* The roles of a team.                                                    *)
Members(a) == IF a THEN TeamUsers ELSE TeamFounders
Asking(a)  == IF a THEN {r1} ELSE TeamRequests

LEMMA TeamConstants ==
  /\ IsFiniteSet(TeamUsers) /\ TeamFounders \subseteq TeamUsers /\ TeamFounders # {}
  /\ MaxTeamChanges \in Nat /\ MaxTeamRaces \in Nat
  /\ \A a \in BOOLEAN : Team(a)!Nobody \in Members(a)
<1>1. Team(TRUE)!TeamRolesAssumption /\ Team(FALSE)!TeamRolesAssumption
  BY OfficeAssumption
<1>2. /\ IsFiniteSet(TeamUsers) /\ TeamFounders \subseteq TeamUsers /\ TeamFounders # {}
      /\ MaxTeamChanges \in Nat /\ MaxTeamRaces \in Nat
  BY <1>1 DEF Team!TeamRolesAssumption, Team!IsFiniteSet, IsFiniteSet
<1>3. ASSUME NEW a \in BOOLEAN PROVE Team(a)!Nobody \in Members(a)
  <2>1. \E u \in Members(a) : TRUE
    BY <1>2 DEF Members
  <2> QED
    BY <2>1 DEF Team!Nobody, Members
<1> QED
  BY <1>2, <1>3

(* A request that only looks ends at the guard.                            *)
TeamTyped(a) ==
  /\ Team(a)!TypeOK
  /\ \A r \in Asking(a) : teamReq[r].at \in {"check", "count", "write"} => teamReq[r].op # "look"

LEMMA TeamInit ==
  ASSUME NEW a \in BOOLEAN, Team(a)!Init
  PROVE  TeamTyped(a)
BY TeamConstants DEF Team!Init, TeamTyped, Team!TypeOK, Team!Roles, Team!Ops, Team!Idle, Members, Asking

(* Every action keeps the types, whatever the number of requests.          *)
LEMMA TeamTypes ==
  ASSUME NEW a \in BOOLEAN, TeamTyped(a), [Team(a)!Next]_teamVars
  PROVE  TeamTyped(a)'
<1> USE TeamConstants DEF TeamTyped, Team!TypeOK, Team!Roles, Team!Ops, Team!Goto, Team!Over, Team!Idle, Members
<1>1. CASE UNCHANGED teamVars
  BY <1>1 DEF teamVars
<1>2. ASSUME NEW r \in Asking(a), Team(a)!Arrive(r) PROVE TeamTyped(a)'
  BY <1>2 DEF Team!Arrive, Asking
<1>3. ASSUME NEW r \in Asking(a), Team(a)!Guard(r) PROVE TeamTyped(a)'
  BY <1>3 DEF Team!Guard, Team!Pass, Asking
<1>4. ASSUME NEW r \in Asking(a), Team(a)!Fill(r) PROVE TeamTyped(a)'
  BY <1>4 DEF Team!Fill, Team!Pass, Asking
<1>5. ASSUME NEW r \in Asking(a), Team(a)!Check(r) PROVE TeamTyped(a)'
  BY <1>5 DEF Team!Check, Asking
<1>6. ASSUME NEW r \in Asking(a), Team(a)!Count(r) PROVE TeamTyped(a)'
  BY <1>6 DEF Team!Count, Asking
<1>7. ASSUME NEW r \in Asking(a), Team(a)!Write(r) PROVE TeamTyped(a)'
  <2>1. teamReq' \in [Asking(a) -> [at: {"idle", "guard", "fill", "check", "count", "write", "forget"},
                        op: Team(a)!Ops, by: Members(a), target: Members(a), role: Team(a)!Roles \cup {"NONE"}]]
    BY <1>7 DEF Team!Write, Asking
  <2>2. \A s \in Asking(a) : teamReq'[s].at \in {"check", "count", "write"} => teamReq'[s].op # "look"
    BY <1>7 DEF Team!Write, Asking
  <2>3. teamReq[r].op \in Team(a)!Ops \ {"look"} /\ teamReq[r].target \in Members(a)
    BY <1>7 DEF Team!Write, Asking
  <2>4. teamRole' \in [Members(a) -> Team(a)!Roles \cup {"NONE"}]
    BY <1>7, <2>3 DEF Team!Write
  <2> QED
    BY <1>7, <2>1, <2>2, <2>4 DEF Team!Write, Asking
<1>8. ASSUME NEW r \in Asking(a), Team(a)!Forget(r) PROVE TeamTyped(a)'
  BY <1>8 DEF Team!Forget, Asking
<1>9. ASSUME NEW u \in Members(a), Team(a)!Expire(u) PROVE TeamTyped(a)'
  BY <1>9 DEF Team!Expire, Asking
<1> QED
  BY <1>1, <1>2, <1>3, <1>4, <1>5, <1>6, <1>7, <1>8, <1>9 DEF Team!Next, Team!Request, Asking, teamVars

(* One request at a time.  What has been read from the membership is still *)
(* so, an owner who is about to lose the role has another one beside him,  *)
(* and an entry that disagrees is about to be deleted.                     *)
ask == teamReq[r1]
AnotherOwner == \E u \in TeamUsers : u # ask.target /\ teamRole[u] = "OWNER"
TeamInv ==
  /\ TeamTyped(TRUE) /\ Team(TRUE)!AlwaysAnOwner
  /\ ask.at = "fill" => ask.role = teamRole[ask.by]
  /\ ask.at = "write" /\ teamRole[ask.target] = "OWNER" /\ ask.op # "OWNER" => AnotherOwner
  /\ \A u \in TeamUsers :
       teamCache[u] \in {"NONE", teamRole[u]} \/ (ask.at = "forget" /\ u = ask.target)

LEMMA TeamAloneInit == Team(TRUE)!Init => TeamInv
<1> SUFFICES ASSUME Team(TRUE)!Init PROVE TeamInv
  OBVIOUS
<1>1. TeamTyped(TRUE)
  BY TeamInit
<1>2. Team(TRUE)!AlwaysAnOwner
  BY TeamConstants DEF Team!Init, Team!AlwaysAnOwner, Team!Owners
<1>3. ask.at = "idle" /\ \A u \in TeamUsers : teamCache[u] = "NONE"
  BY DEF Team!Init, Team!Idle, ask
<1> QED
  BY <1>1, <1>2, <1>3 DEF TeamInv

(* Two owners are needed for the count to let the request go on.           *)
LEMMA CountedAnother ==
  ASSUME TeamInv, ~(Team(TRUE)!Cardinality(Team(TRUE)!Owners) <= 1)
  PROVE  AnotherOwner
<1> DEFINE O == {u \in TeamUsers : teamRole[u] = "OWNER"}
<1>1. Team(TRUE)!Owners = O /\ Team(TRUE)!Cardinality(O) = Cardinality(O)
  BY DEF Team!Owners, Team!Cardinality, Team!IsFiniteSet, Cardinality, IsFiniteSet
<1>2. SUFFICES ASSUME O \subseteq {ask.target} PROVE FALSE
  BY DEF AnotherOwner
<1>3. IsFiniteSet({ask.target}) /\ Cardinality({ask.target}) = 1
  BY FS_Singleton
<1>4. Cardinality(O) <= 1
  BY <1>2, <1>3, FS_Subset, FS_CardinalityType
<1> QED
  BY <1>1, <1>4

(* Where a request goes, and what it keeps.                                *)
Keeps == ask'.op = ask.op /\ ask'.by = ask.by /\ ask'.target = ask.target /\ ask'.role = ask.role

LEMMA TeamGoes ==
  ASSUME Team(TRUE)!TypeOK
  PROVE  /\ \A p : Team(TRUE)!Goto(r1, p) => ask'.at = p /\ Keeps
         /\ Team(TRUE)!Over(r1) => ask'.at = "idle"
         /\ ask.target \in TeamUsers /\ ask.by \in TeamUsers
<1>1. ASSUME NEW p, Team(TRUE)!Goto(r1, p) PROVE ask'.at = p /\ Keeps
  <2>1. ask' = [ask EXCEPT !.at = p]
    BY <1>1 DEF Team!Goto, Team!TypeOK, ask
  <2>2. ask = [at |-> ask.at, op |-> ask.op, by |-> ask.by, target |-> ask.target, role |-> ask.role]
    BY DEF Team!TypeOK, ask
  <2> HIDE DEF ask
  <2> QED
    BY <2>1, <2>2 DEF Keeps
<1>2. ASSUME Team(TRUE)!Over(r1) PROVE ask'.at = "idle"
  BY <1>2 DEF Team!Over, Team!TypeOK, Team!Idle, ask
<1> QED
  BY <1>1, <1>2 DEF Team!TypeOK, ask

LEMMA TeamStep == ASSUME TeamInv, [Team(TRUE)!Next]_teamVars PROVE TeamInv'
<1>0. TeamTyped(TRUE)' /\ Team(TRUE)!TypeOK
  BY TeamTypes DEF TeamInv, TeamTyped
<1> USE <1>0, TeamGoes DEF TeamInv, Keeps, AnotherOwner, Team!AlwaysAnOwner, Team!Owners
<1>1. CASE UNCHANGED teamVars
  BY <1>1 DEF teamVars, ask
<1>2. CASE Team(TRUE)!Arrive(r1)
  <2>1. UNCHANGED <<teamRole, teamCache>> /\ ask.at = "idle" /\ ask'.at = "guard"
    BY <1>2 DEF Team!Arrive, Team!TypeOK, ask
  <2> QED
    BY <2>1
<1>3. CASE Team(TRUE)!Guard(r1)
  <2>1. UNCHANGED <<teamRole, teamCache>> /\ ask.at = "guard"
    BY <1>3 DEF Team!Guard, ask
  <2>2. \/ ask'.at \in {"check", "idle"}
        \/ ask'.at = "fill" /\ ask'.by = ask.by /\ ask'.role = teamRole[ask.by]
    <3>1. CASE Team(TRUE)!Pass(r1, teamCache[ask.by]) \/ Team(TRUE)!Over(r1)
      BY <3>1 DEF Team!Pass
    <3>2. CASE teamReq' = [teamReq EXCEPT ![r1].at = "fill", ![r1].role = teamRole[ask.by]]
      BY <3>2 DEF Team!TypeOK, ask
    <3> QED
      BY <1>3, <3>1, <3>2 DEF Team!Guard, ask
  <2> QED
    BY <2>1, <2>2
<1>4. CASE Team(TRUE)!Fill(r1)
  <2>1. /\ UNCHANGED teamRole /\ ask.at = "fill"
        /\ teamCache' = [teamCache EXCEPT ![ask.by] = ask.role] /\ Team(TRUE)!Pass(r1, ask.role)
    BY <1>4 DEF Team!Fill, ask
  <2>2. ask'.at \in {"check", "idle"}
    BY <2>1 DEF Team!Pass
  <2>3. \A u \in TeamUsers : teamCache'[u] \in {"NONE", teamRole[u]}
    BY <2>1 DEF Team!TypeOK
  <2> QED
    BY <2>1, <2>2, <2>3
<1>5. CASE Team(TRUE)!Check(r1)
  <2>1. UNCHANGED <<teamRole, teamCache>> /\ ask.at = "check"
    BY <1>5 DEF Team!Check, ask
  <2>2. \/ ask'.at \in {"idle", "count"}
        \/ ask'.at = "write" /\ Keeps /\ ~(teamRole[ask.target] = "OWNER" /\ ask.op # "OWNER")
    BY <1>5 DEF Team!Check, Team!Target, ask
  <2> QED
    BY <2>1, <2>2
<1>6. CASE Team(TRUE)!Count(r1)
  <2>1. UNCHANGED <<teamRole, teamCache>> /\ ask.at = "count"
    BY <1>6 DEF Team!Count, ask
  <2>2. \/ ask'.at = "idle"
        \/ ask'.at = "write" /\ Keeps /\ AnotherOwner
    BY <1>6, CountedAnother DEF Team!Count
  <2> QED
    BY <2>1, <2>2
<1>7. CASE Team(TRUE)!Write(r1)
  <2>1. UNCHANGED teamCache /\ ask.at = "write"
    BY <1>7 DEF Team!Write, ask
  <2>2. CASE ask'.at = "idle" /\ UNCHANGED teamRole
    BY <2>1, <2>2
  <2>3. ASSUME teamRole' = [teamRole EXCEPT ![ask.target] = IF ask.op = "remove" THEN "NONE" ELSE ask.op],
               ask'.at = "forget", Keeps
        PROVE  TeamInv'
    <3>1. \A u \in TeamUsers : u # ask.target => teamRole'[u] = teamRole[u]
      BY <2>3 DEF Team!TypeOK
    <3>2. ask.op = "OWNER" => teamRole'[ask.target] = "OWNER"
      BY <2>3 DEF Team!TypeOK
    <3>3. PICK o \in TeamUsers : teamRole[o] = "OWNER"
      OBVIOUS
    <3>4. \E u \in TeamUsers : teamRole'[u] = "OWNER"
      BY <2>1, <3>1, <3>2, <3>3
    <3> QED
      BY <2>1, <2>3, <3>1, <3>4
  <2> QED
    BY <1>7, <2>2, <2>3 DEF Team!Write, ask
<1>8. CASE Team(TRUE)!Forget(r1)
  <2>1. /\ UNCHANGED teamRole /\ ask.at = "forget" /\ ask'.at = "idle"
        /\ teamCache' = [teamCache EXCEPT ![ask.target] = "NONE"]
    BY <1>8 DEF Team!Forget, ask
  <2> QED
    BY <2>1 DEF Team!TypeOK
<1>9. ASSUME NEW u \in TeamUsers, Team(TRUE)!Expire(u) PROVE TeamInv'
  <2>1. UNCHANGED <<teamRole, teamReq>> /\ teamCache' = [teamCache EXCEPT ![u] = "NONE"]
    BY <1>9 DEF Team!Expire
  <2> QED
    BY <2>1 DEF Team!TypeOK, ask
<1> QED
  BY <1>1, <1>2, <1>3, <1>4, <1>5, <1>6, <1>7, <1>8, <1>9 DEF Team!Next, Team!Request, teamVars

(* Invitations.  While an address is invited nothing is pending, and as    *)
(* long as no request has died, what is pending is for somebody who is no  *)
(* member, or is being marked.                                             *)
letter == inviteReq[r1]
Open   == {i \in 1 .. MaxInvites : inviteInvitations[i] = "PENDING"}
Joined == inviteMember = TRUE
InviteInv ==
  /\ Invite!TypeOK
  /\ \A i \in Open, j \in Open : i = j
  /\ letter.at = "create" => Open = {}
  /\ inviteDeaths = 0 =>
       /\ letter.at = "idle" /\ Joined => Open = {}
       /\ letter.at \in {"look", "create", "join"} => ~Joined
       /\ letter.at \in {"join", "mark"} /\ letter.op = "accept" => Open \subseteq {letter.inv}
       /\ letter.at = "mark" /\ letter.op # "accept" /\ Joined => Open = {}
       /\ letter.at = "join" => letter.op = "accept"

LEMMA InviteConstants == MaxInvites \in Nat /\ MaxInviteDeaths \in Nat
BY OfficeAssumption DEF Invite!TeamInvitationAssumption

Invitation ==
  [at: {"idle", "look", "create", "join", "mark"}, op: {"none", "invite", "accept", "revoke"}, inv: 0 .. MaxInvites]

InviteTypes ==
  /\ inviteInvitations \in [1 .. MaxInvites -> {"none", "PENDING", "ACCEPTED", "REVOKED"}]
  /\ inviteExpired \subseteq 1 .. MaxInvites /\ inviteDeaths \in 0 .. MaxInviteDeaths
  /\ inviteReq \in [{r1} -> Invitation]

LEMMA InviteTypeOK == Invite!TypeOK <=> InviteTypes /\ inviteMember \in BOOLEAN
BY Zenon DEF Invite!TypeOK, InviteTypes, Invitation, Invite!Ids

LEMMA InviteInit == Invite!Init => InviteInv
<1> SUFFICES ASSUME Invite!Init PROVE InviteInv
  OBVIOUS
<1>1. InviteTypes
  BY InviteConstants DEF Invite!Init, InviteTypes, Invitation, Invite!Idle, Invite!Ids
<1>2. inviteMember \in BOOLEAN /\ ~Joined
  BY Zenon DEF Invite!Init, Joined
<1>3. letter.at = "idle" /\ Open = {}
  BY DEF Invite!Init, Invite!Idle, letter, Open, Invite!Ids
<1> QED
  BY <1>1, <1>2, <1>3, InviteTypeOK DEF InviteInv

(* Where a request goes, and who is a member then.                         *)
LEMMA InviteGoes ==
  ASSUME InviteTypes
  PROVE  /\ \A at, op, i : Invite!Goto(r1, at, op, i) => letter' = [at |-> at, op |-> op, inv |-> i]
         /\ Invite!Over(r1) => letter'.at = "idle"
BY DEF InviteTypes, Invitation, Invite!Goto, Invite!Over, Invite!Idle, letter

LEMMA InviteMembers ==
  ASSUME inviteMember \in BOOLEAN
  PROVE  /\ [Invite!Next]_inviteVars => inviteMember' \in BOOLEAN
         /\ UNCHANGED inviteMember => (Joined' <=> Joined)
         /\ Invite!inviteMember(r1) => ~Joined /\ UNCHANGED inviteMember
         /\ Invite!removeMember => ~Joined'
         /\ Invite!Join(r1) =>
              \/ Joined /\ UNCHANGED inviteMember /\ Invite!Over(r1)
              \/ ~Joined /\ Joined' /\ Invite!Goto(r1, "mark", "accept", letter.inv)
<1>1. [Invite!Next]_inviteVars => inviteMember' \in BOOLEAN
  BY Zenon DEF Invite!Next, Invite!Request, Invite!inviteMember, Invite!Look, Invite!Create, Invite!acceptInvitation,
       Invite!Join, Invite!Mark, Invite!revokeInvitation, Invite!Die, Invite!Expire, Invite!removeMember, inviteVars
<1>2. UNCHANGED inviteMember => (Joined' <=> Joined)
  BY Zenon DEF Joined
<1>3. Invite!inviteMember(r1) => ~Joined /\ UNCHANGED inviteMember
  BY Zenon DEF Invite!inviteMember, Joined
<1>4. Invite!removeMember => ~Joined'
  BY Zenon DEF Invite!removeMember, Joined
<1>5. Invite!Join(r1) =>
              \/ Joined /\ UNCHANGED inviteMember /\ Invite!Over(r1)
              \/ ~Joined /\ Joined' /\ Invite!Goto(r1, "mark", "accept", letter.inv)
  BY Zenon DEF Invite!Join, Joined, letter
<1> QED
  BY <1>1, <1>2, <1>3, <1>4, <1>5

LEMMA InviteStepTypes == ASSUME InviteTypes, [Invite!Next]_inviteVars PROVE InviteTypes'
<1> USE InviteConstants DEF InviteTypes, Invitation, Invite!Goto, Invite!Over, Invite!Idle, Invite!Ids
<1>1. CASE UNCHANGED inviteVars
  BY <1>1 DEF inviteVars
<1>2. CASE Invite!inviteMember(r1) \/ Invite!Look(r1)
  <2>1. /\ \E at \in {"look", "create"} : Invite!Over(r1) \/ Invite!Goto(r1, at, "invite", 0)
        /\ UNCHANGED <<inviteInvitations, inviteExpired, inviteDeaths>>
    BY <1>2 DEF Invite!inviteMember, Invite!Look
  <2> QED
    BY <2>1
<1>3. CASE Invite!Create(r1)
  BY <1>3 DEF Invite!Create, Invite!Free, Invite!Set
<1>4. CASE Invite!acceptInvitation(r1) \/ Invite!revokeInvitation(r1)
  <2>1. inviteInvitations' \in [1 .. MaxInvites -> {"none", "PENDING", "ACCEPTED", "REVOKED"}]
    BY <1>4 DEF Invite!acceptInvitation, Invite!revokeInvitation, Invite!Pending, Invite!Free
  <2>2. inviteExpired' \subseteq 1 .. MaxInvites /\ inviteDeaths' \in 0 .. MaxInviteDeaths
    BY <1>4 DEF Invite!acceptInvitation, Invite!revokeInvitation, Invite!Pending, Invite!Free
  <2>3. inviteReq' \in [{r1} -> Invitation]
    BY <1>4 DEF Invite!acceptInvitation, Invite!revokeInvitation, Invite!Pending, Invite!Free
  <2> QED
    BY <2>1, <2>2, <2>3
<1>5. CASE Invite!Join(r1)
  <2>1. /\ Invite!Over(r1) \/ Invite!Goto(r1, "mark", "accept", letter.inv)
        /\ UNCHANGED <<inviteInvitations, inviteExpired, inviteDeaths>>
    BY <1>5, Zenon DEF Invite!Join, letter
  <2> QED
    BY <2>1 DEF letter
<1>6. CASE Invite!Mark(r1)
  <2>1. inviteInvitations' \in [1 .. MaxInvites -> {"none", "PENDING", "ACCEPTED", "REVOKED"}]
    BY <1>6 DEF Invite!Mark, Invite!Set
  <2>2. inviteExpired' \subseteq 1 .. MaxInvites /\ inviteDeaths' \in 0 .. MaxInviteDeaths
    BY <1>6 DEF Invite!Mark, Invite!Set
  <2>3. inviteReq' \in [{r1} -> Invitation]
    BY <1>6 DEF Invite!Mark, Invite!Set
  <2> QED
    BY <2>1, <2>2, <2>3
<1>7. CASE Invite!Die(r1) \/ Invite!Expire \/ Invite!removeMember
  <2>1. inviteInvitations' \in [1 .. MaxInvites -> {"none", "PENDING", "ACCEPTED", "REVOKED"}]
    BY <1>7 DEF Invite!Die, Invite!Expire, Invite!removeMember, Invite!Pending
  <2>2. inviteExpired' \subseteq 1 .. MaxInvites /\ inviteDeaths' \in 0 .. MaxInviteDeaths
    <3>1. CASE Invite!Die(r1)
      BY <3>1 DEF Invite!Die
    <3>2. CASE Invite!Expire
      BY <3>2 DEF Invite!Expire, Invite!Pending
    <3>3. CASE Invite!removeMember
      BY <3>3 DEF Invite!removeMember
    <3> QED
      BY <1>7, <3>1, <3>2, <3>3
  <2>3. inviteReq' \in [{r1} -> Invitation]
    BY <1>7 DEF Invite!Die, Invite!Expire, Invite!removeMember, Invite!Pending
  <2> QED
    BY <2>1, <2>2, <2>3
<1> QED
  BY <1>1, <1>2, <1>3, <1>4, <1>5, <1>6, <1>7 DEF Invite!Next, Invite!Request, inviteVars

LEMMA InviteStep == ASSUME InviteInv, [Invite!Next]_inviteVars PROVE InviteInv'
<1>0. /\ InviteTypes /\ Invite!TypeOK /\ Invite!TypeOK' /\ Invite!Pending = Open /\ inviteDeaths \in Nat
      /\ inviteMember \in BOOLEAN
  <2>1. Invite!TypeOK /\ InviteTypes /\ inviteMember \in BOOLEAN
    BY InviteTypeOK DEF InviteInv
  <2>2. Invite!TypeOK'
    <3>1. InviteTypes' /\ inviteMember' \in BOOLEAN
      BY <2>1, InviteStepTypes, InviteMembers
    <3> QED
      BY <3>1, InviteConstants, Zenon DEF InviteTypes, Invitation, Invite!TypeOK, Invite!Ids
  <2>3. inviteDeaths \in Nat
    BY <2>1, InviteConstants DEF InviteTypes
  <2> QED
    BY <2>1, <2>2, <2>3 DEF Invite!Pending, Open, Invite!Ids
<1> USE <1>0, InviteGoes, InviteMembers, InviteConstants DEF InviteInv
<1>1. CASE UNCHANGED inviteVars
  BY <1>1 DEF inviteVars, letter, Open
<1>2. CASE Invite!inviteMember(r1)
  <2>1. UNCHANGED <<Open, inviteDeaths>> /\ letter'.at = "look"
    BY <1>2 DEF Invite!inviteMember, Open
  <2> QED
    BY <1>2, <2>1
<1>3. CASE Invite!Look(r1)
  <2>1. UNCHANGED <<Open, inviteMember, inviteDeaths>> /\ letter.at = "look"
    BY <1>3 DEF Invite!Look, Open, letter
  <2>2. \/ letter'.at = "idle"
        \/ letter'.at = "create" /\ Open = {}
    BY <1>3 DEF Invite!Look
  <2> QED
    BY <2>1, <2>2
<1>4. CASE Invite!Create(r1)
  <2>1. UNCHANGED <<inviteMember, inviteDeaths>> /\ letter.at = "create" /\ letter'.at = "idle"
    BY <1>4 DEF Invite!Create, letter
  <2>2. PICK i \in 1 .. MaxInvites : inviteInvitations' = [inviteInvitations EXCEPT ![i] = "PENDING"]
    BY <1>4 DEF Invite!Create, Invite!Free, Invite!Set, Invite!Ids
  <2>3. Open' \subseteq {i} \cup Open
    BY <2>2 DEF InviteTypes, Open
  <2> QED
    BY <2>1, <2>3
<1>5. CASE Invite!acceptInvitation(r1)
  <2>1. /\ UNCHANGED <<Open, inviteMember, inviteDeaths>> /\ letter.at = "idle"
        /\ \E i \in Open : letter' = [at |-> "join", op |-> "accept", inv |-> i]
    BY <1>5 DEF Invite!acceptInvitation, Open, letter
  <2> QED
    BY <2>1
<1>6. CASE Invite!Join(r1)
  <2>1. UNCHANGED <<Open, inviteDeaths>> /\ letter.at = "join"
    BY <1>6 DEF Invite!Join, Open, letter
  <2>2. \/ Joined /\ UNCHANGED inviteMember /\ letter'.at = "idle"
        \/ letter' = [at |-> "mark", op |-> "accept", inv |-> letter.inv]
    BY <1>6
  <2> QED
    BY <2>1, <2>2
<1>7. CASE Invite!Mark(r1)
  <2>1. UNCHANGED <<inviteMember, inviteDeaths>> /\ letter.at = "mark" /\ letter'.at = "idle"
    BY <1>7 DEF Invite!Mark, letter
  <2>2. Open' \subseteq Open \ {letter.inv}
    BY <1>7 DEF Invite!Mark, Invite!Set, InviteTypes, Invitation, Open, letter
  <2> QED
    BY <2>1, <2>2
<1>8. CASE Invite!revokeInvitation(r1)
  <2>1. UNCHANGED <<Open, inviteMember, inviteDeaths>> /\ letter.at = "idle"
    BY <1>8 DEF Invite!revokeInvitation, Open, letter
  <2>2. \E i : letter' = [at |-> "mark", op |-> "revoke", inv |-> i]
    BY <1>8 DEF Invite!revokeInvitation
  <2> QED
    BY <2>1, <2>2
<1>9. CASE Invite!Die(r1)
  <2>1. UNCHANGED <<Open, inviteMember>> /\ letter'.at = "idle" /\ inviteDeaths' # 0
    BY <1>9 DEF Invite!Die, Open
  <2> QED
    BY <2>1
<1>10. CASE Invite!Expire \/ Invite!removeMember
  <2>1. /\ UNCHANGED <<Open, letter, inviteDeaths>>
        /\ UNCHANGED inviteMember \/ ~Joined'
    BY <1>10 DEF Invite!Expire, Invite!removeMember, Open, letter
  <2> QED
    BY <2>1
<1> QED
  BY <1>1, <1>2, <1>3, <1>4, <1>5, <1>6, <1>7, <1>8, <1>9, <1>10 DEF Invite!Next, Invite!Request, inviteVars

(* A step of the application is one of the team of the behaviour, of       *)
(* invitations, or none of them.                                           *)
LEMMA TeamTurns ==
  ASSUME [Next]_vars
  PROVE  /\ UNCHANGED under /\ [Invite!Next]_inviteVars
         /\ under = "team" => [Team(TRUE)!Next]_teamVars
         /\ under = "team, two at once" => [Team(FALSE)!Next]_teamVars
BY DEF Next, Turn, vars, NotInvoice, NotQuote, NotContract, NotDiscount, NotMoney, NotTeam, NotInvite, NotSession

TeamKept ==
  /\ under = "team" => TeamInv
  /\ under = "team, two at once" => TeamTyped(FALSE)
  /\ InviteInv

(* "Cannot remove the last OWNER", for any team: with one request at a     *)
(* time there is always an owner, no cached role outlives the role, and an *)
(* address has one pending invitation, also when requests die in between.  *)
THEOREM TeamIsKeptAlways == Spec => []TeamIsKept
<1>1. Init => TeamKept
  BY TeamInit, TeamAloneInit, InviteInit DEF Init, TeamKept
<1>2. TeamKept /\ [Next]_vars => TeamKept'
  BY TeamTurns, TeamTypes, TeamStep, InviteStep DEF TeamKept
<1>3. TeamKept => TeamIsKept
  <2> SUFFICES ASSUME TeamKept PROVE TeamIsKept
    OBVIOUS
  <2>1. under = "team" => Team(TRUE)!TypeOK /\ Team(TRUE)!AlwaysAnOwner /\ Team(TRUE)!CacheAgrees
    BY DEF TeamKept, TeamInv, TeamTyped, Team!CacheAgrees, ask
  <2>2. under = "team, two at once" => Team(FALSE)!TypeOK
    BY DEF TeamKept, TeamTyped
  <2>3. Invite!TypeOK /\ Invite!Pending = Open
    BY DEF TeamKept, InviteInv, Invite!Pending, Open, Invite!Ids
  <2>4. Invite!OnePending
    <3>1. \A x \in Open : Open \subseteq {x}
      BY DEF TeamKept, InviteInv
    <3>2. \A x : IsFiniteSet({x}) /\ Cardinality({x}) = 1
      BY FS_Singleton
    <3>3. Cardinality(Open) <= 1
      <4>1. CASE Open = {}
        BY <4>1, FS_EmptySet
      <4>2. ASSUME NEW x \in Open PROVE Cardinality(Open) <= 1
        <5>1. Open \subseteq {x} /\ IsFiniteSet({x}) /\ Cardinality({x}) = 1
          BY <3>1, <3>2, <4>2
        <5> QED
          BY <5>1, FS_Subset
      <4> QED
        BY <4>1, <4>2
    <3>4. Invite!Cardinality(Open) = Cardinality(Open)
      BY DEF Invite!Cardinality, Invite!IsFiniteSet, Cardinality, IsFiniteSet
    <3> QED
      BY <2>3, <3>3, <3>4 DEF Invite!OnePending
  <2>5. inviteDeaths = 0 => Invite!PendingIsNoMember
    BY <2>3 DEF TeamKept, InviteInv, Invite!PendingIsNoMember, Invite!Quiet, letter, Joined
  <2> QED
    BY <2>1, <2>2, <2>3, <2>4, <2>5 DEF TeamIsKept
<1> QED
  BY <1>1, <1>2, <1>3, PTL DEF Spec

-----------------------------------------------------------------------------
(* Sessions.  Whatever names a pair of tokens names one that was signed.   *)
Tabs(a)     == IF a THEN {r1} ELSE SessionTabs
Signings(a) == IF a THEN MaxSessionPairs ELSE MaxTabPairs
Points      == {"idle", "unauthorized", "check", "issue", "answer", "refused", "retry"}
Exchange(n) == {e \in [at: Points, token: 0 .. n] : e.at \in {"check", "issue", "answer"} => e.token # 0}
Cookies(n)  == [access: 0 .. n, refresh: 0 .. n, session: BOOLEAN]

LEMMA SessionConstants ==
  /\ MaxSessionPairs \in Nat /\ MaxTabPairs \in Nat /\ MaxSessionExpiries \in Nat /\ MaxTabExpiries \in Nat
  /\ \A a \in BOOLEAN : Signings(a) \in Nat
<1>1. Session(TRUE)!SessionRefreshAssumption /\ Session(FALSE)!SessionRefreshAssumption
  BY OfficeAssumption
<1> QED
  BY <1>1 DEF Session!SessionRefreshAssumption, Signings

SessionServer(a) ==
  /\ sessionPairs \in 0 .. Signings(a)
  /\ sessionAlive \subseteq 1 .. sessionPairs /\ sessionUsed \subseteq 1 .. sessionPairs
  /\ sessionExpiries \in 0 .. (IF a THEN MaxSessionExpiries ELSE MaxTabExpiries)

SessionBrowser(a) ==
  /\ sessionJar \in Cookies(sessionPairs) /\ sessionPage \in {"app", "login"}
  /\ sessionReq \in [Tabs(a) -> Exchange(sessionPairs)]

SessionTyped(a) == SessionServer(a) /\ SessionBrowser(a) /\ sessionLost \in BOOLEAN

LEMMA SessionTypeOK == ASSUME NEW a \in BOOLEAN, SessionTyped(a) PROVE Session(a)!TypeOK
<1>1. sessionJar \in [access: 0 .. Signings(a), refresh: 0 .. Signings(a), session: BOOLEAN]
  BY SessionConstants DEF SessionTyped, SessionBrowser, SessionServer, Cookies
<1>2. /\ sessionAlive \subseteq 1 .. Signings(a) /\ sessionUsed \subseteq 1 .. Signings(a) /\ sessionPairs \in 0 .. Signings(a)
      /\ sessionExpiries \in 0 .. (IF a THEN MaxSessionExpiries ELSE MaxTabExpiries)
  BY SessionConstants DEF SessionTyped, SessionServer
<1>3. sessionReq \in [Tabs(a) -> [at: Points, token: 0 .. Signings(a)]]
  BY SessionConstants DEF SessionTyped, SessionBrowser, SessionServer, Exchange
<1>4. sessionPage \in {"app", "login"} /\ sessionLost \in BOOLEAN
  BY DEF SessionTyped, SessionBrowser
<1> QED
  BY <1>1, <1>2, <1>3, <1>4, Zenon DEF Session!TypeOK, Session!Pairs, Tabs, Signings, Points

LEMMA SessionInit == ASSUME NEW a \in BOOLEAN, Session(a)!Init PROVE SessionTyped(a)
<1>1. SessionServer(a)
  BY SessionConstants DEF Session!Init, SessionServer
<1>2. SessionBrowser(a)
  BY SessionConstants DEF Session!Init, SessionBrowser, Session!NoJar, Session!Idle, Tabs, Exchange, Points, Cookies
<1>3. sessionLost \in BOOLEAN
  BY Zenon DEF Session!Init
<1> QED
  BY <1>1, <1>2, <1>3 DEF SessionTyped

(* A pair that is signed takes nothing from what was signed before, and    *)
(* cookies may be cleared.                                                 *)
LEMMA SessionData ==
  ASSUME NEW n \in Nat
  PROVE  /\ Cookies(n) \subseteq Cookies(n + 1) /\ Exchange(n) \subseteq Exchange(n + 1)
         /\ \A k \in 0 .. n : [access |-> k, refresh |-> k, session |-> TRUE] \in Cookies(n)
         /\ [access |-> 0, refresh |-> 0, session |-> FALSE] \in Cookies(n)
         /\ \A j \in Cookies(n) : [j EXCEPT !.session = FALSE] \in Cookies(n)
         /\ \A j \in Cookies(n) : j.refresh \in 0 .. n /\ j.access \in 0 .. n
         /\ \A e \in Exchange(n) : e.token \in 0 .. n /\ e.at \in Points /\ (e.at \in {"check", "issue", "answer"} => e.token \in 1 .. n)
         /\ \A p \in Points, t \in 0 .. n : (p \in {"check", "issue", "answer"} => t # 0) => [at |-> p, token |-> t] \in Exchange(n)
<1>1. Cookies(n) \subseteq Cookies(n + 1) /\ Exchange(n) \subseteq Exchange(n + 1)
  BY DEF Cookies, Exchange
<1>2. /\ \A k \in 0 .. n : [access |-> k, refresh |-> k, session |-> TRUE] \in Cookies(n)
      /\ [access |-> 0, refresh |-> 0, session |-> FALSE] \in Cookies(n)
  BY DEF Cookies
<1>3. /\ \A j \in Cookies(n) : [j EXCEPT !.session = FALSE] \in Cookies(n)
      /\ \A j \in Cookies(n) : j.refresh \in 0 .. n /\ j.access \in 0 .. n
  BY DEF Cookies
<1>4. \A e \in Exchange(n) : e.token \in 0 .. n /\ e.at \in Points /\ (e.at \in {"check", "issue", "answer"} => e.token \in 1 .. n)
  BY DEF Exchange
<1>5. \A p \in Points, t \in 0 .. n : (p \in {"check", "issue", "answer"} => t # 0) => [at |-> p, token |-> t] \in Exchange(n)
  BY DEF Exchange
<1> QED
  BY <1>1, <1>2, <1>3, <1>4, <1>5

LEMMA SessionRequest ==
  ASSUME NEW a \in BOOLEAN, SessionTyped(a), NEW r \in Tabs(a), NEW p \in Points, NEW n \in {sessionPairs, sessionPairs + 1},
         NEW t \in 0 .. n, p \in {"check", "issue", "answer"} => t # 0,
         Session(a)!Goto(r, p, t)
  PROVE  sessionReq' \in [Tabs(a) -> Exchange(n)]
<1>1. sessionPairs \in Nat /\ sessionReq \in [Tabs(a) -> Exchange(sessionPairs)]
  BY SessionConstants DEF SessionTyped, SessionBrowser, SessionServer
<1>2. sessionReq \in [Tabs(a) -> Exchange(n)] /\ [at |-> p, token |-> t] \in Exchange(n)
  BY <1>1, SessionData
<1> QED
  BY <1>2 DEF Session!Goto

(* A pair is signed.                                                       *)
LEMMA SessionSigns ==
  ASSUME NEW a \in BOOLEAN, SessionTyped(a), Session(a)!Sign
  PROVE  /\ sessionPairs' = sessionPairs + 1 /\ sessionPairs' \in 0 .. Signings(a)
         /\ sessionAlive' = sessionAlive \cup {sessionPairs'} /\ sessionAlive' \subseteq 1 .. sessionPairs'
BY SessionConstants DEF SessionTyped, SessionServer, Session!Sign, Signings

(* What the steps below need of the types.                                 *)
SessionFactsOf(a) ==
  /\ sessionPairs \in Nat /\ sessionUsed \subseteq 1 .. sessionPairs /\ sessionAlive \subseteq 1 .. sessionPairs
  /\ sessionJar.access \in 0 .. sessionPairs /\ sessionJar.refresh \in 0 .. sessionPairs
  /\ sessionJar = [access |-> sessionJar.access, refresh |-> sessionJar.refresh, session |-> sessionJar.session]
  /\ sessionPage \in {"app", "login"}
  /\ \A r \in Tabs(a) : sessionReq[r].token \in 0 .. sessionPairs /\ sessionReq[r].at \in Points
  /\ \A r \in Tabs(a) : sessionReq[r].at \in {"check", "issue", "answer"} => sessionReq[r].token # 0

LEMMA SessionFacts == ASSUME NEW a \in BOOLEAN, SessionTyped(a) PROVE SessionFactsOf(a)
<1>1. /\ sessionPairs \in Nat /\ sessionUsed \subseteq 1 .. sessionPairs /\ sessionAlive \subseteq 1 .. sessionPairs
      /\ sessionJar \in Cookies(sessionPairs) /\ sessionPage \in {"app", "login"}
      /\ \A r \in Tabs(a) : sessionReq[r] \in Exchange(sessionPairs)
  BY SessionConstants DEF SessionTyped, SessionServer, SessionBrowser
<1>2. /\ sessionJar.access \in 0 .. sessionPairs /\ sessionJar.refresh \in 0 .. sessionPairs
      /\ sessionJar = [access |-> sessionJar.access, refresh |-> sessionJar.refresh, session |-> sessionJar.session]
  BY <1>1 DEF Cookies
<1>3. /\ \A r \in Tabs(a) : sessionReq[r].token \in 0 .. sessionPairs /\ sessionReq[r].at \in Points
      /\ \A r \in Tabs(a) : sessionReq[r].at \in {"check", "issue", "answer"} => sessionReq[r].token # 0
  BY <1>1 DEF Exchange
<1> QED
  BY <1>1, <1>2, <1>3 DEF SessionFactsOf

LEMMA SessionTypes == ASSUME NEW a \in BOOLEAN, SessionTyped(a), [Session(a)!Next]_sessionVars PROVE SessionTyped(a)'
<1>0. /\ sessionPairs \in Nat /\ sessionPairs \in 0 .. Signings(a) /\ sessionUsed \subseteq 1 .. sessionPairs /\ sessionAlive \subseteq 1 .. sessionPairs
      /\ sessionExpiries \in 0 .. (IF a THEN MaxSessionExpiries ELSE MaxTabExpiries)
      /\ sessionJar \in Cookies(sessionPairs) /\ sessionPage \in {"app", "login"}
      /\ sessionReq \in [Tabs(a) -> Exchange(sessionPairs)]
      /\ sessionLost \in BOOLEAN
  BY SessionConstants DEF SessionTyped, SessionServer, SessionBrowser
<1>1. CASE UNCHANGED sessionVars
  BY <1>1 DEF sessionVars, SessionTyped, SessionServer, SessionBrowser
<1>2. CASE Session(a)!Login
  <2>1. /\ sessionJar' = [access |-> sessionPairs', refresh |-> sessionPairs', session |-> TRUE] /\ sessionPage' = "app"
        /\ UNCHANGED <<sessionUsed, sessionExpiries, sessionReq, sessionLost>> /\ Session(a)!Sign
        /\ sessionPairs' = sessionPairs + 1
    BY <1>2 DEF Session!Login, Session!Jar, Session!Sign
  <2>2. sessionJar' \in Cookies(sessionPairs') /\ sessionReq' \in [Tabs(a) -> Exchange(sessionPairs')]
    BY <1>0, <2>1, SessionData
  <2> QED
    BY <1>0, <2>1, <2>2, SessionSigns DEF SessionTyped, SessionServer, SessionBrowser
<1>3. CASE Session(a)!Logout
  <2>1. /\ sessionJar' = [access |-> 0, refresh |-> 0, session |-> FALSE] /\ sessionPage' = "login" /\ sessionAlive' \subseteq sessionAlive
        /\ UNCHANGED <<sessionPairs, sessionUsed, sessionExpiries, sessionReq, sessionLost>>
    BY <1>3 DEF Session!Logout, Session!NoJar
  <2> QED
    BY <1>0, <2>1, SessionData DEF SessionTyped, SessionServer, SessionBrowser
<1>4. CASE Session(a)!Navigate
  <2>1. UNCHANGED <<sessionJar, sessionAlive, sessionUsed, sessionPairs, sessionExpiries, sessionReq, sessionLost>> /\ sessionPage' = "login"
    BY <1>4 DEF Session!Navigate, Session!server
  <2> QED
    BY <1>0, <2>1 DEF SessionTyped, SessionServer, SessionBrowser
<1>5. CASE Session(a)!AccessExpires
  BY <1>5, SessionConstants DEF Session!AccessExpires, SessionTyped, SessionServer, SessionBrowser
<1>6. ASSUME NEW r \in Tabs(a),
             \/ Session(a)!Send(r) \/ Session(a)!SendRefresh(r) \/ Session(a)!NoToken(r)
             \/ Session(a)!Check(r) \/ Session(a)!Retry(r)
      PROVE  SessionTyped(a)'
  <2>1. UNCHANGED <<sessionJar, sessionAlive, sessionUsed, sessionPairs, sessionExpiries, sessionPage, sessionLost>>
    BY <1>6 DEF Session!Send, Session!SendRefresh, Session!NoToken, Session!Check, Session!Retry, Session!server
  <2>2. sessionReq[r].token \in 0 .. sessionPairs /\ (sessionReq[r].at = "check" => sessionReq[r].token # 0) /\ sessionJar.refresh \in 0 .. sessionPairs
    BY <1>0, SessionData
  <2>3. PICK p \in Points, t \in 0 .. sessionPairs : Session(a)!Goto(r, p, t) /\ (p \in {"check", "issue", "answer"} => t # 0)
    BY <1>0, <1>6, <2>2 DEF Session!Send, Session!SendRefresh, Session!NoToken, Session!Check, Session!Retry, Points
  <2>4. sessionReq' \in [Tabs(a) -> Exchange(sessionPairs)]
    BY <2>3, SessionRequest
  <2> QED
    BY <1>0, <2>1, <2>4 DEF SessionTyped, SessionServer, SessionBrowser
<1>7. ASSUME NEW r \in Tabs(a), Session(a)!Issue(r) PROVE SessionTyped(a)'
  <2>1. /\ UNCHANGED <<sessionJar, sessionExpiries, sessionPage, sessionLost>> /\ sessionReq[r].at = "issue"
        /\ Session(a)!Sign /\ sessionUsed' = sessionUsed \cup {sessionReq[r].token} /\ Session(a)!Goto(r, "answer", sessionPairs + 1)
    BY <1>7 DEF Session!Issue
  <2>2. sessionReq[r].token \in 1 .. sessionPairs
    BY <1>0, <2>1, SessionData
  <2>3. sessionReq' \in [Tabs(a) -> Exchange(sessionPairs + 1)]
    BY <1>0, <2>1, SessionRequest DEF Points
  <2>4. sessionJar' \in Cookies(sessionPairs + 1)
    BY <1>0, <2>1, SessionData
  <2>5. sessionPairs' = sessionPairs + 1 /\ sessionPairs' \in 0 .. Signings(a) /\ sessionAlive' \subseteq 1 .. sessionPairs'
    BY <2>1, SessionSigns
  <2>6. sessionUsed' \subseteq 1 .. sessionPairs'
    <3>1. sessionUsed' \subseteq 1 .. sessionPairs
      BY <1>0, <2>1, <2>2
    <3> QED
      BY <1>0, <2>5, <3>1
  <2>7. SessionServer(a)'
    BY <1>0, <2>1, <2>5, <2>6 DEF SessionServer
  <2>8. SessionBrowser(a)'
    BY <1>0, <2>1, <2>3, <2>4, <2>5 DEF SessionBrowser
  <2> QED
    BY <1>0, <2>1, <2>7, <2>8 DEF SessionTyped
<1>8. ASSUME NEW r \in Tabs(a), Session(a)!Answer(r) PROVE SessionTyped(a)'
  <2>1. /\ UNCHANGED <<sessionAlive, sessionUsed, sessionPairs, sessionExpiries, sessionPage, sessionLost>>
        /\ sessionJar' = [access |-> sessionReq[r].token, refresh |-> sessionReq[r].token, session |-> TRUE]
        /\ Session(a)!Goto(r, "retry", 0)
    BY <1>8 DEF Session!Answer, Session!server, Session!Jar
  <2>2. sessionReq' \in [Tabs(a) -> Exchange(sessionPairs)]
    BY <1>0, <2>1, SessionRequest DEF Points
  <2>3. sessionJar' \in Cookies(sessionPairs)
    BY <1>0, <2>1, SessionData
  <2> QED
    BY <1>0, <2>1, <2>2, <2>3 DEF SessionTyped, SessionServer, SessionBrowser
<1>9. ASSUME NEW r \in Tabs(a), Session(a)!Refused(r) \/ Session(a)!Lost(r) PROVE SessionTyped(a)'
  <2>1. /\ UNCHANGED <<sessionAlive, sessionPairs, sessionExpiries, sessionPage>>
        /\ sessionJar' = [sessionJar EXCEPT !.session = FALSE] /\ Session(a)!Goto(r, "idle", 0)
    BY <1>9 DEF Session!Refused, Session!Lost, Session!server, Session!ClearSession
  <2>2. sessionReq' \in [Tabs(a) -> Exchange(sessionPairs)]
    BY <1>0, <2>1, SessionRequest DEF Points
  <2>3. sessionJar' \in Cookies(sessionPairs)
    BY <1>0, <2>1, SessionData
  <2>4. sessionUsed' \subseteq 1 .. sessionPairs
    <3>1. sessionReq[r].at = "issue" => sessionReq[r].token \in 1 .. sessionPairs
      BY <1>0, SessionData
    <3> QED
      BY <1>0, <1>9, <3>1 DEF Session!Refused, Session!Lost, Session!server
  <2>5. sessionLost' \in BOOLEAN
    BY <1>0, <1>9 DEF Session!Refused, Session!Lost
  <2> QED
    BY <1>0, <2>1, <2>2, <2>3, <2>4, <2>5 DEF SessionTyped, SessionServer, SessionBrowser
<1> QED
  BY <1>1, <1>2, <1>3, <1>4, <1>5, <1>6, <1>7, <1>8, <1>9 DEF Session!Next, Session!Request, sessionVars, Tabs

(* One tab.  Whoever is signed in has the cookies of one pair, whose       *)
(* refresh token is used only while the answer with the next pair comes;   *)
(* a request under way has found the access token dead, so that nobody     *)
(* signs out meanwhile.                                                    *)
tab == sessionReq[r1]
OneTab ==
  /\ sessionPage = "app" => sessionJar = [access |-> sessionJar.refresh, refresh |-> sessionJar.refresh, session |-> TRUE] /\ sessionJar.refresh # 0
  /\ sessionPage = "login" => sessionJar.refresh = 0 /\ tab.at \in {"idle", "retry"}
  /\ tab.at \in {"unauthorized", "check", "issue", "answer"} => sessionJar.access \notin sessionAlive
  /\ tab.at # "refused"
  /\ tab.at \in {"check", "issue"} => tab.token = sessionJar.refresh
  /\ sessionJar.refresh \in sessionUsed => tab.at = "answer"
  /\ tab.at = "answer" => tab.token \notin sessionUsed

LEMMA OneTabInit == Session(TRUE)!Init => OneTab
BY DEF Session!Init, OneTab, Session!NoJar, Session!Idle, tab

LEMMA OneTabStep ==
  ASSUME SessionTyped(TRUE), OneTab, [Session(TRUE)!Next]_sessionVars
  PROVE  OneTab'
<1>0. /\ sessionPairs \in Nat /\ sessionUsed \subseteq 1 .. sessionPairs /\ sessionAlive \subseteq 1 .. sessionPairs
      /\ sessionJar.access \in 0 .. sessionPairs /\ sessionJar.refresh \in 0 .. sessionPairs
      /\ sessionPage \in {"app", "login"} /\ r1 \in Tabs(TRUE)
      /\ tab.token \in 0 .. sessionPairs /\ (tab.at \in {"check", "issue", "answer"} => tab.token # 0) /\ tab.at \in Points
      /\ sessionJar = [access |-> sessionJar.access, refresh |-> sessionJar.refresh, session |-> sessionJar.session]
  <2>1. SessionTyped(TRUE) => SessionFactsOf(TRUE)
    BY SessionFacts, Zenon
  <2>2. r1 \in Tabs(TRUE)
    BY DEF Tabs
  <2> QED
    BY <2>1, <2>2 DEF SessionFactsOf, tab
<1>a. ASSUME NEW p, NEW t, Session(TRUE)!Goto(r1, p, t) PROVE tab' = [at |-> p, token |-> t] /\ tab'.at = p /\ tab'.token = t
  BY <1>a DEF Session!Goto, SessionTyped, SessionBrowser, Tabs, tab
<1> USE DEF OneTab
<1>1. CASE UNCHANGED sessionVars
  BY <1>1 DEF sessionVars, tab
<1>2. CASE Session(TRUE)!Login
  <2>1. /\ sessionJar' = [access |-> sessionPairs', refresh |-> sessionPairs', session |-> TRUE] /\ sessionPage' = "app"
        /\ UNCHANGED <<sessionUsed, tab>> /\ sessionPage = "login" /\ sessionPairs' = sessionPairs + 1
    BY <1>2 DEF Session!Login, Session!Jar, Session!Sign, tab
  <2>2. sessionJar'.refresh = sessionPairs + 1 /\ sessionJar'.refresh \notin sessionUsed
    BY <1>0, <2>1
  <2> QED
    BY <1>0, <2>1, <2>2
<1>3. CASE Session(TRUE)!Logout
  <2>1. /\ sessionJar' = [access |-> 0, refresh |-> 0, session |-> FALSE] /\ sessionPage' = "login"
        /\ UNCHANGED <<sessionUsed, tab>> /\ sessionPage = "app" /\ sessionJar.access \in sessionAlive
    BY <1>3 DEF Session!Logout, Session!NoJar, tab
  <2>2. sessionJar'.refresh = 0 /\ sessionJar'.refresh \notin sessionUsed
    BY <1>0, <2>1
  <2>3. tab.at \in {"idle", "retry"}
    BY <1>0, <2>1 DEF Points
  <2> QED
    BY <2>1, <2>2, <2>3
<1>4. CASE Session(TRUE)!Navigate
  BY <1>4 DEF Session!Navigate
<1>5. CASE Session(TRUE)!AccessExpires
  <2>1. UNCHANGED <<sessionUsed, sessionJar, sessionPage, tab>> /\ sessionAlive' = {}
    BY <1>5 DEF Session!AccessExpires, tab
  <2> QED
    BY <2>1
<1>6. CASE Session(TRUE)!Send(r1)
  <2>1. /\ UNCHANGED <<sessionJar, sessionAlive, sessionUsed, sessionPage>>
        /\ sessionPage = "app" /\ tab.at = "idle" /\ sessionJar.access \notin sessionAlive /\ Session(TRUE)!Goto(r1, "unauthorized", 0)
    BY <1>6 DEF Session!Send, Session!server, tab
  <2>2. tab'.at = "unauthorized"
    BY <1>a, <2>1
  <2> QED
    BY <2>1, <2>2
<1>7. CASE Session(TRUE)!SendRefresh(r1)
  <2>1. /\ UNCHANGED <<sessionJar, sessionAlive, sessionUsed, sessionPage>>
        /\ tab.at = "unauthorized" /\ Session(TRUE)!Goto(r1, "check", sessionJar.refresh)
    BY <1>7 DEF Session!SendRefresh, Session!server, tab
  <2>2. tab'.at = "check" /\ tab'.token = sessionJar.refresh
    BY <1>a, <2>1
  <2> QED
    BY <2>1, <2>2
<1>8. CASE Session(TRUE)!NoToken(r1)
  BY <1>0, <1>a, <1>8 DEF Session!NoToken, Session!server, tab
<1>9. CASE Session(TRUE)!Check(r1)
  BY <1>0, <1>a, <1>9 DEF Session!Check, Session!server, tab
<1>10. CASE Session(TRUE)!Issue(r1)
  <2>1. /\ UNCHANGED <<sessionJar, sessionPage>> /\ tab.at = "issue" /\ sessionAlive' = sessionAlive \cup {sessionPairs + 1}
        /\ sessionUsed' = sessionUsed \cup {tab.token} /\ Session(TRUE)!Goto(r1, "answer", sessionPairs + 1)
    BY <1>10 DEF Session!Issue, Session!Sign, tab
  <2>2. tab'.at = "answer" /\ tab'.token = sessionPairs + 1
    BY <1>a, <2>1
  <2> QED
    BY <1>0, <2>1, <2>2
<1>11. CASE Session(TRUE)!Answer(r1)
  <2>1. /\ UNCHANGED <<sessionAlive, sessionUsed, sessionPage>> /\ tab.at = "answer"
        /\ sessionJar' = [access |-> tab.token, refresh |-> tab.token, session |-> TRUE]
        /\ Session(TRUE)!Goto(r1, "retry", 0)
    BY <1>11 DEF Session!Answer, Session!server, Session!Jar, tab
  <2>2. tab'.at = "retry"
    BY <1>a, <2>1
  <2>3. sessionJar'.refresh = tab.token /\ sessionPage = "app"
    BY <1>0, <2>1
  <2> QED
    BY <1>0, <2>1, <2>2, <2>3
<1>12. CASE Session(TRUE)!Refused(r1)
  BY <1>12 DEF Session!Refused, tab
<1>13. CASE Session(TRUE)!Retry(r1)
  <2>1. /\ UNCHANGED <<sessionJar, sessionAlive, sessionUsed, sessionPage>>
        /\ tab.at = "retry" /\ Session(TRUE)!Goto(r1, "idle", 0)
    BY <1>13 DEF Session!Retry, Session!server, tab
  <2>2. tab'.at = "idle"
    BY <1>a, <2>1
  <2> QED
    BY <2>1, <2>2
<1>14. ~Session(TRUE)!Lost(r1)
  BY DEF Session!Lost
<1> QED
  BY <1>1, <1>2, <1>3, <1>4, <1>5, <1>6, <1>7, <1>8, <1>9, <1>10, <1>11, <1>12, <1>13, <1>14
     DEF Session!Next, Session!Request, sessionVars

(* Several tabs.  No two answers that are coming carry the same pair, and  *)
(* none a pair that the browser has, or has sent, or that was used; so as  *)
(* long as no answer is lost, a cookie that was used is about to be        *)
(* replaced.                                                               *)
Fresh(reqs, used, token) ==
  \A r \in SessionTabs : reqs[r].at = "answer" => reqs[r].token \notin used /\ reqs[r].token # token
Distinct(reqs) ==
  \A r \in SessionTabs, s \in SessionTabs :
    reqs[r].at = "answer" /\ s # r /\ reqs[s].at \in {"check", "issue", "answer"} => reqs[r].token # reqs[s].token
Replaced(reqs, used, token) == token \in used => \E r \in SessionTabs : reqs[r].at = "answer"
AllTabs ==
  /\ Fresh(sessionReq, sessionUsed, sessionJar.refresh) /\ Distinct(sessionReq)
  /\ sessionLost # TRUE => Replaced(sessionReq, sessionUsed, sessionJar.refresh)

LEMMA NextIsNew == \A n \in Nat : (\A k \in 0 .. n : k # n + 1) /\ n + 1 # 0 /\ n + 1 \notin 1 .. n
OBVIOUS

(* One request goes on, and takes no token that an answer has or will meet. *)
LEMMA DistinctStays ==
  ASSUME NEW reqs, NEW new, NEW r \in SessionTabs, Distinct(reqs),
         \A s \in SessionTabs : s # r => new[s] = reqs[s],
         new[r].at \in {"check", "issue"} =>
           \A s \in SessionTabs : s # r /\ reqs[s].at = "answer" => reqs[s].token # new[r].token,
         new[r].at = "answer" =>
           \A s \in SessionTabs : s # r /\ reqs[s].at \in {"check", "issue", "answer"} => reqs[s].token # new[r].token
  PROVE  Distinct(new)
<1> SUFFICES ASSUME NEW x \in SessionTabs, NEW y \in SessionTabs,
                    new[x].at = "answer", y # x, new[y].at \in {"check", "issue", "answer"}
             PROVE  new[x].token # new[y].token
  BY DEF Distinct
<1>1. CASE x = r
  BY <1>1
<1>2. CASE y = r
  BY <1>2
<1>3. CASE x # r /\ y # r
  BY <1>3 DEF Distinct
<1> QED
  BY <1>1, <1>2, <1>3

LEMMA FreshStays ==
  ASSUME NEW reqs, NEW new, NEW r \in SessionTabs,
         \A s \in SessionTabs : s # r => new[s] = reqs[s],
         NEW used, NEW token,
         \A s \in SessionTabs : s # r /\ reqs[s].at = "answer" => reqs[s].token \notin used /\ reqs[s].token # token,
         new[r].at = "answer" => new[r].token \notin used /\ new[r].token # token
  PROVE  Fresh(new, used, token)
BY DEF Fresh

LEMMA AllTabsInit == Session(FALSE)!Init => AllTabs
BY DEF Session!Init, AllTabs, Session!Idle, Session!NoJar, Fresh, Distinct, Replaced

LEMMA AllTabsStep ==
  ASSUME SessionTyped(FALSE), AllTabs, [Session(FALSE)!Next]_sessionVars
  PROVE  AllTabs'
<1>0. /\ sessionPairs \in Nat /\ sessionUsed \subseteq 1 .. sessionPairs
      /\ sessionJar.refresh \in 0 .. sessionPairs
      /\ \A r \in SessionTabs : sessionReq[r].token \in 0 .. sessionPairs /\ sessionReq[r].at \in Points
      /\ \A r \in SessionTabs : sessionReq[r].at \in {"check", "issue", "answer"} => sessionReq[r].token # 0
      /\ SessionTabs = Tabs(FALSE)
  <2>1. SessionTyped(FALSE) => SessionFactsOf(FALSE)
    BY SessionFacts, Zenon
  <2>2. SessionTabs = Tabs(FALSE)
    BY DEF Tabs
  <2> QED
    BY <2>1, <2>2 DEF SessionFactsOf
<1>a. ASSUME NEW r \in SessionTabs, NEW p, NEW t, Session(FALSE)!Goto(r, p, t)
      PROVE  /\ sessionReq'[r].at = p /\ sessionReq'[r].token = t
             /\ \A s \in SessionTabs : s # r => sessionReq'[s] = sessionReq[s]
  BY <1>a DEF Session!Goto, SessionTyped, SessionBrowser, Tabs
<1>1. CASE UNCHANGED sessionVars
  BY <1>1 DEF sessionVars, AllTabs, Fresh, Distinct, Replaced
<1>2. CASE Session(FALSE)!Login \/ Session(FALSE)!Logout
  <2>1. /\ UNCHANGED <<sessionUsed, sessionReq, sessionLost>>
        /\ \/ sessionJar'.refresh = sessionPairs + 1
           \/ sessionJar'.refresh = 0
    <3>1. CASE Session(FALSE)!Login
      <4>1. sessionJar' = [access |-> sessionPairs + 1, refresh |-> sessionPairs + 1, session |-> TRUE] /\ UNCHANGED <<sessionUsed, sessionReq, sessionLost>>
        BY <3>1 DEF Session!Login, Session!Jar
      <4> QED
        BY <4>1
    <3>2. CASE Session(FALSE)!Logout
      <4>1. sessionJar' = [access |-> 0, refresh |-> 0, session |-> FALSE] /\ UNCHANGED <<sessionUsed, sessionReq, sessionLost>>
        BY <3>2 DEF Session!Logout, Session!NoJar
      <4> QED
        BY <4>1
    <3> QED
      BY <1>2, <3>1, <3>2
  <2>2. Fresh(sessionReq', sessionUsed', sessionJar'.refresh)
    <3>1. \A r \in SessionTabs : sessionReq[r].at = "answer" => sessionReq[r].token # sessionPairs + 1 /\ sessionReq[r].token # 0
      BY <1>0, NextIsNew
    <3> QED
      BY <2>1, <3>1 DEF AllTabs, Fresh
  <2>3. Distinct(sessionReq')
    BY <1>0, <2>1 DEF AllTabs, Distinct
  <2>4. sessionLost' # TRUE => Replaced(sessionReq', sessionUsed', sessionJar'.refresh)
    BY <1>0, <2>1 DEF AllTabs, Fresh, Replaced
  <2> QED
    BY <2>2, <2>3, <2>4 DEF AllTabs
<1>3. CASE Session(FALSE)!Navigate \/ Session(FALSE)!AccessExpires
  <2>1. UNCHANGED <<sessionUsed, sessionReq, sessionJar, sessionLost>>
    BY <1>3 DEF Session!Navigate, Session!AccessExpires, Session!server
  <2>2. Fresh(sessionReq', sessionUsed', sessionJar'.refresh)
    BY <2>1 DEF AllTabs, Fresh, Distinct
  <2>3. Distinct(sessionReq')
    BY <2>1 DEF AllTabs, Distinct
  <2>4. sessionLost' # TRUE => Replaced(sessionReq', sessionUsed', sessionJar'.refresh)
    BY <2>1 DEF AllTabs, Fresh, Replaced
  <2> QED
    BY <2>2, <2>3, <2>4 DEF AllTabs
<1>4. ASSUME NEW r \in SessionTabs,
             \/ Session(FALSE)!Send(r) \/ Session(FALSE)!SendRefresh(r) \/ Session(FALSE)!NoToken(r)
             \/ Session(FALSE)!Check(r) \/ Session(FALSE)!Retry(r)
      PROVE  AllTabs'
  <2>1. UNCHANGED <<sessionUsed, sessionJar, sessionLost>> /\ sessionReq[r].at # "answer"
    BY <1>4 DEF Session!Send, Session!SendRefresh, Session!NoToken, Session!Check, Session!Retry, Session!server
  <2> DEFINE Goes(p, t) ==
        /\ p \in Points /\ p # "answer" /\ Session(FALSE)!Goto(r, p, t)
        /\ p \in {"check", "issue"} =>
             t = sessionJar.refresh \/ (sessionReq[r].at = "check" /\ t = sessionReq[r].token)
  <2>a. \/ Goes("unauthorized", 0) \/ Goes("check", sessionJar.refresh) \/ Goes("refused", 0)
        \/ Goes("refused", sessionReq[r].token) \/ Goes("issue", sessionReq[r].token) \/ Goes("idle", 0)
    BY <1>4 DEF Session!Send, Session!SendRefresh, Session!NoToken, Session!Check, Session!Retry, Points
  <2>2. PICK p, t : Goes(p, t)
    BY <2>a
  <2>3. /\ sessionReq'[r].at = p /\ sessionReq'[r].token = t
        /\ \A s \in SessionTabs : s # r => sessionReq'[s] = sessionReq[s]
    BY <1>a, <2>2
  <2>4. Fresh(sessionReq', sessionUsed', sessionJar'.refresh)
    BY <2>1, <2>2, <2>3, FreshStays DEF AllTabs, Fresh
  <2>5. Distinct(sessionReq')
    BY <2>1, <2>2, <2>3, DistinctStays DEF AllTabs, Fresh, Distinct
  <2>6. sessionLost' # TRUE => Replaced(sessionReq', sessionUsed', sessionJar'.refresh)
    BY <1>0, <2>1, <2>2, <2>3 DEF AllTabs, Fresh, Replaced
  <2> QED
    BY <2>4, <2>5, <2>6 DEF AllTabs
<1>5. ASSUME NEW r \in SessionTabs, Session(FALSE)!Issue(r) PROVE AllTabs'
  <2>1. /\ UNCHANGED <<sessionJar, sessionLost>> /\ sessionReq[r].at = "issue"
        /\ sessionUsed' = sessionUsed \cup {sessionReq[r].token} /\ Session(FALSE)!Goto(r, "answer", sessionPairs + 1)
    BY <1>5 DEF Session!Issue
  <2>2. /\ sessionReq'[r].at = "answer" /\ sessionReq'[r].token = sessionPairs + 1
        /\ \A s \in SessionTabs : s # r => sessionReq'[s] = sessionReq[s]
    BY <1>a, <2>1
  <2>3. Fresh(sessionReq', sessionUsed', sessionJar'.refresh)
    <3>1. \A s \in SessionTabs : s # r /\ sessionReq[s].at = "answer"
             => sessionReq[s].token \notin sessionUsed' /\ sessionReq[s].token # sessionJar'.refresh
      BY <2>1 DEF AllTabs, Fresh, Distinct
    <3>2. sessionPairs + 1 \notin sessionUsed' /\ sessionPairs + 1 # sessionJar'.refresh
      <4>1. sessionReq[r].token \in 0 .. sessionPairs /\ sessionJar'.refresh \in 0 .. sessionPairs
        BY <1>0, <2>1
      <4> QED
        BY <1>0, <2>1, <4>1, NextIsNew
    <3> QED
      BY <2>1, <2>2, <3>1, <3>2, FreshStays
  <2>4. Distinct(sessionReq')
    <3>1. \A s \in SessionTabs : sessionReq[s].token # sessionPairs + 1
      BY <1>0, NextIsNew
    <3> QED
      BY <2>1, <2>2, <3>1, DistinctStays DEF AllTabs
  <2>5. sessionLost' # TRUE => Replaced(sessionReq', sessionUsed', sessionJar'.refresh)
    BY <1>0, <2>1, <2>2 DEF AllTabs, Fresh, Replaced
  <2> QED
    BY <2>3, <2>4, <2>5 DEF AllTabs
<1>6. ASSUME NEW r \in SessionTabs, Session(FALSE)!Answer(r) PROVE AllTabs'
  <2>1. /\ UNCHANGED <<sessionUsed, sessionLost>> /\ sessionReq[r].at = "answer"
        /\ sessionJar'.refresh = sessionReq[r].token /\ Session(FALSE)!Goto(r, "retry", 0)
    BY <1>6 DEF Session!Answer, Session!server, Session!Jar
  <2>2. /\ sessionReq'[r].at = "retry" /\ \A s \in SessionTabs : s # r => sessionReq'[s] = sessionReq[s]
    BY <1>a, <2>1
  <2>3. Fresh(sessionReq', sessionUsed', sessionJar'.refresh)
    BY <2>1, <2>2, FreshStays DEF AllTabs, Fresh, Distinct
  <2>4. Distinct(sessionReq')
    BY <2>1, <2>2, DistinctStays DEF AllTabs
  <2>5. sessionLost' # TRUE => Replaced(sessionReq', sessionUsed', sessionJar'.refresh)
    BY <1>0, <2>1, <2>2 DEF AllTabs, Fresh, Replaced
  <2> QED
    BY <2>3, <2>4, <2>5 DEF AllTabs
<1>7. ASSUME NEW r \in SessionTabs, Session(FALSE)!Refused(r) \/ Session(FALSE)!Lost(r) PROVE AllTabs'
  <2>1. /\ sessionJar'.refresh = sessionJar.refresh /\ Session(FALSE)!Goto(r, "idle", 0)
    <3>1. sessionJar' = [sessionJar EXCEPT !.session = FALSE]
      BY <1>7 DEF Session!Refused, Session!Lost, Session!ClearSession
    <3>2. sessionJar \in Cookies(sessionPairs)
      BY DEF SessionTyped, SessionBrowser
    <3> QED
      BY <1>7, <3>1, <3>2 DEF Session!Refused, Session!Lost, Cookies
  <2>2. /\ sessionReq'[r].at = "idle" /\ \A s \in SessionTabs : s # r => sessionReq'[s] = sessionReq[s]
    BY <1>a, <2>1
  <2>3. \/ UNCHANGED <<sessionUsed, sessionLost>> /\ sessionReq[r].at # "answer"
        \/ sessionLost' = TRUE /\ UNCHANGED sessionUsed
        \/ sessionLost' = TRUE /\ sessionReq[r].at = "issue" /\ sessionUsed' = sessionUsed \cup {sessionReq[r].token}
    <3>1. CASE Session(FALSE)!Refused(r)
      BY <3>1 DEF Session!Refused, Session!server
    <3>2. CASE Session(FALSE)!Lost(r)
      BY <3>2 DEF Session!Lost, Session!server
    <3> QED
      BY <1>7, <3>1, <3>2
  <2>4. Fresh(sessionReq', sessionUsed', sessionJar'.refresh)
    <3>1. \A s \in SessionTabs : s # r /\ sessionReq[s].at = "answer"
             => sessionReq[s].token \notin sessionUsed' /\ sessionReq[s].token # sessionJar'.refresh
      BY <2>1, <2>3 DEF AllTabs, Fresh, Distinct
    <3> QED
      BY <2>2, <3>1, FreshStays
  <2>5. Distinct(sessionReq')
    BY <2>2, DistinctStays DEF AllTabs
  <2>6. sessionLost' # TRUE => Replaced(sessionReq', sessionUsed', sessionJar'.refresh)
    <3>1. sessionLost' # TRUE => sessionLost # TRUE /\ UNCHANGED sessionUsed /\ sessionReq[r].at # "answer"
      BY <2>3, Zenon
    <3>2. Replaced(sessionReq, sessionUsed, sessionJar.refresh) /\ UNCHANGED sessionUsed /\ sessionReq[r].at # "answer"
             => Replaced(sessionReq', sessionUsed', sessionJar'.refresh)
      BY <2>1, <2>2 DEF Replaced
    <3> QED
      BY <3>1, <3>2, Zenon DEF AllTabs
  <2> QED
    BY <2>4, <2>5, <2>6 DEF AllTabs
<1> QED
  BY <1>1, <1>2, <1>3, <1>4, <1>5, <1>6, <1>7 DEF Session!Next, Session!Request, sessionVars

(* A step of the application is one of the browser, or none of it.         *)
LEMMA SessionTurns ==
  ASSUME [Next]_vars
  PROVE  /\ UNCHANGED under
         /\ under = "session" => [Session(FALSE)!Next]_sessionVars
         /\ under # "session" => [Session(TRUE)!Next]_sessionVars
BY DEF Next, Turn, vars, NotInvoice, NotQuote, NotContract, NotDiscount, NotMoney, NotTeam, NotInvite, NotSession

SignedIn ==
  /\ under = "session" => SessionTyped(FALSE) /\ AllTabs
  /\ under # "session" => SessionTyped(TRUE) /\ OneTab

(* Who has a refresh token that can be exchanged is not sent to the login  *)
(* page, with one tab; and whatever the number of tabs, the exchanges at   *)
(* once and the order of their answers, if none is lost the cookie they    *)
(* leave can be exchanged.                                                 *)
THEOREM StaysSignedInAlways == Spec => []StaysSignedIn
<1>1. Init => SignedIn
  BY SessionInit, OneTabInit, AllTabsInit DEF Init, SignedIn
<1>2. SignedIn /\ [Next]_vars => SignedIn'
  BY SessionTurns, SessionTypes, OneTabStep, AllTabsStep DEF SignedIn
<1>3. SignedIn => StaysSignedIn
  <2> SUFFICES ASSUME SignedIn PROVE StaysSignedIn
    OBVIOUS
  <2>1. under = "session, one tab" => Session(TRUE)!TypeOK /\ Session(TRUE)!StaysSignedIn
    BY SessionTypeOK DEF SignedIn, OneTab, Session!StaysSignedIn
  <2>2. under = "session" => Session(FALSE)!TypeOK
    BY SessionTypeOK DEF SignedIn
  <2>3. ASSUME under = "session", Session(FALSE)!Quiet, sessionLost # TRUE PROVE sessionJar.refresh \notin sessionUsed
    BY <2>3 DEF SignedIn, AllTabs, Replaced, Session!Quiet
  <2>4. under = "session" => Session(FALSE)!JarIsUsable
    BY <2>3, Zenon DEF Session!JarIsUsable
  <2> QED
    BY <2>1, <2>2, <2>4 DEF StaysSignedIn
<1> QED
  BY <1>1, <1>2, <1>3, PTL DEF Spec

-----------------------------------------------------------------------------
(* Contracts.                                                              *)
Parties(a)  == IF a THEN ContractStaff ELSE ContractVisitors
MostSigned(a) == IF a THEN MaxStaffSignatures ELSE MaxPortalSignatures
ByClient    == contractSignatures["CLIENT"]
ByCompany   == contractSignatures["COMPANY_REP"]
AllSigned   == ByClient >= contractRequired["CLIENT"] /\ ByCompany >= contractRequired["COMPANY_REP"]
Templates   == {[CLIENT |-> 1, COMPANY_REP |-> n] : n \in 0 .. 2}
Handling    == [at: {"idle", "write", "close"}, op: {"send", "sign", "void", "amend", "none"}]
Signing(r)  == contractReq[r].op = "sign"
AboutTo(r)  == contractReq[r] = [at |-> "write", op |-> "sign"]

LEMMA ContractConstants ==
  ASSUME NEW a \in BOOLEAN
  PROVE  IsFiniteSet(Parties(a)) /\ MostSigned(a) \in Nat
<1>1. Contract(TRUE)!ContractSigningAssumption /\ Contract(FALSE)!ContractSigningAssumption
  BY OfficeAssumption
<1>2. IsFiniteSet(ContractStaff) /\ IsFiniteSet(ContractVisitors) /\ MaxStaffSignatures \in Nat /\ MaxPortalSignatures \in Nat
  BY <1>1 DEF Contract!ContractSigningAssumption, Contract!IsFiniteSet, IsFiniteSet
<1> QED
  BY <1>2 DEF Parties, MostSigned

(* At the portal there is one signature under way at most, by a client who *)
(* has not signed, and room for it; staff never take that way.             *)
ContractInv(a) ==
  /\ contractStatus \in Contract(a)!Statuses /\ contractRequired \in Templates
  /\ contractSignatures \in [{"CLIENT", "COMPANY_REP"} -> Nat]
  /\ contractReq \in [Parties(a) -> Handling]
  /\ contractOwn \in {0, 1} /\ contractOwn <= ByClient
  /\ ByClient + ByCompany <= MostSigned(a)
  /\ \A r \in Parties(a) : AboutTo(r) => contractOwn = 0 /\ ByClient + ByCompany < MostSigned(a)
  /\ \A r \in Parties(a), s \in Parties(a) : Signing(r) /\ Signing(s) => r = s
  /\ a = TRUE => \A r \in Parties(a) : ~Signing(r) /\ contractReq[r].at # "close"

(* How many requests sign at the portal.                                   *)
LEMMA ContractCounts ==
  ASSUME NEW a \in BOOLEAN
  PROVE  /\ Contract(a)!UnderWay \in Nat
         /\ \A r \in Parties(a) : AboutTo(r) => Contract(a)!UnderWay >= 1
         /\ Contract(a)!AtPortal => a = FALSE /\ \A r \in Parties(a) : ~Signing(r)
<1> DEFINE U == {r \in Parties(a) : AboutTo(r)}
           S == {r \in Parties(a) : Signing(r)}
<1>1. Contract(a)!UnderWay = Cardinality(U)
  BY DEF Contract!UnderWay, Contract!Cardinality, Contract!IsFiniteSet, Cardinality, IsFiniteSet, Parties, AboutTo
<1>2. Contract(a)!AtPortal => Cardinality(S) < IF a THEN 0 ELSE 1
  BY DEF Contract!AtPortal, Contract!Cardinality, Contract!IsFiniteSet, Cardinality, IsFiniteSet, Parties, Signing
<1>3. IsFiniteSet(U) /\ IsFiniteSet(S)
  BY ContractConstants, FS_Subset
<1>4. Cardinality(U) \in Nat /\ Cardinality(S) \in Nat /\ (Cardinality(U) = 0 <=> U = {}) /\ (Cardinality(S) = 0 <=> S = {})
  BY <1>3, FS_CardinalityType, FS_EmptySet
<1> QED
  BY <1>1, <1>2, <1>4

LEMMA ContractInit == ASSUME NEW a \in BOOLEAN, Contract(a)!Init PROVE ContractInv(a)
BY ContractConstants DEF Contract!Init, ContractInv, Contract!Statuses, Contract!Roles, Contract!Idle, Templates, Handling,
   ByClient, ByCompany, AboutTo, Signing, Parties

LEMMA ContractTypeOK == ASSUME NEW a \in BOOLEAN, ContractInv(a) PROVE Contract(a)!TypeOK
<1>1. MostSigned(a) \in Nat /\ ByClient \in Nat /\ ByCompany \in Nat
  BY ContractConstants DEF ContractInv, ByClient, ByCompany
<1>2. ByClient \in 0 .. MostSigned(a) /\ ByCompany \in 0 .. MostSigned(a) /\ contractOwn \in 0 .. MostSigned(a)
  BY <1>1 DEF ContractInv
<1>3. contractSignatures \in [{"CLIENT", "COMPANY_REP"} -> 0 .. MostSigned(a)]
  BY <1>2 DEF ContractInv, ByClient, ByCompany
<1> QED
  BY <1>2, <1>3 DEF ContractInv, Contract!TypeOK, Contract!Roles, Contract!Ops, MostSigned, Parties, Handling, Templates

(* A signature more.                                                       *)
LEMMA ContractSigns ==
  ASSUME NEW a \in BOOLEAN, ContractInv(a), NEW role \in {"CLIENT", "COMPANY_REP"}, Contract(a)!Sign(role)
  PROVE  /\ contractSignatures' \in [{"CLIENT", "COMPANY_REP"} -> Nat]
         /\ ByClient' + ByCompany' = ByClient + ByCompany + 1 /\ ByClient' >= ByClient /\ ByCompany' >= ByCompany
         /\ role = "CLIENT" => ByClient' = ByClient + 1
         /\ {ByClient, ByCompany, ByClient', ByCompany'} \subseteq Nat
BY DEF ContractInv, Contract!Sign, ByClient, ByCompany

(* A request that reads or writes the status.                              *)
LEMMA ContractWrites ==
  ASSUME NEW a \in BOOLEAN, ContractInv(a), NEW r \in Parties(a), NEW at \in {"idle", "write"},
         NEW op \in {"send", "void", "amend", "none"}, Contract(a)!Goto(r, at, op)
  PROVE  /\ contractReq' \in [Parties(a) -> Handling]
         /\ \A s \in Parties(a) : (AboutTo(s)' => AboutTo(s)) /\ (Signing(s)' => Signing(s))
         /\ a = TRUE => \A s \in Parties(a) : contractReq'[s].at # "close"
BY DEF ContractInv, Contract!Goto, Handling, AboutTo, Signing

LEMMA ContractStep == ASSUME NEW a \in BOOLEAN, ContractInv(a), [Contract(a)!Next]_contractVars PROVE ContractInv(a)'
<1>0. MostSigned(a) \in Nat /\ ByClient \in Nat /\ ByCompany \in Nat
  BY ContractConstants DEF ContractInv, ByClient, ByCompany
<1>1. CASE UNCHANGED contractVars
  BY <1>1 DEF contractVars, ContractInv, ByClient, ByCompany, AboutTo, Signing
<1>2. ASSUME NEW role \in {"CLIENT", "COMPANY_REP"}, Contract(a)!signContract(role) PROVE ContractInv(a)'
  <2>1. /\ UNCHANGED <<contractRequired, contractOwn, contractReq>> /\ Contract(a)!Sign(role)
        /\ contractStatus' \in {"SIGNED", "PARTIALLY_SIGNED"} /\ ByClient + ByCompany + Contract(a)!UnderWay < MostSigned(a)
    BY <1>2 DEF Contract!signContract, Contract!Total, ByClient, ByCompany, MostSigned
  <2>2. /\ contractSignatures' \in [{"CLIENT", "COMPANY_REP"} -> Nat]
        /\ ByClient' + ByCompany' = ByClient + ByCompany + 1 /\ ByClient' >= ByClient
        /\ {ByClient, ByCompany, ByClient', ByCompany'} \subseteq Nat
    BY <2>1, ContractSigns
  <2> DEFINE w == Contract(a)!UnderWay  m == MostSigned(a)  c == ByClient  d == ByCompany  e == ByClient'  f == ByCompany'
  <2>a. w \in Nat /\ m \in Nat /\ {c, d, e, f} \subseteq Nat /\ c + d + w < m /\ e + f = c + d + 1
    BY <1>0, <2>1, <2>2, ContractCounts
  <2>b. \A r \in Parties(a) : AboutTo(r) => w >= 1
    BY ContractCounts
  <2> HIDE DEF w, m, c, d, e, f
  <2>c. e + f <= m /\ (w >= 1 => e + f < m)
    BY <2>a
  <2>3. ByClient' + ByCompany' <= MostSigned(a)
    BY <2>c DEF e, f, m
  <2>4. ASSUME NEW r \in Parties(a), AboutTo(r) PROVE ByClient' + ByCompany' < MostSigned(a)
    BY <2>b, <2>c, <2>4 DEF e, f, m
  <2>5. contractOwn' <= ByClient' /\ contractOwn' \in {0, 1}
    BY <1>0, <2>1, <2>2 DEF ContractInv
  <2> QED
    BY <2>1, <2>2, <2>3, <2>4, <2>5 DEF ContractInv, AboutTo, Signing, Contract!Statuses
<1>3. CASE Contract(a)!updateTemplate
  BY <1>3 DEF Contract!updateTemplate, ContractInv, ByClient, ByCompany, AboutTo, Signing, Templates
<1>4. ASSUME NEW r \in Parties(a), Contract(a)!Check(r) PROVE ContractInv(a)'
  <2>1. UNCHANGED <<contractStatus, contractSignatures, contractRequired, contractOwn>>
    BY <1>4 DEF Contract!Check
  <2>2. \/ \E op \in {"send", "void", "amend"} : Contract(a)!Goto(r, "write", op)
        \/ /\ Contract(a)!AtPortal /\ contractOwn = 0 /\ ByClient + ByCompany + Contract(a)!UnderWay < MostSigned(a)
           /\ Contract(a)!Goto(r, "write", "sign")
    BY <1>4 DEF Contract!Check, Contract!Total, ByClient, ByCompany, MostSigned
  <2>3. ASSUME NEW op \in {"send", "void", "amend"}, Contract(a)!Goto(r, "write", op) PROVE ContractInv(a)'
    <3>1. /\ contractReq' \in [Parties(a) -> Handling]
          /\ \A s \in Parties(a) : (AboutTo(s)' => AboutTo(s)) /\ (Signing(s)' => Signing(s))
          /\ a = TRUE => \A s \in Parties(a) : contractReq'[s].at # "close"
      BY <2>3, ContractWrites
    <3> QED
      BY <2>1, <3>1 DEF ContractInv, ByClient, ByCompany, AboutTo, Signing
  <2>4. ASSUME Contract(a)!AtPortal, contractOwn = 0, ByClient + ByCompany + Contract(a)!UnderWay < MostSigned(a),
               Contract(a)!Goto(r, "write", "sign")
        PROVE  ContractInv(a)'
    <3>0. a = FALSE /\ \A s \in Parties(a) : ~Signing(s)
      BY <2>4, ContractCounts
    <3>a. Contract(a)!UnderWay \in Nat
      BY ContractCounts
    <3>1. ByClient + ByCompany < MostSigned(a)
      BY <1>0, <2>4, <3>a
    <3>2. contractReq' \in [Parties(a) -> Handling] /\ \A s \in Parties(a) : s # r => ~Signing(s)'
      BY <2>4, <3>0 DEF ContractInv, Contract!Goto, Handling, Signing
    <3> QED
      BY <2>1, <2>4, <3>0, <3>1, <3>2 DEF ContractInv, ByClient, ByCompany, AboutTo, Signing
  <2> QED
    BY <2>2, <2>3, <2>4
<1>5. ASSUME NEW r \in Parties(a), Contract(a)!WriteStatus(r) PROVE ContractInv(a)'
  <2>1. /\ UNCHANGED <<contractSignatures, contractRequired, contractOwn>> /\ Contract(a)!Goto(r, "idle", "none")
        /\ contractStatus' \in {"SENT", "VOID", "AMENDED"}
    BY <1>5 DEF Contract!WriteStatus
  <2> QED
    BY <2>1 DEF ContractInv, ByClient, ByCompany, AboutTo, Signing, Contract!Goto, Handling, Contract!Statuses
<1>6. ASSUME NEW r \in Parties(a), Contract(a)!PortalSign(r) PROVE ContractInv(a)'
  <2>1. /\ UNCHANGED <<contractStatus, contractRequired>> /\ Contract(a)!Sign("CLIENT") /\ contractOwn' = contractOwn + 1
        /\ Contract(a)!Goto(r, "close", "sign") /\ AboutTo(r)
    BY <1>6 DEF Contract!PortalSign, ContractInv, Handling, AboutTo
  <2>2. a = FALSE /\ contractOwn = 0 /\ ByClient + ByCompany < MostSigned(a) /\ \A s \in Parties(a) : s # r => ~Signing(s)
    BY <2>1 DEF ContractInv, AboutTo, Signing
  <2>3. /\ contractSignatures' \in [{"CLIENT", "COMPANY_REP"} -> Nat] /\ ByClient' = ByClient + 1
        /\ ByClient' + ByCompany' = ByClient + ByCompany + 1
    BY <2>1, ContractSigns
  <2>4. contractReq' \in [Parties(a) -> Handling] /\ \A s \in Parties(a) : ~AboutTo(s)' /\ (s # r => ~Signing(s)')
    BY <2>1, <2>2 DEF ContractInv, Contract!Goto, Handling, AboutTo, Signing
  <2>5. contractOwn' = 1 /\ contractOwn' <= ByClient' /\ ByClient' + ByCompany' <= MostSigned(a)
    BY <1>0, <2>1, <2>2, <2>3
  <2> QED
    BY <2>1, <2>2, <2>3, <2>4, <2>5 DEF ContractInv
<1>7. ASSUME NEW r \in Parties(a), Contract(a)!PortalClose(r) PROVE ContractInv(a)'
  <2>1. /\ UNCHANGED <<contractSignatures, contractRequired, contractOwn>> /\ Contract(a)!Goto(r, "idle", "none")
        /\ contractStatus' = "SIGNED"
    BY <1>7 DEF Contract!PortalClose
  <2> QED
    BY <2>1 DEF ContractInv, ByClient, ByCompany, AboutTo, Signing, Contract!Goto, Handling, Contract!Statuses
<1> QED
  BY <1>1, <1>2, <1>3, <1>4, <1>5, <1>6, <1>7 DEF Contract!Next, Contract!Request, Contract!Roles, contractVars, Parties

(* By staff alone.  A request that is to amend has found the contract      *)
(* signed, and signatures are not taken back.                              *)
StaffInv ==
  /\ \A r \in ContractStaff :
       contractReq[r].at = "write" /\ contractReq[r].op \notin {"send", "void", "sign"} => AllSigned
  /\ contractStatus \in {"SIGNED", "AMENDED"} => AllSigned
  /\ contractStatus = "PARTIALLY_SIGNED" => ~AllSigned

LEMMA AllSignedMeets == Contract(TRUE)!Meets(contractSignatures) <=> AllSigned
BY DEF Contract!Meets, Contract!Roles, AllSigned, ByClient, ByCompany

LEMMA StaffInit == Contract(TRUE)!Init => StaffInv
BY DEF Contract!Init, Contract!Idle, StaffInv

LEMMA StaffStep ==
  ASSUME ContractInv(TRUE), StaffInv, [Contract(TRUE)!Next]_contractVars
  PROVE  StaffInv'
<1>0. ContractStaff = Parties(TRUE) /\ contractReq \in [ContractStaff -> Handling]
  BY DEF ContractInv, Parties
<1>1. CASE UNCHANGED contractVars
  BY <1>1 DEF contractVars, StaffInv, AllSigned, ByClient, ByCompany
<1>2. ASSUME NEW role \in {"CLIENT", "COMPANY_REP"}, Contract(TRUE)!signContract(role) PROVE StaffInv'
  <2>1. /\ UNCHANGED <<contractRequired, contractOwn, contractReq>> /\ Contract(TRUE)!Sign(role)
        /\ contractStatus' = IF Contract(TRUE)!Meets(contractSignatures') THEN "SIGNED" ELSE "PARTIALLY_SIGNED"
    BY <1>2 DEF Contract!signContract
  <2>2. {ByClient, ByCompany, ByClient', ByCompany'} \subseteq Nat /\ ByClient' >= ByClient /\ ByCompany' >= ByCompany
    BY <2>1, ContractSigns
  <2>3. {contractRequired["CLIENT"], contractRequired["COMPANY_REP"]} \subseteq Nat
    BY DEF ContractInv, Templates
  <2>4. AllSigned => AllSigned'
    BY <2>1, <2>2, <2>3 DEF AllSigned
  <2>5. Contract(TRUE)!Meets(contractSignatures') <=> AllSigned'
    BY <2>1 DEF Contract!Meets, Contract!Roles, AllSigned, ByClient, ByCompany
  <2> QED
    BY <2>1, <2>4, <2>5 DEF StaffInv
<1>3. ~Contract(TRUE)!updateTemplate
  BY DEF Contract!updateTemplate
<1>4. ASSUME NEW r \in ContractStaff, Contract(TRUE)!Check(r) PROVE StaffInv'
  <2>1. UNCHANGED <<contractStatus, contractSignatures, contractRequired, contractOwn>>
    BY <1>4 DEF Contract!Check
  <2>2. \/ \E op \in {"send", "void", "sign"} : Contract(TRUE)!Goto(r, "write", op)
        \/ contractStatus = "SIGNED" /\ Contract(TRUE)!Goto(r, "write", "amend")
    BY <1>4 DEF Contract!Check
  <2>3. AllSigned' <=> AllSigned
    BY <2>1 DEF AllSigned, ByClient, ByCompany
  <2>4. ASSUME NEW op \in {"send", "void", "sign"}, Contract(TRUE)!Goto(r, "write", op) PROVE StaffInv'
    BY <1>0, <2>1, <2>3, <2>4 DEF StaffInv, Contract!Goto
  <2>5. ASSUME contractStatus = "SIGNED", Contract(TRUE)!Goto(r, "write", "amend") PROVE StaffInv'
    BY <1>0, <2>1, <2>3, <2>5 DEF StaffInv, Contract!Goto
  <2> QED
    BY <2>2, <2>4, <2>5
<1>5. ASSUME NEW r \in ContractStaff, Contract(TRUE)!WriteStatus(r) PROVE StaffInv'
  <2>1. /\ UNCHANGED <<contractSignatures, contractRequired, contractOwn>> /\ Contract(TRUE)!Goto(r, "idle", "none")
        /\ \/ contractStatus' \in {"SENT", "VOID"}
           \/ contractStatus' = "AMENDED" /\ contractReq[r].at = "write" /\ contractReq[r].op \notin {"send", "void", "sign"}
    BY <1>5, Zenon DEF Contract!WriteStatus
  <2>2. UNCHANGED AllSigned
    BY <2>1 DEF AllSigned, ByClient, ByCompany
  <2> QED
    BY <1>0, <2>1, <2>2 DEF StaffInv, Contract!Goto
<1>6. ASSUME NEW r \in ContractStaff PROVE ~Contract(TRUE)!PortalSign(r) /\ ~Contract(TRUE)!PortalClose(r)
  BY <1>0 DEF Contract!PortalSign, Contract!PortalClose, ContractInv, Signing
<1> QED
  BY <1>1, <1>2, <1>3, <1>4, <1>5, <1>6 DEF Contract!Next, Contract!Request, Contract!Roles, contractVars

(* A step of the application is one of the contract, or none of it.        *)
LEMMA ContractTurns ==
  ASSUME [Next]_vars
  PROVE  /\ UNCHANGED under
         /\ under = "contract" => [Contract(FALSE)!Next]_contractVars
         /\ under # "contract" => [Contract(TRUE)!Next]_contractVars
BY DEF Next, Turn, vars, NotInvoice, NotQuote, NotContract, NotDiscount, NotMoney, NotTeam, NotInvite, NotSession

SignedRightly ==
  /\ under = "contract" => ContractInv(FALSE)
  /\ under # "contract" => ContractInv(TRUE) /\ StaffInv

(* However many of the staff send, sign, void and amend at once, a signed  *)
(* contract has the signatures its template asks for and one that waits    *)
(* lacks one; and at the portal a client signs once.                       *)
THEOREM ContractsAreSignedAlways == Spec => []ContractsAreSigned
<1>1. Init => SignedRightly
  BY ContractInit, StaffInit DEF Init, SignedRightly
<1>2. SignedRightly /\ [Next]_vars => SignedRightly'
  BY ContractTurns, ContractStep, StaffStep DEF SignedRightly
<1>3. SignedRightly => ContractsAreSigned
  <2> SUFFICES ASSUME SignedRightly PROVE ContractsAreSigned
    OBVIOUS
  <2>1. under = "contract, by staff" =>
          Contract(TRUE)!TypeOK /\ Contract(TRUE)!SignedMeetsRequirements /\ Contract(TRUE)!WaitsForMissing
    BY ContractTypeOK, AllSignedMeets DEF SignedRightly, StaffInv, Contract!SignedMeetsRequirements, Contract!WaitsForMissing
  <2>2. under = "contract" => Contract(FALSE)!TypeOK /\ Contract(FALSE)!ClientSignsOnce
    <3>1. under = "contract" => Contract(FALSE)!TypeOK /\ contractOwn \in {0, 1}
      BY ContractTypeOK DEF SignedRightly, ContractInv
    <3>2. contractOwn \in {0, 1} => Contract(FALSE)!ClientSignsOnce
      BY DEF Contract!ClientSignsOnce
    <3> QED
      BY <3>1, <3>2, Zenon
  <2> QED
    BY <2>1, <2>2 DEF ContractsAreSigned
<1> QED
  BY <1>1, <1>2, <1>3, PTL DEF Spec

-----------------------------------------------------------------------------
(* Invoices.                                                               *)
Invoiced(d)   == IF d THEN DueBookings ELSE PaidBookings
Confirmers(d) == Invoiced(d) \X (IF d THEN {"staff", "card"} ELSE {"card"})
InvoiceRows(d) == [booking: Invoiced(d), by: Confirmers(d), number: Nat, status: {"DRAFT", "PAID", "OVERDUE"}]
OneEach(rows) == \A i \in rows, j \in rows : i.number = j.number => i = j
InUse(rows)   == (1 .. InvoicesBefore) \cup {i.number : i \in rows}
Last          == InvoicesBefore + Cardinality(invoiceInvoices)

LEMMA InvoiceConstants ==
  /\ InvoicesBefore \in Nat /\ FirstLongNumber \in Nat /\ FirstLongNumber > 1 /\ InvoicesBefore <= FirstLongNumber
<1>1. Invoices(TRUE)!InvoiceAssumption
  BY OfficeAssumption
<1> QED
  BY <1>1 DEF Invoices!InvoiceAssumption

(* A status that is set leaves the numbers and who made the invoices.      *)
LEMMA StatusSet ==
  ASSUME NEW d \in BOOLEAN, NEW rows \in SUBSET InvoiceRows(d), IsFiniteSet(rows), OneEach(rows), NEW i \in rows,
         NEW s \in {"DRAFT", "PAID", "OVERDUE"}, NEW new, new = (rows \ {i}) \cup {[i EXCEPT !.status = s]}
  PROVE  /\ new \subseteq InvoiceRows(d) /\ IsFiniteSet(new) /\ Cardinality(new) = Cardinality(rows)
         /\ OneEach(new) /\ InUse(new) = InUse(rows)
         /\ \A j \in rows : \E k \in new : k.by = j.by
<1> DEFINE t == [i EXCEPT !.status = s]
<1>1. t \in InvoiceRows(d) /\ t.number = i.number /\ t.by = i.by
  BY DEF InvoiceRows
<1> HIDE DEF t
<1>2. new = (rows \ {i}) \cup {t}
  BY DEF t
<1>3. t \notin rows \ {i}
  BY <1>1 DEF OneEach
<1>4. IsFiniteSet(rows \ {i}) /\ Cardinality(rows \ {i}) = Cardinality(rows) - 1
  BY FS_RemoveElement
<1>5. IsFiniteSet(new) /\ Cardinality(new) = Cardinality(rows \ {i}) + 1
  <2>1. Cardinality((rows \ {i}) \cup {t}) = IF t \in rows \ {i} THEN Cardinality(rows \ {i}) ELSE Cardinality(rows \ {i}) + 1
    BY <1>4, FS_AddElement
  <2>2. IsFiniteSet((rows \ {i}) \cup {t})
    BY <1>4, FS_AddElement
  <2> QED
    BY <1>2, <1>3, <2>1, <2>2
<1>6. Cardinality(rows) \in Nat
  BY FS_CardinalityType
<1>7. InUse(new) = InUse(rows)
  BY <1>1, <1>2 DEF InUse
<1> QED
  BY <1>1, <1>2, <1>3, <1>4, <1>5, <1>6, <1>7 DEF OneEach

(* Of the numbers 1 to k, the last as a string is k, or the one before the *)
(* first that has a digit more.                                            *)
LEMMA ShortOrder ==
  ASSUME NEW d \in BOOLEAN, NEW a \in Nat, NEW b \in Nat, a < FirstLongNumber, b < FirstLongNumber
  PROVE  Invoices(d)!StringBefore(a, b) <=> a < b
<1>1. /\ Invoices(d)!AsString(a) = [head |-> a, tail |-> 0, long |-> 0]
      /\ Invoices(d)!AsString(b) = [head |-> b, tail |-> 0, long |-> 0]
  BY InvoiceConstants DEF Invoices!AsString, Invoices!Longer
<1> QED
  BY <1>1 DEF Invoices!StringBefore

LEMMA LongOrder ==
  ASSUME NEW d \in BOOLEAN
  PROVE  /\ Invoices(d)!StringBefore(FirstLongNumber, FirstLongNumber - 1)
         /\ ~Invoices(d)!StringBefore(FirstLongNumber - 1, FirstLongNumber)
<1> DEFINE f == FirstLongNumber  h == f \div 10  t == f % 10
<1>1. f \in Nat /\ f > 1 /\ h \in Nat /\ h < f - 1
  BY InvoiceConstants
<1>2. /\ Invoices(d)!AsString(f) = [head |-> h, tail |-> t, long |-> 1]
      /\ Invoices(d)!AsString(f - 1) = [head |-> f - 1, tail |-> 0, long |-> 0]
  BY InvoiceConstants DEF Invoices!AsString, Invoices!Longer
<1> HIDE DEF h, t
<1> QED
  BY <1>1, <1>2 DEF Invoices!StringBefore

LEMMA LastIs ==
  ASSUME NEW d \in BOOLEAN, NEW k \in Nat, k <= FirstLongNumber, InUse(invoiceInvoices) = 1 .. k
  PROVE  Invoices(d)!LastNumber \in 0 .. k /\ Invoices(d)!LastNumber < FirstLongNumber
<1>1. Invoices(d)!Numbers = 1 .. k
  BY DEF Invoices!Numbers, InUse
<1>2. CASE k = 0
  BY <1>1, <1>2, InvoiceConstants DEF Invoices!LastNumber
<1>3. CASE k # 0
  <2> DEFINE w == IF k < FirstLongNumber THEN k ELSE k - 1
             n == Invoices(d)!LastNumber
             Latest(x) == \A m \in (1 .. k) \ {x} : Invoices(d)!StringBefore(m, x)
  <2>1. w \in 1 .. k
    BY <1>3, InvoiceConstants
  <2>2. Latest(w)
    <3>1. ASSUME NEW m \in (1 .. k) \ {w}, m < FirstLongNumber PROVE Invoices(d)!StringBefore(m, w)
      <4>1. m \in Nat /\ w \in Nat /\ w < FirstLongNumber /\ m < w
        BY <1>3, <3>1, InvoiceConstants
      <4> QED
        BY <3>1, <4>1, ShortOrder
    <3>2. ASSUME NEW m \in (1 .. k) \ {w}, ~(m < FirstLongNumber) PROVE Invoices(d)!StringBefore(m, w)
      <4>1. m = FirstLongNumber /\ w = FirstLongNumber - 1
        BY <1>3, <3>2, InvoiceConstants
      <4> QED
        BY <4>1, LongOrder
    <3> QED
      BY <3>1, <3>2
  <2>3. n = CHOOSE x \in 1 .. k : Latest(x)
    BY <1>1, <1>3 DEF Invoices!LastNumber
  <2>4. n \in 1 .. k /\ Latest(n)
    BY <2>1, <2>2, <2>3
  <2>5. ~(n = FirstLongNumber)
    <3>1. n = FirstLongNumber => FirstLongNumber - 1 \in (1 .. k) \ {n}
      BY <2>4, InvoiceConstants
    <3> QED
      BY <2>4, <3>1, LongOrder
  <2> QED
    BY <2>4, <2>5, InvoiceConstants
<1> QED
  BY <1>2, <1>3

(* Whoever is to insert has a number that is used, or the next one; who    *)
(* is to commit has the next one, and is alone.                            *)
InvoiceTypes(d) ==
  /\ invoiceBooking \in [Invoiced(d) -> {"PENDING", "CONFIRMED", "CANCELLED", "COMPLETED"}]
  /\ invoiceDue \subseteq Invoiced(d) /\ invoiceReceived \in [Invoiced(d) -> {"nothing", "deposit", "all"}]
  /\ invoiceRead \subseteq Invoiced(d)
  /\ invoiceAt \in [Confirmers(d) -> {"idle", "look", "number", "insert", "commit", "done", "failed"}]
  /\ invoiceSaw \in [Confirmers(d) -> BOOLEAN]
  /\ invoiceNumber \in [Confirmers(d) -> Nat]
  /\ invoicePdf \in [Confirmers(d) -> {"none", "sent", "done", "lost"}]
  /\ invoiceByHand \subseteq Invoiced(d)

InvoiceTable(d) ==
  /\ invoiceInvoices \subseteq InvoiceRows(d) /\ IsFiniteSet(invoiceInvoices) /\ OneEach(invoiceInvoices)
  /\ InUse(invoiceInvoices) = 1 .. Last /\ Last <= FirstLongNumber
  /\ invoiceJob \subseteq InvoiceRows(d) /\ \A i \in invoiceJob : \E j \in invoiceInvoices : j.by = i.by

InvoiceNumbers(d) ==
  \A g \in Confirmers(d) :
    /\ invoiceAt[g] = "insert" => invoiceNumber[g] \in 1 .. Last + 1 /\ invoiceNumber[g] <= FirstLongNumber
    /\ invoiceAt[g] = "commit" => /\ invoiceNumber[g] = Last + 1 /\ invoiceNumber[g] <= FirstLongNumber
                                 /\ \A h \in Confirmers(d) : invoiceAt[h] = "commit" => h = g

InvoiceInv(d) == InvoiceTypes(d) /\ InvoiceTable(d) /\ InvoiceNumbers(d)

LEMMA InvoiceTypeOK == ASSUME NEW d \in BOOLEAN, InvoiceInv(d) PROVE Invoices(d)!TypeOK
BY Zenon DEF InvoiceInv, InvoiceTypes, InvoiceTable, Invoices!TypeOK, Invoices!Generators, Invoices!InvoiceRow,
   Invoiced, Confirmers, InvoiceRows

LEMMA InvoiceInit == ASSUME NEW d \in BOOLEAN, Invoices(d)!Init PROVE InvoiceInv(d)
<1>1. InvoiceTypes(d)
  BY DEF Invoices!Init, InvoiceTypes, Invoiced, Confirmers, Invoices!Generators
<1>2. invoiceInvoices = {} /\ invoiceJob = {} /\ \A g \in Confirmers(d) : invoiceAt[g] = "idle"
  BY DEF Invoices!Init, Confirmers, Invoiced, Invoices!Generators
<1>3. IsFiniteSet({}) /\ Cardinality({}) = 0
  BY FS_EmptySet
<1>4. InvoiceTable(d)
  BY <1>2, <1>3, InvoiceConstants DEF InvoiceTable, InUse, OneEach, Last
<1> QED
  BY <1>1, <1>2, <1>4 DEF InvoiceInv, InvoiceNumbers

(* The types, action by action.                                            *)
LEMMA InvoiceStepTypes ==
  ASSUME NEW d \in BOOLEAN, InvoiceTypes(d), invoiceInvoices \subseteq InvoiceRows(d), invoiceJob \subseteq InvoiceRows(d),
         [Invoices(d)!Next]_invoiceVars, Invoices(d)!LastNumber \in Nat
  PROVE  InvoiceTypes(d)'
<1> USE DEF InvoiceTypes, Invoices!gen
<1>1. CASE UNCHANGED invoiceVars
  BY <1>1 DEF invoiceVars
<1>2. ASSUME NEW b \in Invoiced(d),
             \/ Invoices(d)!StaffReads(b) \/ Invoices(d)!PaysTheRest(b) \/ Invoices(d)!Cancel(b)
             \/ Invoices(d)!StartPasses(b) \/ Invoices(d)!Complete(b)
      PROVE  InvoiceTypes(d)'
  BY <1>2 DEF Invoices!StaffReads, Invoices!PaysTheRest, Invoices!Cancel, Invoices!StartPasses, Invoices!Complete
<1>3. ASSUME NEW b \in Invoiced(d), Invoices(d)!StaffConfirms(b) PROVE InvoiceTypes(d)'
  BY <1>3 DEF Invoices!StaffConfirms
<1>4. ASSUME NEW b \in Invoiced(d), NEW amount \in {"deposit", "all"}, Invoices(d)!CardPays(b, amount) PROVE InvoiceTypes(d)'
  BY <1>4 DEF Invoices!CardPays
<1>5. ASSUME NEW g \in Confirmers(d), Invoices(d)!Look(g) PROVE InvoiceTypes(d)'
  BY <1>5 DEF Invoices!Look
<1>6. ASSUME NEW g \in Confirmers(d), Invoices(d)!TakeNumber(g) PROVE InvoiceTypes(d)'
  BY <1>6 DEF Invoices!TakeNumber
<1>7. ASSUME NEW g \in Confirmers(d), Invoices(d)!Insert(g) PROVE InvoiceTypes(d)'
  BY <1>7 DEF Invoices!Insert
<1>8. ASSUME NEW g \in Confirmers(d), Invoices(d)!Commit(g) \/ Invoices(d)!MakePdf(g) PROVE InvoiceTypes(d)'
  BY <1>8 DEF Invoices!Commit, Invoices!MakePdf
<1>9. ASSUME NEW i \in invoiceInvoices, Invoices(d)!MarkPaid(i) PROVE InvoiceTypes(d)'
  BY <1>9 DEF Invoices!MarkPaid, InvoiceRows
<1>10. CASE Invoices(d)!JobReads
  BY <1>10 DEF Invoices!JobReads
<1>11. ASSUME NEW i \in invoiceJob, Invoices(d)!JobEnforces(i) PROVE InvoiceTypes(d)'
  BY <1>11 DEF Invoices!JobEnforces, InvoiceRows
<1> QED
  BY <1>1, <1>2, <1>3, <1>4, <1>5, <1>6, <1>7, <1>8, <1>9, <1>10, <1>11
     DEF Invoices!Next, Invoices!Generate, Invoices!Generators, Invoiced, Confirmers, invoiceVars

(* Nobody takes a number or commits, and the numbers in use stay.          *)
LEMMA InvoicesStay ==
  ASSUME NEW d \in BOOLEAN, InvoiceInv(d), InvoiceTable(d)', UNCHANGED <<Last, invoiceNumber>>,
         \A g \in Confirmers(d) : invoiceAt'[g] \in {"insert", "commit"} => invoiceAt'[g] = invoiceAt[g]
  PROVE  InvoiceNumbers(d)'
BY DEF InvoiceInv, InvoiceNumbers

LEMMA TableStays ==
  ASSUME NEW d \in BOOLEAN, InvoiceTable(d), UNCHANGED <<invoiceInvoices, invoiceJob>>
  PROVE  InvoiceTable(d)' /\ UNCHANGED Last
BY DEF InvoiceTable, Last

(* A status is set, and of the job's invoices some are left.               *)
LEMMA TableSet ==
  ASSUME NEW d \in BOOLEAN, InvoiceTable(d), NEW i \in invoiceInvoices, NEW s \in {"PAID", "OVERDUE"},
         invoiceInvoices' = Invoices(d)!SetStatus(i, s), invoiceJob' \subseteq invoiceJob
  PROVE  InvoiceTable(d)' /\ UNCHANGED Last
<1>1. invoiceInvoices' = (invoiceInvoices \ {i}) \cup {[i EXCEPT !.status = s]}
  BY DEF Invoices!SetStatus
<1>2. /\ invoiceInvoices' \subseteq InvoiceRows(d) /\ IsFiniteSet(invoiceInvoices')
      /\ Cardinality(invoiceInvoices') = Cardinality(invoiceInvoices)
      /\ OneEach(invoiceInvoices') /\ InUse(invoiceInvoices') = InUse(invoiceInvoices)
      /\ \A j \in invoiceInvoices : \E k \in invoiceInvoices' : k.by = j.by
  <2> DEFINE rows == invoiceInvoices  new == invoiceInvoices'
  <2>1. rows \in SUBSET InvoiceRows(d) /\ IsFiniteSet(rows) /\ OneEach(rows)
    BY DEF InvoiceTable
  <2>2. i \in rows /\ s \in {"DRAFT", "PAID", "OVERDUE"} /\ new = (rows \ {i}) \cup {[i EXCEPT !.status = s]}
    BY <1>1
  <2> HIDE DEF rows, new
  <2>3. /\ new \subseteq InvoiceRows(d) /\ IsFiniteSet(new) /\ Cardinality(new) = Cardinality(rows)
        /\ OneEach(new) /\ InUse(new) = InUse(rows) /\ \A j \in rows : \E k \in new : k.by = j.by
    BY <2>1, <2>2, StatusSet
  <2> QED
    BY <2>3 DEF rows, new
<1>3. Last' = Last
  BY <1>2 DEF Last
<1>4. invoiceJob' \subseteq InvoiceRows(d) /\ \A j \in invoiceJob' : \E k \in invoiceInvoices' : k.by = j.by
  <2>1. ASSUME NEW j \in invoiceJob' PROVE \E k \in invoiceInvoices' : k.by = j.by
    <3>1. PICK l \in invoiceInvoices : l.by = j.by
      BY DEF InvoiceTable
    <3> QED
      BY <1>2, <3>1
  <2> QED
    BY <2>1 DEF InvoiceTable
<1> QED
  BY <1>2, <1>3, <1>4 DEF InvoiceTable

LEMMA InvoiceStep == ASSUME NEW d \in BOOLEAN, InvoiceInv(d), [Invoices(d)!Next]_invoiceVars PROVE InvoiceInv(d)'
<1>0. Last \in Nat /\ InvoiceTypes(d) /\ InvoiceTable(d) /\ InvoiceNumbers(d)
  BY InvoiceConstants, FS_CardinalityType DEF InvoiceInv, InvoiceTable, Last
<1>a. Invoices(d)!LastNumber \in 0 .. Last /\ Invoices(d)!LastNumber < FirstLongNumber
  BY <1>0, LastIs DEF InvoiceTable
<1>b. InvoiceTypes(d)'
  BY <1>0, <1>a, InvoiceStepTypes DEF InvoiceTable
<1>c. SUFFICES InvoiceTable(d)' /\ InvoiceNumbers(d)'
  BY <1>b DEF InvoiceInv
<1> DEFINE Stays == \A g \in Confirmers(d) : invoiceAt'[g] \in {"insert", "commit"} => invoiceAt'[g] = invoiceAt[g]
<1>d. ASSUME UNCHANGED <<invoiceInvoices, invoiceJob, invoiceNumber>>, Stays PROVE InvoiceTable(d)' /\ InvoiceNumbers(d)'
  BY <1>0, <1>d, TableStays, InvoicesStay
<1>1. CASE UNCHANGED invoiceVars
  BY <1>1, <1>d DEF invoiceVars
<1>2. ASSUME NEW b \in Invoiced(d),
             \/ Invoices(d)!StaffReads(b) \/ Invoices(d)!PaysTheRest(b) \/ Invoices(d)!Cancel(b)
             \/ Invoices(d)!StartPasses(b) \/ Invoices(d)!Complete(b)
      PROVE  InvoiceTable(d)' /\ InvoiceNumbers(d)'
  BY <1>2, <1>d DEF Invoices!StaffReads, Invoices!PaysTheRest, Invoices!Cancel, Invoices!StartPasses, Invoices!Complete, Invoices!gen
<1>3. ASSUME NEW b \in Invoiced(d), Invoices(d)!StaffConfirms(b) PROVE InvoiceTable(d)' /\ InvoiceNumbers(d)'
  <2>1. UNCHANGED <<invoiceInvoices, invoiceJob, invoiceNumber>> /\ Stays
    BY <1>0, <1>3 DEF Invoices!StaffConfirms, InvoiceTypes
  <2> QED
    BY <2>1, <1>d
<1>4. ASSUME NEW b \in Invoiced(d), NEW amount \in {"deposit", "all"}, Invoices(d)!CardPays(b, amount)
      PROVE  InvoiceTable(d)' /\ InvoiceNumbers(d)'
  <2>1. UNCHANGED <<invoiceInvoices, invoiceJob, invoiceNumber>> /\ Stays
    BY <1>0, <1>4 DEF Invoices!CardPays, InvoiceTypes
  <2> QED
    BY <2>1, <1>d
<1>5. ASSUME NEW g \in Confirmers(d), Invoices(d)!Look(g) PROVE InvoiceTable(d)' /\ InvoiceNumbers(d)'
  <2>1. UNCHANGED <<invoiceInvoices, invoiceJob, invoiceNumber>> /\ Stays
    BY <1>0, <1>5 DEF Invoices!Look, InvoiceTypes
  <2> QED
    BY <2>1, <1>d
<1>6. ASSUME NEW g \in Confirmers(d), Invoices(d)!TakeNumber(g) PROVE InvoiceTable(d)' /\ InvoiceNumbers(d)'
  <2>1. /\ UNCHANGED <<invoiceInvoices, invoiceJob>> /\ invoiceNumber' = [invoiceNumber EXCEPT ![g] = Invoices(d)!LastNumber + 1]
        /\ invoiceAt' = [invoiceAt EXCEPT ![g] = "insert"]
    BY <1>6 DEF Invoices!TakeNumber
  <2>2. InvoiceTable(d)' /\ Last' = Last
    BY <1>0, <2>1, TableStays
  <2>3. Invoices(d)!LastNumber + 1 \in 1 .. Last + 1 /\ Invoices(d)!LastNumber + 1 <= FirstLongNumber
    BY <1>0, <1>a, InvoiceConstants
  <2>4. /\ invoiceAt'[g] = "insert" /\ invoiceNumber'[g] \in 1 .. Last + 1 /\ invoiceNumber'[g] <= FirstLongNumber
        /\ \A h \in Confirmers(d) : h # g => invoiceAt'[h] = invoiceAt[h] /\ invoiceNumber'[h] = invoiceNumber[h]
    BY <1>0, <2>1, <2>3 DEF InvoiceTypes
  <2> QED
    BY <1>0, <2>2, <2>4 DEF InvoiceNumbers
<1>7. ASSUME NEW g \in Confirmers(d), Invoices(d)!Insert(g) PROVE InvoiceTable(d)' /\ InvoiceNumbers(d)'
  <2>1. UNCHANGED <<invoiceInvoices, invoiceJob, invoiceNumber>> /\ invoiceAt[g] = "insert"
    BY <1>7 DEF Invoices!Insert
  <2>2. CASE invoiceAt' = [invoiceAt EXCEPT ![g] = "failed"]
    <3>1. Stays
      BY <1>0, <2>2 DEF InvoiceTypes
    <3> QED
      BY <1>d, <2>1, <3>1
  <2>3. ASSUME invoiceNumber[g] \notin Invoices(d)!Numbers, invoiceAt' = [invoiceAt EXCEPT ![g] = "commit"]
        PROVE  InvoiceTable(d)' /\ InvoiceNumbers(d)'
    <3>1. Invoices(d)!Numbers = 1 .. Last
      BY <1>0 DEF Invoices!Numbers, InUse, InvoiceTable
    <3>2. invoiceNumber[g] \in 1 .. Last + 1 /\ invoiceNumber[g] <= FirstLongNumber
      BY <1>0, <2>1 DEF InvoiceNumbers
    <3>3. invoiceNumber[g] = Last + 1
      BY <1>0, <2>3, <3>1, <3>2
    <3>4. \A h \in Confirmers(d) : invoiceAt[h] = "commit" => invoiceNumber[h] # invoiceNumber[g]
      BY <1>7 DEF Invoices!Insert, Invoices!Generators, Confirmers, Invoiced
    <3>5. \A h \in Confirmers(d) : invoiceAt[h] # "commit"
      BY <1>0, <3>3, <3>4 DEF InvoiceNumbers
    <3>6. invoiceAt'[g] = "commit" /\ \A h \in Confirmers(d) : h # g => invoiceAt'[h] = invoiceAt[h]
      BY <1>0, <2>3 DEF InvoiceTypes
    <3>7. InvoiceTable(d)' /\ Last' = Last
      BY <1>0, <2>1, TableStays
    <3> QED
      BY <1>0, <2>1, <3>2, <3>3, <3>5, <3>6, <3>7 DEF InvoiceNumbers
  <2> QED
    BY <1>7, <2>2, <2>3 DEF Invoices!Insert
<1>8. ASSUME NEW g \in Confirmers(d), Invoices(d)!Commit(g) PROVE InvoiceTable(d)' /\ InvoiceNumbers(d)'
  <2> DEFINE row == [booking |-> g[1], by |-> g, number |-> invoiceNumber[g], status |-> IF invoiceSaw[g] THEN "PAID" ELSE "DRAFT"]
  <2>1. /\ UNCHANGED <<invoiceJob, invoiceNumber>> /\ invoiceAt[g] = "commit" /\ invoiceAt' = [invoiceAt EXCEPT ![g] = "done"]
        /\ invoiceInvoices' = invoiceInvoices \cup {row}
    BY <1>8 DEF Invoices!Commit
  <2>2. row \in InvoiceRows(d) /\ row.number = invoiceNumber[g]
    BY <1>0 DEF InvoiceTypes, InvoiceRows, Confirmers
  <2> HIDE DEF row
  <2>3. invoiceNumber[g] = Last + 1 /\ invoiceNumber[g] <= FirstLongNumber
    BY <1>0, <2>1 DEF InvoiceNumbers
  <2>4. \A j \in invoiceInvoices : j.number # row.number
    <3>1. \A j \in invoiceInvoices : j.number \in 1 .. Last
      BY <1>0 DEF InvoiceTable, InUse
    <3> QED
      BY <1>0, <2>2, <2>3, <3>1
  <2>5. IsFiniteSet(invoiceInvoices') /\ Cardinality(invoiceInvoices') = Cardinality(invoiceInvoices) + 1
    <3>1. row \notin invoiceInvoices /\ IsFiniteSet(invoiceInvoices)
      BY <1>0, <2>4 DEF InvoiceTable
    <3>2. Cardinality(invoiceInvoices \cup {row}) = IF row \in invoiceInvoices THEN Cardinality(invoiceInvoices) ELSE Cardinality(invoiceInvoices) + 1
      BY <3>1, FS_AddElement
    <3>3. IsFiniteSet(invoiceInvoices \cup {row})
      BY <3>1, FS_AddElement
    <3> QED
      BY <2>1, <3>1, <3>2, <3>3
  <2>6. Last' = Last + 1
    <3>1. Cardinality(invoiceInvoices) \in Nat
      BY <1>0, FS_CardinalityType DEF InvoiceTable
    <3> QED
      BY <2>5, <3>1, InvoiceConstants DEF Last
  <2>7. InUse(invoiceInvoices') = 1 .. Last + 1
    <3>1. InUse(invoiceInvoices') = InUse(invoiceInvoices) \cup {Last + 1}
      BY <2>1, <2>2, <2>3 DEF InUse
    <3> QED
      BY <1>0, <3>1 DEF InvoiceTable
  <2>8. InvoiceTable(d)'
    <3>1. OneEach(invoiceInvoices')
      BY <1>0, <2>1, <2>4 DEF InvoiceTable, OneEach
    <3>2. \A i \in invoiceJob' : \E j \in invoiceInvoices' : j.by = i.by
      BY <1>0, <2>1 DEF InvoiceTable
    <3> QED
      BY <1>0, <2>1, <2>2, <2>3, <2>5, <2>6, <2>7, <3>1, <3>2 DEF InvoiceTable
  <2>9. /\ invoiceAt'[g] = "done" /\ \A h \in Confirmers(d) : h # g => invoiceAt'[h] = invoiceAt[h] /\ invoiceAt[h] # "commit"
    BY <1>0, <2>1 DEF InvoiceTypes, InvoiceNumbers
  <2> QED
    BY <1>0, <2>1, <2>6, <2>8, <2>9 DEF InvoiceNumbers
<1>9. ASSUME NEW g \in Confirmers(d), Invoices(d)!MakePdf(g) PROVE InvoiceTable(d)' /\ InvoiceNumbers(d)'
  BY <1>9, <1>d DEF Invoices!MakePdf, Invoices!gen
<1>10. ASSUME NEW i \in invoiceInvoices, Invoices(d)!MarkPaid(i) PROVE InvoiceTable(d)' /\ InvoiceNumbers(d)'
  <2>1. UNCHANGED <<invoiceJob, invoiceNumber, invoiceAt>> /\ invoiceInvoices' = Invoices(d)!SetStatus(i, "PAID")
    BY <1>10 DEF Invoices!MarkPaid, Invoices!gen
  <2> QED
    BY <1>0, <2>1, TableSet, InvoicesStay
<1>11. CASE Invoices(d)!JobReads
  <2>1. UNCHANGED <<invoiceInvoices, invoiceNumber, invoiceAt>> /\ invoiceJob' \subseteq invoiceInvoices
    BY <1>11 DEF Invoices!JobReads, Invoices!gen
  <2>2. InvoiceTable(d)' /\ UNCHANGED Last
    BY <1>0, <2>1 DEF InvoiceTable, Last
  <2> QED
    BY <2>1, <2>2, InvoicesStay
<1>12. ASSUME NEW i \in invoiceJob, Invoices(d)!JobEnforces(i) PROVE InvoiceTable(d)' /\ InvoiceNumbers(d)'
  <2>1. UNCHANGED <<invoiceNumber, invoiceAt>> /\ invoiceJob' \subseteq invoiceJob
    BY <1>12 DEF Invoices!JobEnforces, Invoices!gen
  <2>2. Invoices(d)!Now(i) \in invoiceInvoices
    BY <1>0 DEF Invoices!Now, InvoiceTable
  <2>3. InvoiceTable(d)' /\ UNCHANGED Last
    <3>1. CASE invoiceInvoices' = Invoices(d)!SetStatus(Invoices(d)!Now(i), "OVERDUE")
      BY <1>0, <2>1, <2>2, <3>1, TableSet
    <3>2. CASE UNCHANGED invoiceInvoices
      BY <1>0, <2>1, <3>2 DEF InvoiceTable, Last
    <3> QED
      BY <1>12, <3>1, <3>2 DEF Invoices!JobEnforces
  <2> QED
    BY <2>1, <2>3, InvoicesStay
<1> QED
  BY <1>1, <1>2, <1>3, <1>4, <1>5, <1>6, <1>7, <1>8, <1>9, <1>10, <1>11, <1>12
     DEF Invoices!Next, Invoices!Generate, Invoices!Generators, Invoiced, Confirmers, invoiceVars

(* A step of the application is one of the invoices, or none of them.      *)
LEMMA InvoiceTurns ==
  ASSUME [Next]_vars
  PROVE  /\ UNCHANGED under
         /\ under = "invoices" => [Invoices(FALSE)!Next]_invoiceVars
         /\ under # "invoices" => [Invoices(TRUE)!Next]_invoiceVars
BY DEF Next, Turn, vars, NotInvoice, NotQuote, NotContract, NotDiscount, NotMoney, NotTeam, NotInvite, NotSession

Numbered ==
  /\ under = "invoices" => InvoiceInv(FALSE)
  /\ under # "invoices" => InvoiceInv(TRUE)

(* However many confirmations are handled at once, the month's invoices    *)
(* are numbered without a gap and without a number used twice, also when   *)
(* the numbers outgrow their digits and the highest one is no longer the   *)
(* last as a string.                                                       *)
THEOREM NumbersAreSequentialAlways == Spec => []NumbersAreSequential
<1>1. Init => Numbered
  BY InvoiceInit DEF Init, Numbered
<1>2. Numbered /\ [Next]_vars => Numbered'
  BY InvoiceTurns, InvoiceStep DEF Numbered
<1>3. Numbered => NumbersAreSequential
  <2> SUFFICES ASSUME Numbered PROVE NumbersAreSequential
    OBVIOUS
  <2>1. InUse(invoiceInvoices) = 1 .. Last
    BY DEF Numbered, InvoiceInv, InvoiceTable
  <2>2. Invoices(FALSE)!NumbersAreSequential
    BY <2>1 DEF Invoices!NumbersAreSequential, Invoices!Numbers, InUse, Last, Invoices!Cardinality, Invoices!IsFiniteSet, Cardinality, IsFiniteSet
  <2>3. /\ under = "invoices" => Invoices(FALSE)!TypeOK
        /\ under = "invoices, due" => Invoices(TRUE)!TypeOK
    BY InvoiceTypeOK DEF Numbered
  <2> QED
    BY <2>2, <2>3 DEF NumbersAreSequential
<1> QED
  BY <1>1, <1>2, <1>3, PTL DEF Spec
-----------------------------------------------------------------------------
(* The uses of a discount, over all sessions.                              *)
UsesOf(t, m, d) == Discount(t)!MapThenSumSet(LAMBDA s : m[s][d], DiscountSessions)

LEMMA DiscountConstants ==
  /\ IsFiniteSet(DiscountSessions) /\ IsFiniteSet(DiscountWorkers)
  /\ IsFiniteSet(UsedDiscounts) /\ IsFiniteSet(WrittenDiscounts)
  /\ DiscountPrice \in Nat \ {0} /\ MaxDiscountTime \in Nat
  /\ None \notin UsedDiscounts \cup WrittenDiscounts
  /\ UsedLimits \subseteq Nat \ {0} /\ WrittenLimits \subseteq Nat \ {0}
<1>1. Discount(TRUE)!DiscountAssumption /\ Discount(FALSE)!DiscountAssumption
  BY OfficeAssumption
<1> QED
  BY <1>1 DEF Discount!DiscountAssumption, Discount!IsFiniteSet, IsFiniteSet

LEMMA UsesFolded ==
  ASSUME NEW t \in BOOLEAN, NEW m, NEW d
  PROVE  \E g : Sums(g, [s \in DiscountSessions |-> m[s][d]], DiscountSessions) /\ UsesOf(t, m, d) = g[DiscountSessions]
<1> DEFINE S == DiscountSessions
           body(g) == [s \in SUBSET S |-> IF s = {} THEN 0 ELSE m[CHOOSE x \in s : TRUE][d] + g[s \ {CHOOSE x \in s : TRUE}]]
           g == CHOOSE g : g = body(g)
<1>1. UsesOf(t, m, d) = g[S]
  BY Zenon DEF UsesOf, Discount!MapThenSumSet, Discount!MapThenFoldSet
<1>2. PICK h : Sums(h, [s \in S |-> m[s][d]], S)
  BY SumExists, DiscountConstants
<1>3. h = body(h)
  <2> HIDE DEF g
  <2>1. ASSUME NEW s \in SUBSET S
        PROVE (IF s = {} THEN 0 ELSE [x \in S |-> m[x][d]][Taken(s)] + h[Rest(s)])
              = (IF s = {} THEN 0 ELSE m[CHOOSE x \in s : TRUE][d] + h[s \ {CHOOSE x \in s : TRUE}])
    BY DEF Taken, Rest
  <2>2. body(h) = [s \in SUBSET S |-> IF s = {} THEN 0 ELSE [x \in S |-> m[x][d]][Taken(s)] + h[Rest(s)]]
    <3> DEFINE old(s) == IF s = {} THEN 0 ELSE [x \in S |-> m[x][d]][Taken(s)] + h[Rest(s)]
               new(s) == IF s = {} THEN 0 ELSE m[CHOOSE x \in s : TRUE][d] + h[s \ {CHOOSE x \in s : TRUE}]
    <3>1. \A s \in SUBSET S : old(s) = new(s)
      BY <2>1
    <3> HIDE DEF old, new
    <3>2. [s \in SUBSET S |-> old(s)] = [s \in SUBSET S |-> new(s)]
      BY <3>1
    <3> QED
      BY <3>2, Zenon DEF old, new
  <2> QED
    BY <1>2, <2>2, Zenon DEF Sums
<1>4. g = body(g)
  BY <1>3, Zenon
<1>5. Sums(g, [s \in S |-> m[s][d]], S)
  <2> HIDE DEF g
  <2>1. ASSUME NEW s \in SUBSET S
        PROVE (IF s = {} THEN 0 ELSE [x \in S |-> m[x][d]][Taken(s)] + g[Rest(s)])
              = (IF s = {} THEN 0 ELSE m[CHOOSE x \in s : TRUE][d] + g[s \ {CHOOSE x \in s : TRUE}])
    BY DEF Taken, Rest
  <2> QED
    BY <1>4, <2>1 DEF Sums
<1> QED
  BY <1>1, <1>5, Zenon

LEMMA NoUses ==
  ASSUME NEW t \in BOOLEAN, NEW m, NEW d, \A s \in DiscountSessions : m[s][d] = 0
  PROVE  UsesOf(t, m, d) = 0
<1> DEFINE S == DiscountSessions
<1>1. IsFiniteSet(S)
  BY DiscountConstants
<1>2. \A s \in S : m[s][d] = 0
  OBVIOUS
<1>4. PICK g : Sums(g, [s \in S |-> m[s][d]], S) /\ UsesOf(t, m, d) = g[S]
  BY UsesFolded
<1> HIDE DEF S
<1> DEFINE f == [s \in S |-> m[s][d]]
<1>5. \A s \in S : f[s] = 0
  BY <1>2
<1>6. Sums(g, f, S)
  BY <1>4, Zenon
<1> HIDE DEF f
<1>7. g[S] = 0
  BY <1>1, <1>5, <1>6, SumOfNothing
<1> QED
  BY <1>4, <1>7, Zenon

LEMMA SameUses ==
  ASSUME NEW t \in BOOLEAN, NEW m, NEW n, NEW d, \A s \in DiscountSessions : n[s][d] = m[s][d]
  PROVE  UsesOf(t, n, d) = UsesOf(t, m, d)
<1> DEFINE S == DiscountSessions
           f == [s \in S |-> m[s][d]]
           e == [s \in S |-> n[s][d]]
<1>1. IsFiniteSet(S)
  BY DiscountConstants
<1>2. PICK g : Sums(g, f, S) /\ UsesOf(t, m, d) = g[S]
  BY UsesFolded
<1>3. PICK h : Sums(h, e, S) /\ UsesOf(t, n, d) = h[S]
  BY UsesFolded
<1>4. f = e
  OBVIOUS
<1> HIDE DEF f, e, S
<1>5. h[S] = g[S]
  BY <1>1, <1>2, <1>3, <1>4, SumsAgree
<1> QED
  BY <1>2, <1>3, <1>5, Zenon

LEMMA OneMoreUse ==
  ASSUME NEW t \in BOOLEAN, NEW m, NEW n, NEW d, NEW a \in DiscountSessions,
         \A s \in DiscountSessions : m[s][d] \in Nat /\ n[s][d] = IF s = a THEN m[s][d] + 1 ELSE m[s][d]
  PROVE  UsesOf(t, n, d) = UsesOf(t, m, d) + 1
<1> DEFINE S == DiscountSessions
<1>1. IsFiniteSet(S)
  BY DiscountConstants
<1>2. a \in S /\ \A s \in S : m[s][d] \in Nat /\ n[s][d] = IF s = a THEN m[s][d] + 1 ELSE m[s][d]
  OBVIOUS
<1>4. PICK g : Sums(g, [s \in S |-> m[s][d]], S) /\ UsesOf(t, m, d) = g[S]
  BY UsesFolded
<1>5. PICK h : Sums(h, [s \in S |-> n[s][d]], S) /\ UsesOf(t, n, d) = h[S]
  BY UsesFolded
<1> HIDE DEF S
<1> DEFINE f == [s \in S |-> m[s][d]]
           e == [s \in S |-> n[s][d]]
<1>6. \A s \in S : f[s] \in Nat /\ e[s] = IF s = a THEN f[s] + 1 ELSE f[s]
  BY <1>2
<1>7. Sums(g, f, S) /\ Sums(h, e, S)
  BY <1>4, <1>5, Zenon
<1> HIDE DEF f, e
<1>8. \A T \in SUBSET S : h[T] = IF a \in T THEN g[T] + 1 ELSE g[T]
  BY <1>1, <1>2, <1>6, <1>7, SumDiffers
<1>9. h[S] = g[S] + 1
  BY <1>2, <1>8
<1> QED
  BY <1>4, <1>5, <1>9, Zenon

-----------------------------------------------------------------------------
(* The discounts: a request that inserts is the only one of its row, what  *)
(* is not inserted has no uses, and every use is counted.                  *)
Discounted(t) == IF t THEN WrittenDiscounts ELSE UsedDiscounts
LimitsOf(t)   == IF t THEN WrittenLimits ELSE UsedLimits
DiscountRows(t) ==
  [made : BOOLEAN, code : DiscountCodes \cup {None}, application : {"CODE_REQUIRED", "ADMIN_ONLY"},
   until : 0 .. (IF t THEN 0 ELSE MaxDiscountTime), minimum : {0, DiscountPrice + 1}, limit : LimitsOf(t) \cup {0},
   active : BOOLEAN, count : Nat]
DiscountLocals(t) ==
  [at : {"idle", "insert", "update", "count"}, d : Discounted(t) \cup {None},
   s : DiscountSessions \cup {None}, code : DiscountCodes \cup {None}]

DiscountTypes(t) ==
  /\ discountRow \in [Discounted(t) -> DiscountRows(t)]
  /\ discountTime \in 0 .. (IF t THEN 0 ELSE MaxDiscountTime)
  /\ discountWorker \in [DiscountWorkers -> DiscountLocals(t)]
  /\ discountRedeemed \in [DiscountSessions -> [Discounted(t) -> Nat]]
  /\ discountCharged \in [DiscountSessions -> {0, DiscountPrice}]

(* What is so of every request.                                            *)
Sound(t, row, locals, w) ==
  /\ locals[w].at = "insert" =>
       /\ locals[w].d \in Discounted(t) /\ locals[w].code \in DiscountCodes /\ row[locals[w].d].made = FALSE
       /\ \A v \in DiscountWorkers : locals[v].d = locals[w].d => v = w
  /\ locals[w].at = "update" =>
       locals[w].d \in Discounted(t) /\ locals[w].code \in DiscountCodes /\ row[locals[w].d].made = TRUE
  /\ locals[w].at = "count" =>
       locals[w].d \in Discounted(t) /\ locals[w].s \in DiscountSessions /\ row[locals[w].d].made = TRUE
  /\ locals[w].at = "idle" => locals[w] = [at |-> "idle", d |-> None, s |-> None, code |-> None]
Unmade(t, row) ==
  \A d \in Discounted(t) : row[d].made = FALSE => row[d].count = 0 /\ row[d].limit = 0
Counted(t, row, redeemed) == \A d \in Discounted(t) : row[d].count = UsesOf(t, redeemed, d)

DiscountInv(t) ==
  /\ DiscountTypes(t)
  /\ \A w \in DiscountWorkers : Sound(t, discountRow, discountWorker, w)
  /\ Unmade(t, discountRow)
  /\ Counted(t, discountRow, discountRedeemed)

LEMMA DiscountTypeOK == ASSUME NEW t \in BOOLEAN, DiscountTypes(t) PROVE Discount(t)!TypeOK
BY Zenon DEF DiscountTypes, DiscountRows, DiscountLocals, Discounted, LimitsOf, Discount!TypeOK, Discount!Applications

LEMMA DiscountCounted == ASSUME NEW t \in BOOLEAN, Counted(t, discountRow, discountRedeemed) PROVE Discount(t)!UsesCounted
BY Zenon DEF Counted, UsesOf, Discounted, Discount!UsesCounted

LEMMA DiscountInit == ASSUME NEW t \in BOOLEAN, Discount(t)!Init PROVE DiscountInv(t)
<1>1. /\ discountRow = [d \in Discounted(t) |-> [made |-> FALSE, code |-> None, application |-> "CODE_REQUIRED",
                          until |-> 0, minimum |-> 0, limit |-> 0, active |-> FALSE, count |-> 0]]
      /\ discountTime = 0
      /\ discountWorker = [w \in DiscountWorkers |-> [at |-> "idle", d |-> None, s |-> None, code |-> None]]
      /\ discountRedeemed = [s \in DiscountSessions |-> [d \in Discounted(t) |-> 0]]
      /\ discountCharged = [s \in DiscountSessions |-> 0]
  BY DEF Discount!Init, Discount!Idle, Discounted
<1>2. DiscountTypes(t)
  BY <1>1, DiscountConstants DEF DiscountTypes, DiscountRows, DiscountLocals
<1>3. Unmade(t, discountRow)
  BY <1>1 DEF Unmade
<1>4. ASSUME NEW w \in DiscountWorkers PROVE Sound(t, discountRow, discountWorker, w)
  BY <1>1 DEF Sound
<1>5. ASSUME NEW d \in Discounted(t) PROVE discountRow[d].count = UsesOf(t, discountRedeemed, d)
  <2>1. \A s \in DiscountSessions : discountRedeemed[s][d] = 0
    BY <1>1
  <2>2. UsesOf(t, discountRedeemed, d) = 0
    BY <2>1, NoUses
  <2> QED
    BY <1>1, <2>2
<1> QED
  BY <1>2, <1>3, <1>4, <1>5 DEF DiscountInv, Counted

LEMMA DiscountStep == ASSUME NEW t \in BOOLEAN, DiscountInv(t), [Discount(t)!Next]_discountVars PROVE DiscountInv(t)'
<1> DEFINE D == Discounted(t)  W == DiscountWorkers  S == DiscountSessions
           R == DiscountRows(t)  L == DiscountLocals(t)
           row == discountRow  worker == discountWorker
           idle == [at |-> "idle", d |-> None, s |-> None, code |-> None]
<1>0. /\ DiscountTypes(t) /\ Unmade(t, row) /\ Counted(t, row, discountRedeemed)
      /\ \A w \in W : Sound(t, row, worker, w)
  BY DEF DiscountInv
<1>t. /\ row \in [D -> R] /\ worker \in [W -> L] /\ discountRedeemed \in [S -> [D -> Nat]]
  BY <1>0 DEF DiscountTypes
<1>i. idle \in L
  BY DEF DiscountLocals
(* A request has its next local state, and no row is written.            *)
<1>a. ASSUME NEW w \in W, NEW l \in L, worker' = [worker EXCEPT ![w] = l], UNCHANGED <<discountRow, discountTime, discountRedeemed, discountCharged>>,
             Sound(t, row, worker', w), \A v \in W : v # w /\ worker[v].at = "insert" => worker[v].d # l.d
      PROVE  DiscountInv(t)'
  <2>1. worker' \in [W -> L] /\ worker'[w] = l /\ \A v \in W : v # w => worker'[v] = worker[v]
    BY <1>t, <1>a
  <2>2. ASSUME NEW v \in W PROVE Sound(t, row, worker', v)
    <3>1. CASE v = w
      BY <1>a, <3>1
    <3>2. CASE v # w
      <4>1. Sound(t, row, worker, v) /\ worker'[v] = worker[v]
        BY <1>0, <2>1, <3>2
      <4>2. \A x \in W : worker'[x].d = worker'[v].d /\ worker[v].at = "insert" => x = v
        <5>1. ASSUME NEW x \in W, worker'[x].d = worker'[v].d, worker[v].at = "insert" PROVE x = v
          <6>1. CASE x = w
            BY <1>a, <2>1, <3>2, <4>1, <5>1, <6>1
          <6>2. CASE x # w
            BY <2>1, <4>1, <5>1, <6>2 DEF Sound
          <6> QED
            BY <6>1, <6>2
        <5> QED
          BY <5>1
      <4> QED
        BY <4>1, <4>2 DEF Sound
    <3> QED
      BY <3>1, <3>2
  <2>3. DiscountTypes(t)'
    BY <1>0, <1>a, <2>1 DEF DiscountTypes
  <2> QED
    BY <1>0, <1>a, <2>2, <2>3 DEF DiscountInv, Unmade, Counted
(* A row is written, and a request may be over.                          *)
<1>b. ASSUME NEW d \in D, NEW r \in R, row' = [row EXCEPT ![d] = r], UNCHANGED discountTime, UNCHANGED discountCharged,
             worker' = worker \/ (\E w \in W : worker' = [worker EXCEPT ![w] = idle] /\ (row[d].made = FALSE => worker[w].at = "insert" /\ worker[w].d = d)),
             r.made = TRUE, row[d].made = FALSE => worker' # worker,
             discountRedeemed' \in [S -> [D -> Nat]], \A e \in D : e # d => UsesOf(t, discountRedeemed', e) = UsesOf(t, discountRedeemed, e),
             r.count = UsesOf(t, discountRedeemed', d)
      PROVE  DiscountInv(t)'
  <2>1. row' \in [D -> R] /\ row'[d] = r /\ \A e \in D : e # d => row'[e] = row[e]
    BY <1>t, <1>b
  <2>2. worker' \in [W -> L] /\ \A w \in W : worker'[w] = worker[w] \/ worker'[w] = idle
    BY <1>t, <1>b, <1>i
  <2>3. ASSUME NEW v \in W PROVE Sound(t, row', worker', v)
    <3>1. CASE worker'[v] = idle
      BY <3>1 DEF Sound
    <3>2. CASE worker'[v] = worker[v] /\ worker'[v] # idle
      <4>1. Sound(t, row, worker, v)
        BY <1>0
      <4>2. worker[v].at = "insert" => worker[v].d # d
        <5> SUFFICES ASSUME worker[v].at = "insert", worker[v].d = d PROVE FALSE
          OBVIOUS
        <5>1. row[d].made = FALSE
          BY <4>1 DEF Sound
        <5>2. PICK w \in W : worker' = [worker EXCEPT ![w] = idle] /\ worker[w].at = "insert" /\ worker[w].d = d
          BY <1>b, <5>1
        <5>3. w = v
          BY <4>1, <5>2 DEF Sound
        <5> QED
          BY <1>t, <3>2, <5>2, <5>3
      <4>3. ASSUME worker[v].at = "insert", NEW x \in W, worker'[x].d = worker[v].d PROVE x = v
        <5>1. worker[v].d # None
          BY <4>1, <4>3, DiscountConstants DEF Sound, Discounted
        <5>2. worker'[x] = worker[x]
          BY <2>2, <4>3, <5>1
        <5> QED
          BY <4>1, <4>3, <5>2 DEF Sound
      <4>4. /\ worker[v].at \in {"update", "count"} => row'[worker[v].d].made = TRUE
            /\ worker[v].at = "insert" => row'[worker[v].d].made = FALSE
        BY <1>b, <2>1, <4>1, <4>2 DEF Sound
      <4> QED
        BY <3>2, <4>1, <4>3, <4>4 DEF Sound
    <3> QED
      BY <2>2, <3>1, <3>2
  <2>4. DiscountTypes(t)'
    BY <1>0, <1>b, <2>1, <2>2 DEF DiscountTypes
  <2>5. Unmade(t, row')
    BY <1>0, <1>b, <2>1 DEF Unmade
  <2>6. Counted(t, row', discountRedeemed')
    BY <1>0, <1>b, <2>1 DEF Counted
  <2> QED
    BY <2>3, <2>4, <2>5, <2>6 DEF DiscountInv
<1>1. CASE UNCHANGED discountVars
  BY <1>0, <1>1 DEF discountVars, DiscountInv, DiscountTypes, Unmade, Counted, Sound
<1>2. ASSUME NEW w \in W, NEW d \in D, NEW code \in DiscountCodes, Discount(t)!CreateRead(w, d, code) PROVE DiscountInv(t)'
  <2> DEFINE l == [idle EXCEPT !.at = "insert", !.d = d, !.code = code]
  <2>0. l \in L /\ l.at = "insert" /\ l.d = d /\ l.code = code
    BY DEF DiscountLocals
  <2> HIDE DEF l
  <2>1. /\ worker' = [worker EXCEPT ![w] = l] /\ UNCHANGED <<discountRow, discountTime, discountRedeemed, discountCharged>>
        /\ ~row[d].made /\ \A v \in W : worker[v].d # d
    BY <1>2 DEF Discount!CreateRead, Discount!Put, Discount!Idle, l
  <2>2. row[d].made = FALSE
    BY <1>t, <2>1 DEF DiscountRows
  <2>3. worker'[w] = l /\ \A v \in W : v # w => worker'[v] = worker[v]
    BY <1>t, <2>1
  <2>4. Sound(t, row, worker', w)
    BY <2>0, <2>1, <2>2, <2>3 DEF Sound
  <2> QED
    BY <1>a, <2>0, <2>1, <2>2, <2>4
<1>3. ASSUME NEW w \in W, NEW d \in D, NEW code \in DiscountCodes, Discount(t)!UpdateRead(w, d, code) PROVE DiscountInv(t)'
  <2> DEFINE l == [idle EXCEPT !.at = "update", !.d = d, !.code = code]
  <2>0. l \in L /\ l.at = "update" /\ l.d = d /\ l.code = code
    BY DEF DiscountLocals
  <2> HIDE DEF l
  <2>1. /\ worker' = [worker EXCEPT ![w] = l] /\ UNCHANGED <<discountRow, discountTime, discountRedeemed, discountCharged>>
        /\ row[d].made
    BY <1>3 DEF Discount!UpdateRead, Discount!Put, Discount!Idle, l
  <2>2. row[d].made = TRUE
    BY <1>t, <2>1 DEF DiscountRows
  <2>3. worker'[w] = l
    BY <1>t, <2>1
  <2>4. Sound(t, row, worker', w)
    BY <2>0, <2>2, <2>3 DEF Sound
  <2>5. \A v \in W : worker[v].at = "insert" => worker[v].d # l.d
    BY <1>0, <2>0, <2>2 DEF Sound
  <2> QED
    BY <1>a, <2>0, <2>1, <2>2, <2>4, <2>5
<1>4. ASSUME NEW w \in W, NEW s \in S, NEW d \in D, Discount(t)!ApplyRead(w, s, d) PROVE DiscountInv(t)'
  <2> DEFINE l == [at |-> "count", d |-> d, s |-> s, code |-> row[d].code]
  <2>1. /\ worker' = [worker EXCEPT ![w] = l] /\ UNCHANGED <<discountRow, discountTime, discountRedeemed, discountCharged>>
        /\ row[d].made
    BY <1>4 DEF Discount!ApplyRead, Discount!Put
  <2>2. l \in L /\ row[d].made = TRUE
    BY <1>t, <2>1 DEF DiscountLocals, DiscountRows
  <2>3. worker'[w] = l
    BY <1>t, <2>1
  <2>4. Sound(t, row, worker', w)
    BY <2>2, <2>3 DEF Sound
  <2>5. \A v \in W : worker[v].at = "insert" => worker[v].d # l.d
    BY <1>0, <2>2 DEF Sound
  <2> HIDE DEF l
  <2> QED
    BY <1>a, <2>1, <2>2, <2>4, <2>5
<1>5. ASSUME NEW w \in W, NEW application \in {"CODE_REQUIRED", "ADMIN_ONLY"}, NEW until \in 0 .. (IF t THEN 0 ELSE MaxDiscountTime),
             NEW minimum \in {0, DiscountPrice + 1}, NEW limit \in LimitsOf(t), Discount(t)!CreateInsert(w, application, until, minimum, limit)
      PROVE  DiscountInv(t)'
  <2> DEFINE d == worker[w].d
             r == [made |-> TRUE, code |-> worker[w].code, application |-> application, until |-> until,
                   minimum |-> minimum, limit |-> limit, active |-> TRUE, count |-> 0]
  <2>1. /\ worker[w].at = "insert" /\ row' = [row EXCEPT ![d] = r] /\ worker' = [worker EXCEPT ![w] = idle]
        /\ UNCHANGED <<discountTime, discountRedeemed, discountCharged>>
    BY <1>5 DEF Discount!CreateInsert, Discount!Put, Discount!Idle
  <2>2. d \in D /\ worker[w].code \in DiscountCodes /\ row[d].made = FALSE
    BY <1>0, <2>1 DEF Sound
  <2>3. r \in R /\ r.made = TRUE /\ r.count = 0
    BY <2>2 DEF DiscountRows
  <2>4. UsesOf(t, discountRedeemed, d) = 0
    BY <1>0, <2>2 DEF Unmade, Counted
  <2>5. worker' # worker
    BY <1>t, <2>1
  <2> HIDE DEF r, d
  <2>6. d = worker[w].d
    BY DEF d
  <2> QED
    BY <1>b, <1>t, <2>1, <2>2, <2>3, <2>4, <2>5, <2>6
<1>6. ASSUME NEW w \in W, NEW limit \in LimitsOf(t), NEW active \in BOOLEAN, Discount(t)!UpdateWrite(w, limit, active) PROVE DiscountInv(t)'
  <2> DEFINE d == worker[w].d
             r == [row[d] EXCEPT !.code = worker[w].code, !.limit = limit, !.active = active]
  <2>1. /\ worker[w].at = "update" /\ worker' = [worker EXCEPT ![w] = idle]
        /\ row' = [row EXCEPT ![d].code = worker[w].code, ![d].limit = limit, ![d].active = active]
        /\ UNCHANGED <<discountTime, discountRedeemed, discountCharged>>
    BY <1>6 DEF Discount!UpdateWrite, Discount!Put, Discount!Idle
  <2>2. d \in D /\ worker[w].code \in DiscountCodes /\ row[d].made = TRUE
    BY <1>0, <2>1 DEF Sound
  <2>3. row' = [row EXCEPT ![d] = r]
    BY <1>t, <2>1, <2>2
  <2>4. r \in R /\ r.made = TRUE /\ r.count = row[d].count
    <3>1. row[d] \in R
      BY <1>t, <2>2
    <3> HIDE DEF d
    <3> QED
      BY <2>2, <3>1 DEF DiscountRows, d
  <2>5. UsesOf(t, discountRedeemed, d) = row[d].count
    BY <1>0, <2>2 DEF Counted
  <2> HIDE DEF r, d
  <2> QED
    BY <1>b, <1>t, <2>1, <2>2, <2>3, <2>4, <2>5
<1>7. ASSUME NEW d \in D, Discount(t)!deactivate(d) PROVE DiscountInv(t)'
  <2> DEFINE r == [row[d] EXCEPT !.active = FALSE]
  <2>1. /\ row[d].made /\ row' = [row EXCEPT ![d].active = FALSE]
        /\ UNCHANGED <<discountTime, discountWorker, discountRedeemed, discountCharged>>
    BY <1>7 DEF Discount!deactivate
  <2>2. row' = [row EXCEPT ![d] = r] /\ row[d].made = TRUE
    BY <1>t, <2>1 DEF DiscountRows
  <2>3. r \in R /\ r.made = TRUE /\ r.count = row[d].count
    BY <1>t, <2>2 DEF DiscountRows
  <2>4. UsesOf(t, discountRedeemed, d) = row[d].count
    BY <1>0 DEF Counted
  <2> HIDE DEF r
  <2> QED
    BY <1>b, <1>t, <2>1, <2>2, <2>3, <2>4
<1>8. ASSUME NEW w \in W, Discount(t)!ApplyCount(w) PROVE DiscountInv(t)'
  <2> DEFINE d == worker[w].d
             s == worker[w].s
             r == [row[d] EXCEPT !.count = @ + 1]
  <2>1. /\ worker[w].at = "count" /\ worker' = [worker EXCEPT ![w] = idle]
        /\ row' = [row EXCEPT ![d].count = @ + 1]
        /\ discountRedeemed' = [discountRedeemed EXCEPT ![s][d] = @ + 1]
        /\ UNCHANGED <<discountTime, discountCharged>>
    BY <1>8 DEF Discount!ApplyCount, Discount!Put, Discount!Idle
  <2>2. d \in D /\ s \in S /\ row[d].made = TRUE
    BY <1>0, <2>1 DEF Sound
  <2> HIDE DEF d, s
  <2>3. row' = [row EXCEPT ![d] = r]
    BY <1>t, <2>1, <2>2
  <2>4. r \in R /\ r.made = TRUE /\ r.count = row[d].count + 1
    <3>1. row[d] \in R
      BY <1>t, <2>2
    <3> QED
      BY <2>2, <3>1 DEF DiscountRows
  <2>5. /\ discountRedeemed' \in [S -> [D -> Nat]]
        /\ \A x \in S, e \in D : discountRedeemed'[x][e] = IF x = s /\ e = d THEN discountRedeemed[x][e] + 1 ELSE discountRedeemed[x][e]
    BY <1>t, <2>1, <2>2
  <2>6. UsesOf(t, discountRedeemed', d) = UsesOf(t, discountRedeemed, d) + 1
    <3>1. \A x \in S : /\ discountRedeemed[x][d] \in Nat
                       /\ discountRedeemed'[x][d] = IF x = s THEN discountRedeemed[x][d] + 1 ELSE discountRedeemed[x][d]
      BY <1>t, <2>2, <2>5
    <3> QED
      BY <2>2, <3>1, OneMoreUse
  <2>7. ASSUME NEW e \in D, e # d PROVE UsesOf(t, discountRedeemed', e) = UsesOf(t, discountRedeemed, e)
    BY <1>t, <2>5, <2>7, SameUses
  <2>8. UsesOf(t, discountRedeemed, d) = row[d].count
    BY <1>0, <2>2 DEF Counted
  <2>9. r.count = UsesOf(t, discountRedeemed', d)
    BY <2>4, <2>6, <2>8
  <2> HIDE DEF r
  <2> QED
    BY <1>b, <2>1, <2>2, <2>3, <2>4, <2>5, <2>7, <2>9
<1>9. CASE discountCharged' \in [S -> {0, DiscountPrice}] /\ UNCHANGED <<discountRow, discountTime, discountWorker, discountRedeemed>>
  BY <1>0, <1>9 DEF DiscountInv, DiscountTypes, Unmade, Counted, Sound
<1>10. CASE Discount(t)!Tick
  <2>1. discountTime' \in 0 .. (IF t THEN 0 ELSE MaxDiscountTime) /\ UNCHANGED <<discountRow, discountWorker, discountRedeemed, discountCharged>>
    BY <1>0, <1>10, DiscountConstants DEF Discount!Tick, DiscountTypes
  <2> QED
    BY <1>0, <2>1 DEF DiscountInv, DiscountTypes, Unmade, Counted, Sound
<1>11. ASSUME NEW s \in S, Discount(t)!Charge(s) PROVE DiscountInv(t)'
  <2>1. discountCharged' = [discountCharged EXCEPT ![s] = DiscountPrice] /\ UNCHANGED <<discountRow, discountTime, discountWorker, discountRedeemed>>
    BY <1>11 DEF Discount!Charge
  <2>2. discountCharged' \in [S -> {0, DiscountPrice}]
    BY <1>0, <2>1 DEF DiscountTypes
  <2> QED
    BY <1>9, <2>1, <2>2
<1>12. CASE Discount(t)!Creates
  BY <1>2, <1>5, <1>12 DEF Discount!Creates, Discount!Applications, Discounted, LimitsOf
<1>13. CASE Discount(t)!Edits
  BY <1>3, <1>6, <1>7, <1>13 DEF Discount!Edits, Discounted, LimitsOf
<1>14. CASE Discount(t)!Uses
  BY <1>4, <1>8, <1>10, <1>11, <1>14 DEF Discount!Uses, Discounted
<1> QED
  BY <1>1, <1>12, <1>13, <1>14 DEF Discount!Next

(* What no other request reads or writes leaves the rest of a request.     *)
Pending(locals, d) == {w \in DiscountWorkers : locals[w].at = "count" /\ locals[w].d = d}
Within(row, locals) ==
  \A d \in UsedDiscounts : row[d].limit > 0 =>
    row[d].count + Cardinality(Pending(locals, d)) <= row[d].limit + Cardinality(DiscountWorkers) - 1

LEMMA PendingIsFinite ==
  /\ Cardinality(DiscountWorkers) \in Nat
  /\ \A locals, d : /\ IsFiniteSet(Pending(locals, d)) /\ Cardinality(Pending(locals, d)) \in Nat
                    /\ Cardinality(Pending(locals, d)) <= Cardinality(DiscountWorkers)
<1>1. ASSUME NEW locals, NEW d
      PROVE  /\ IsFiniteSet(Pending(locals, d)) /\ Cardinality(Pending(locals, d)) \in Nat
             /\ Cardinality(Pending(locals, d)) <= Cardinality(DiscountWorkers)
  <2>1. Pending(locals, d) \subseteq DiscountWorkers
    BY DEF Pending
  <2> HIDE DEF Pending
  <2> QED
    BY <2>1, DiscountConstants, FS_Subset, FS_CardinalityType
<1> QED
  BY <1>1, DiscountConstants, FS_CardinalityType

LEMMA WithinStep ==
  ASSUME DiscountInv(FALSE), Within(discountRow, discountWorker),
         [Discount(FALSE)!Creates \/ Discount(FALSE)!Uses]_discountVars
  PROVE  Within(discountRow', discountWorker')
<1> DEFINE D == UsedDiscounts  W == DiscountWorkers  row == discountRow  worker == discountWorker
           Pend(d) == Cardinality(Pending(worker, d))
<1>0. /\ row \in [D -> DiscountRows(FALSE)] /\ worker \in [W -> DiscountLocals(FALSE)]
      /\ \A w \in W : Sound(FALSE, row, worker, w)
  BY DEF DiscountInv, DiscountTypes, Discounted
<1>n. /\ \A d \in D : row[d].count \in Nat /\ row[d].limit \in Nat /\ Pend(d) \in Nat
      /\ Cardinality(W) \in Nat
  <2>1. ASSUME NEW d \in D PROVE row[d].count \in Nat /\ row[d].limit \in Nat
    <3>1. row[d] \in DiscountRows(FALSE)
      BY <1>0
    <3>2. row[d].count \in Nat /\ row[d].limit \in UsedLimits \cup {0}
      BY <3>1 DEF DiscountRows, LimitsOf
    <3>3. \A x \in UsedLimits : x \in Nat
      BY DiscountConstants
    <3> QED
      BY <3>2, <3>3
  <2> QED
    BY <2>1, PendingIsFinite
<1>w. \A d \in D : row[d].limit > 0 => row[d].count + Pend(d) <= row[d].limit + Cardinality(W) - 1
  BY DEF Within
(* The counts and limits stay, and the requests that count.              *)
<1>a. ASSUME \A d \in D : row'[d].count = row[d].count /\ row'[d].limit = row[d].limit,
             \A d \in D : Pending(worker', d) = Pending(worker, d)
      PROVE  Within(discountRow', discountWorker')
  BY <1>a, <1>w DEF Within
<1>1. CASE UNCHANGED <<discountRow, discountWorker>>
  BY <1>1, <1>a
<1>2. ASSUME NEW w \in W, NEW d \in D, NEW code \in DiscountCodes, Discount(FALSE)!CreateRead(w, d, code)
      PROVE  Within(discountRow', discountWorker')
  <2>1. UNCHANGED discountRow /\ worker[w].at = "idle" /\ \E l : l.at = "insert" /\ worker' = [worker EXCEPT ![w] = l]
    <3> DEFINE l == [Discount(FALSE)!Idle EXCEPT !.at = "insert", !.d = d, !.code = code]
    <3>1. l.at = "insert" /\ worker' = [worker EXCEPT ![w] = l] /\ UNCHANGED discountRow /\ worker[w].at = "idle"
      BY <1>2 DEF Discount!CreateRead, Discount!Put, Discount!Idle
    <3> QED
      BY <3>1
  <2>2. \A e \in D : Pending(worker', e) = Pending(worker, e)
    BY <1>0, <2>1 DEF Pending
  <2> QED
    BY <1>a, <2>1, <2>2
<1>3. ASSUME NEW w \in W, NEW limit \in UsedLimits, NEW application, NEW until, NEW minimum,
             Discount(FALSE)!CreateInsert(w, application, until, minimum, limit)
      PROVE  Within(discountRow', discountWorker')
  <2> DEFINE d == worker[w].d
  <2>1. /\ worker[w].at = "insert"
        /\ \E r : r.limit = limit /\ r.count = 0 /\ row' = [row EXCEPT ![d] = r]
        /\ \E l : l.at = "idle" /\ worker' = [worker EXCEPT ![w] = l]
    <3> DEFINE r == [made |-> TRUE, code |-> worker[w].code, application |-> application, until |-> until,
                     minimum |-> minimum, limit |-> limit, active |-> TRUE, count |-> 0]
    <3>1. worker[w].at = "insert" /\ row' = [row EXCEPT ![d] = r] /\ worker' = [worker EXCEPT ![w] = Discount(FALSE)!Idle]
      BY <1>3 DEF Discount!CreateInsert, Discount!Put
    <3>2. r.limit = limit /\ r.count = 0 /\ Discount(FALSE)!Idle.at = "idle"
      BY DEF Discount!Idle
    <3> QED
      BY <3>1, <3>2
  <2>2. d \in D /\ row[d].made = FALSE
    BY <1>0, <2>1 DEF Sound, Discounted
  <2>3. \A e \in D : Pending(worker', e) = Pending(worker, e)
    BY <1>0, <2>1 DEF Pending
  <2>4. Pending(worker, d) = {}
    BY <1>0, <2>2 DEF Pending, Sound
  <2>5. Cardinality(Pending(worker, d)) = 0
    BY <2>4, FS_EmptySet
  <2>6. limit \in Nat /\ limit > 0
    BY DiscountConstants
  <2>7. Cardinality(W) # 0
    BY DiscountConstants, FS_EmptySet
  <2>8. row'[d].limit = limit /\ row'[d].count = 0 /\ \A e \in D : e # d => row'[e] = row[e]
    BY <1>0, <2>1, <2>2
  <2> HIDE DEF d
  <2>9. ASSUME NEW e \in D, row'[e].limit > 0
        PROVE  row'[e].count + Cardinality(Pending(worker', e)) <= row'[e].limit + Cardinality(W) - 1
    <3>1. CASE e = d
      BY <1>n, <2>3, <2>5, <2>6, <2>7, <2>8, <3>1
    <3>2. CASE e # d
      BY <1>w, <2>3, <2>8, <2>9, <3>2
    <3> QED
      BY <3>1, <3>2
  <2> QED
    BY <2>9 DEF Within
<1>4. ASSUME NEW w \in W, NEW s \in DiscountSessions, NEW d \in D, Discount(FALSE)!ApplyRead(w, s, d)
      PROVE  Within(discountRow', discountWorker')
  <2>1. /\ UNCHANGED discountRow /\ worker[w].at = "idle" /\ (row[d].limit = 0 \/ row[d].count < row[d].limit)
        /\ \E l : l.at = "count" /\ l.d = d /\ worker' = [worker EXCEPT ![w] = l]
    <3> DEFINE l == [at |-> "count", d |-> d, s |-> s, code |-> row[d].code]
    <3>1. /\ UNCHANGED discountRow /\ worker[w].at = "idle" /\ worker' = [worker EXCEPT ![w] = l]
          /\ (row[d].limit = 0 \/ row[d].count < row[d].limit)
      BY <1>4 DEF Discount!ApplyRead, Discount!Put, Discount!Idle, Discount!validateCode
    <3>2. l.at = "count" /\ l.d = d
      OBVIOUS
    <3> QED
      BY <3>1, <3>2
  <2>2. \A e \in D : e # d => Pending(worker', e) = Pending(worker, e)
    BY <1>0, <2>1 DEF Pending
  <2>3. Cardinality(Pending(worker', d)) \in Nat /\ Cardinality(Pending(worker', d)) <= Cardinality(W)
    BY PendingIsFinite
  <2>4. ASSUME NEW e \in D, row'[e].limit > 0
        PROVE  row'[e].count + Cardinality(Pending(worker', e)) <= row'[e].limit + Cardinality(W) - 1
    <3>1. CASE e = d
      BY <1>n, <2>1, <2>3, <2>4, <3>1
    <3>2. CASE e # d
      BY <1>w, <2>1, <2>2, <2>4, <3>2
    <3> QED
      BY <3>1, <3>2
  <2> QED
    BY <2>4 DEF Within
<1>5. ASSUME NEW w \in W, Discount(FALSE)!ApplyCount(w) PROVE Within(discountRow', discountWorker')
  <2> DEFINE d == worker[w].d
  <2>1. /\ worker[w].at = "count" /\ worker' = [worker EXCEPT ![w] = Discount(FALSE)!Idle]
        /\ row' = [row EXCEPT ![d].count = @ + 1] /\ Discount(FALSE)!Idle.at = "idle"
    BY <1>5 DEF Discount!ApplyCount, Discount!Put, Discount!Idle
  <2>2. d \in D
    BY <1>0, <2>1 DEF Sound, Discounted
  <2>3. /\ row'[d].count = row[d].count + 1 /\ row'[d].limit = row[d].limit
        /\ \A e \in D : e # d => row'[e] = row[e]
    <3>1. row[d] \in DiscountRows(FALSE)
      BY <1>0, <2>2
    <3> QED
      BY <1>0, <2>1, <2>2, <3>1 DEF DiscountRows
  <2>4. Pending(worker', d) = Pending(worker, d) \ {w} /\ w \in Pending(worker, d)
    BY <1>0, <2>1 DEF Pending
  <2>5. Cardinality(Pending(worker', d)) = Cardinality(Pending(worker, d)) - 1
    <3> HIDE DEF d
    <3>1. IsFiniteSet(Pending(worker, d))
      BY PendingIsFinite
    <3> QED
      BY <2>4, <3>1, FS_RemoveElement
  <2>6. \A e \in D : e # d => Pending(worker', e) = Pending(worker, e)
    BY <1>0, <2>1 DEF Pending
  <2> HIDE DEF d
  <2>7. ASSUME NEW e \in D, row'[e].limit > 0
        PROVE  row'[e].count + Cardinality(Pending(worker', e)) <= row'[e].limit + Cardinality(W) - 1
    <3>1. CASE e = d
      BY <1>n, <1>w, <2>3, <2>5, <2>7, <3>1
    <3>2. CASE e # d
      BY <1>w, <2>3, <2>6, <2>7, <3>2
    <3> QED
      BY <3>1, <3>2
  <2> QED
    BY <2>7 DEF Within
<1>6. CASE Discount(FALSE)!Creates
  BY <1>2, <1>3, <1>6 DEF Discount!Creates
<1>7. CASE Discount(FALSE)!Uses
  BY <1>1, <1>4, <1>5, <1>7 DEF Discount!Uses, Discount!Charge, Discount!Tick
<1> QED
  BY <1>1, <1>6, <1>7 DEF discountVars

(* The rows that have a code, or are about to: another row is about to     *)
(* have it only while no row has it.                                       *)
Having(row, code) == {d \in WrittenDiscounts : row[d].made = TRUE /\ row[d].code = code}
About(locals, code) ==
  {d \in WrittenDiscounts : \E w \in DiscountWorkers :
     locals[w].at \in {"insert", "update"} /\ locals[w].d = d /\ locals[w].code = code}
Near(row, locals, code) == Having(row, code) \cup About(locals, code)
FewRows(row, locals) ==
  \A code \in DiscountCodes : Cardinality(Near(row, locals, code)) <= Cardinality(DiscountWorkers)

LEMMA NearIsFinite ==
  /\ Cardinality(DiscountWorkers) \in Nat
  /\ \A row, locals, code : IsFiniteSet(Near(row, locals, code)) /\ Cardinality(Near(row, locals, code)) \in Nat
<1>1. ASSUME NEW row, NEW locals, NEW code PROVE IsFiniteSet(Near(row, locals, code)) /\ Cardinality(Near(row, locals, code)) \in Nat
  <2>1. Near(row, locals, code) \subseteq WrittenDiscounts
    BY DEF Near, Having, About
  <2> HIDE DEF Near
  <2> QED
    BY <2>1, DiscountConstants, FS_Subset, FS_CardinalityType
<1> QED
  BY <1>1, DiscountConstants, FS_CardinalityType

(* One row per request.                                                    *)
LEMMA AboutAreFew ==
  ASSUME NEW locals, NEW X, \A d \in X : \E w \in DiscountWorkers : locals[w].d = d
  PROVE  Cardinality(X) <= Cardinality(DiscountWorkers)
<1> DEFINE by == [d \in X |-> CHOOSE w \in DiscountWorkers : locals[w].d = d]
<1>1. \A d \in X : by[d] \in DiscountWorkers /\ locals[by[d]].d = d
  OBVIOUS
<1>2. by \in [X -> DiscountWorkers]
  BY <1>1
<1> HIDE DEF by
<1>3. by \in Injection(X, DiscountWorkers)
  BY <1>1, <1>2 DEF Injection, IsInjective
<1> QED
  BY <1>3, DiscountConstants, FS_Injection

LEMMA FewRowsStep ==
  ASSUME DiscountInv(TRUE), FewRows(discountRow, discountWorker),
         [Discount(TRUE)!Creates \/ Discount(TRUE)!Edits]_discountVars
  PROVE  FewRows(discountRow', discountWorker')
<1> DEFINE D == WrittenDiscounts  W == DiscountWorkers  row == discountRow  worker == discountWorker
<1>0. /\ row \in [D -> DiscountRows(TRUE)] /\ worker \in [W -> DiscountLocals(TRUE)]
      /\ \A w \in W : Sound(TRUE, row, worker, w)
  BY DEF DiscountInv, DiscountTypes, Discounted
<1>a. ASSUME NEW code \in DiscountCodes, Near(row', worker', code) \subseteq Near(row, worker, code)
      PROVE  Cardinality(Near(row', worker', code)) <= Cardinality(W)
  <2>1. IsFiniteSet(Near(row, worker, code)) /\ Cardinality(Near(row, worker, code)) <= Cardinality(W)
    BY NearIsFinite DEF FewRows
  <2>2. Cardinality(Near(row', worker', code)) <= Cardinality(Near(row, worker, code))
    BY <1>a, <2>1, FS_Subset
  <2> QED
    BY <2>1, <2>2, NearIsFinite
(* A request that looked for its code and found no other row with it.    *)
<1>b. ASSUME NEW w \in W, NEW d \in D, NEW c \in DiscountCodes, NEW l, l.d = d, l.code = c, UNCHANGED discountRow,
             worker' = [worker EXCEPT ![w] = l], worker[w].at = "idle", Discount(TRUE)!With(c) \ {d} = {}
      PROVE  FewRows(discountRow', discountWorker')
  <2>1. worker'[w] = l /\ \A v \in W : v # w => worker'[v] = worker[v]
    BY <1>0, <1>b
  <2>2. Having(row, c) \subseteq {d}
    <3>1. Discount(TRUE)!With(c) = Having(row, c)
      <4>1. \A e \in D : row[e].made <=> row[e].made = TRUE
        <5>1. ASSUME NEW e \in D PROVE row[e].made \in BOOLEAN
          <6>1. row[e] \in DiscountRows(TRUE)
            BY <1>0
          <6> QED
            BY <6>1 DEF DiscountRows
        <5> QED
          BY <5>1, Zenon
      <4> QED
        BY <4>1, Zenon DEF Discount!With, Having
    <3> QED
      BY <1>b, <3>1
  <2>3. \A e \in Near(row', worker', c) : \E v \in W : worker'[v].d = e
    BY <1>b, <2>1, <2>2 DEF Near, About
  <2>4. Cardinality(Near(row', worker', c)) <= Cardinality(W)
    BY <2>3, AboutAreFew
  <2>5. ASSUME NEW code \in DiscountCodes, code # c PROVE Near(row', worker', code) \subseteq Near(row, worker, code)
    BY <1>b, <2>1, <2>5 DEF Near, About, Having
  <2>6. ASSUME NEW code \in DiscountCodes PROVE Cardinality(Near(row', worker', code)) <= Cardinality(W)
    BY <1>a, <2>4, <2>5
  <2> QED
    BY <2>6 DEF FewRows
(* A row is written as its request was about to, or stays with its code. *)
<1>c. ASSUME \A e \in D : row'[e].made = TRUE => \/ row[e].made = TRUE /\ row'[e].code = row[e].code
                                                \/ e \in About(worker, row'[e].code),
             \A v \in W : worker'[v] = worker[v] \/ worker'[v].at = "idle"
      PROVE  FewRows(discountRow', discountWorker')
  <2>1. ASSUME NEW code \in DiscountCodes PROVE Near(row', worker', code) \subseteq Near(row, worker, code)
    <3>1. About(worker', code) \subseteq About(worker, code)
      BY <1>c DEF About
    <3>2. Having(row', code) \subseteq Near(row, worker, code)
      BY <1>c DEF Having, Near
    <3> QED
      BY <3>1, <3>2 DEF Near
  <2> QED
    BY <1>a, <2>1 DEF FewRows
<1>1. CASE UNCHANGED discountVars
  BY <1>1 DEF discountVars, FewRows
<1>2. ASSUME NEW w \in W, NEW d \in D, NEW code \in DiscountCodes, Discount(TRUE)!CreateRead(w, d, code)
      PROVE  FewRows(discountRow', discountWorker')
  <2> DEFINE l == [Discount(TRUE)!Idle EXCEPT !.at = "insert", !.d = d, !.code = code]
  <2>1. l.d = d /\ l.code = code
    BY DEF Discount!Idle
  <2> HIDE DEF l
  <2>2. /\ worker' = [worker EXCEPT ![w] = l] /\ UNCHANGED discountRow /\ worker[w].at = "idle"
    BY <1>2 DEF Discount!CreateRead, Discount!Put, Discount!Idle, l
  <2>3. Discount(TRUE)!With(code) \ {d} = {}
    BY <1>2 DEF Discount!CreateRead
  <2> QED
    BY <1>b, <2>1, <2>2, <2>3
<1>3. ASSUME NEW w \in W, NEW d \in D, NEW code \in DiscountCodes, Discount(TRUE)!UpdateRead(w, d, code)
      PROVE  FewRows(discountRow', discountWorker')
  <2> DEFINE l == [Discount(TRUE)!Idle EXCEPT !.at = "update", !.d = d, !.code = code]
  <2>1. l.d = d /\ l.code = code
    BY DEF Discount!Idle
  <2> HIDE DEF l
  <2>2. /\ worker' = [worker EXCEPT ![w] = l] /\ UNCHANGED discountRow /\ worker[w].at = "idle"
    BY <1>3 DEF Discount!UpdateRead, Discount!Put, Discount!Idle, l
  <2>3. Discount(TRUE)!With(code) \ {d} = {}
    BY <1>3 DEF Discount!UpdateRead
  <2> QED
    BY <1>b, <2>1, <2>2, <2>3
<1>4. ASSUME NEW w \in W, NEW limit, NEW application, NEW until, NEW minimum,
             Discount(TRUE)!CreateInsert(w, application, until, minimum, limit)
      PROVE  FewRows(discountRow', discountWorker')
  <2> DEFINE r == [made |-> TRUE, code |-> worker[w].code, application |-> application, until |-> until,
                   minimum |-> minimum, limit |-> limit, active |-> TRUE, count |-> 0]
  <2>1. /\ worker[w].at = "insert" /\ row' = [row EXCEPT ![worker[w].d] = r]
        /\ worker' = [worker EXCEPT ![w] = Discount(TRUE)!Idle] /\ Discount(TRUE)!Idle.at = "idle"
    BY <1>4 DEF Discount!CreateInsert, Discount!Put, Discount!Idle
  <2>2. r.code = worker[w].code
    OBVIOUS
  <2> HIDE DEF r
  <2>3. worker[w].d \in About(worker, worker[w].code)
    BY <1>0, <2>1 DEF About, Sound, Discounted
  <2> QED
    BY <1>0, <1>c, <2>1, <2>2, <2>3
<1>5. ASSUME NEW w \in W, NEW limit, NEW active, Discount(TRUE)!UpdateWrite(w, limit, active)
      PROVE  FewRows(discountRow', discountWorker')
  <2>1. /\ worker[w].at = "update"
        /\ row' = [row EXCEPT ![worker[w].d].code = worker[w].code, ![worker[w].d].limit = limit, ![worker[w].d].active = active]
        /\ worker' = [worker EXCEPT ![w] = Discount(TRUE)!Idle] /\ Discount(TRUE)!Idle.at = "idle"
    BY <1>5 DEF Discount!UpdateWrite, Discount!Put, Discount!Idle
  <2>2. worker[w].d \in About(worker, worker[w].code) /\ worker[w].d \in D
    BY <1>0, <2>1 DEF About, Sound, Discounted
  <2>3. row'[worker[w].d].code = worker[w].code /\ \A e \in D : e # worker[w].d => row'[e] = row[e]
    <3>1. row[worker[w].d] \in DiscountRows(TRUE)
      BY <1>0, <2>2
    <3> QED
      BY <1>0, <2>1, <2>2, <3>1 DEF DiscountRows
  <2> QED
    BY <1>0, <1>c, <2>1, <2>2, <2>3
<1>6. ASSUME NEW d \in D, Discount(TRUE)!deactivate(d) PROVE FewRows(discountRow', discountWorker')
  <2>1. row' = [row EXCEPT ![d].active = FALSE] /\ UNCHANGED discountWorker
    BY <1>6 DEF Discount!deactivate
  <2>2. ASSUME NEW e \in D PROVE row'[e].made = row[e].made /\ row'[e].code = row[e].code
    <3>1. row[e] \in DiscountRows(TRUE)
      BY <1>0
    <3> QED
      BY <1>0, <2>1, <3>1 DEF DiscountRows
  <2> QED
    BY <1>c, <2>1, <2>2
<1> QED
  BY <1>1, <1>2, <1>3, <1>4, <1>5, <1>6 DEF Discount!Creates, Discount!Edits

-----------------------------------------------------------------------------
LEMMA DiscountTurns ==
  ASSUME [Next]_vars
  PROVE  /\ UNCHANGED under
         /\ under = "discount, three" => [Discount(TRUE)!Creates \/ Discount(TRUE)!Edits]_discountVars
         /\ under # "discount, three" => [Discount(FALSE)!Next]_discountVars
         /\ under = "discount, nobody edits" => [Discount(FALSE)!Creates \/ Discount(FALSE)!Uses]_discountVars
BY DEF Next, Turn, vars, NotInvoice, NotQuote, NotContract, NotDiscount, NotMoney, NotTeam, NotInvite, NotSession, Discount!Next

UsesKept ==
  /\ under = "discount, three" => DiscountInv(TRUE) /\ FewRows(discountRow, discountWorker)
  /\ under # "discount, three" => DiscountInv(FALSE)
  /\ under = "discount, nobody edits" => Within(discountRow, discountWorker)

(* However many requests apply codes at once, the uses of a discount are   *)
(* as many as the sessions that were told the code is valid; of a discount *)
(* nobody edits, a limit is exceeded by no more than the requests there    *)
(* are beside one; and a code is in no more rows than there are requests   *)
(* at once that write them.                                                *)
THEOREM UsesAreCountedAlways == Spec => []UsesAreCounted
<1>1. Init => UsesKept
  <2> SUFFICES ASSUME Init PROVE UsesKept
    OBVIOUS
  <2>1. CASE under = "discount, three"
    <3>1. Discount(TRUE)!Init
      BY <2>1 DEF Init
    <3>2. \A d \in WrittenDiscounts : discountRow[d].made = FALSE
      BY <3>1 DEF Discount!Init
    <3>3. \A w \in DiscountWorkers : discountWorker[w].at = "idle"
      BY <3>1 DEF Discount!Init, Discount!Idle
    <3>4. \A code : Near(discountRow, discountWorker, code) = {}
      BY <3>2, <3>3 DEF Near, Having, About
    <3>5. FewRows(discountRow, discountWorker)
      BY <3>4, FS_EmptySet, NearIsFinite DEF FewRows
    <3> QED
      BY <2>1, <3>1, <3>5, DiscountInit DEF UsesKept
  <2>2. CASE under # "discount, three"
    <3>1. Discount(FALSE)!Init
      BY <2>2 DEF Init
    <3>2. \A d \in UsedDiscounts : discountRow[d].limit = 0
      BY <3>1 DEF Discount!Init
    <3>3. DiscountInv(FALSE)
      BY <3>1, DiscountInit
    <3>4. Within(discountRow, discountWorker)
      BY <3>2 DEF Within
    <3> QED
      BY <2>2, <3>3, <3>4 DEF UsesKept
  <2> QED
    BY <2>1, <2>2
<1>2. UsesKept /\ [Next]_vars => UsesKept'
  <2> SUFFICES ASSUME UsesKept, [Next]_vars PROVE UsesKept'
    OBVIOUS
  <2>1. CASE under = "discount, three"
    <3>1. [Discount(TRUE)!Creates \/ Discount(TRUE)!Edits]_discountVars /\ under' = under
      BY <2>1, DiscountTurns
    <3>2. [Discount(TRUE)!Next]_discountVars
      BY <3>1 DEF Discount!Next
    <3>3. DiscountInv(TRUE)'
      BY <2>1, <3>2, DiscountStep DEF UsesKept
    <3>4. FewRows(discountRow', discountWorker')
      BY <2>1, <3>1, FewRowsStep DEF UsesKept
    <3> QED
      BY <2>1, <3>1, <3>3, <3>4 DEF UsesKept
  <2>2. CASE under # "discount, three"
    <3>1. [Discount(FALSE)!Next]_discountVars /\ under' = under
      BY <2>2, DiscountTurns
    <3>2. DiscountInv(FALSE)'
      BY <2>2, <3>1, DiscountStep DEF UsesKept
    <3>3. under = "discount, nobody edits" => Within(discountRow', discountWorker')
      BY <2>2, DiscountTurns, WithinStep DEF UsesKept
    <3> QED
      BY <2>2, <3>1, <3>2, <3>3 DEF UsesKept
  <2> QED
    BY <2>1, <2>2
<1>3. UsesKept => UsesAreCounted
  <2> SUFFICES ASSUME UsesKept PROVE UsesAreCounted
    OBVIOUS
  <2>1. ASSUME under = "discount, three" PROVE Discount(TRUE)!TypeOK /\ Discount(TRUE)!CodesBounded
    <3>1. DiscountTypes(TRUE) /\ FewRows(discountRow, discountWorker)
      BY <2>1 DEF UsesKept, DiscountInv
    <3>2. ASSUME NEW code \in DiscountCodes
          PROVE  Cardinality(Discount(TRUE)!With(code)) <= Cardinality(DiscountWorkers)
      <4>1. Discount(TRUE)!With(code) \subseteq Near(discountRow, discountWorker, code)
        <5>1. ASSUME NEW e \in WrittenDiscounts, discountRow[e].made PROVE discountRow[e].made = TRUE
          BY <5>1, Zenon
        <5> QED
          BY <5>1, Zenon DEF Discount!With, Having, Near
      <4>2. Cardinality(Discount(TRUE)!With(code)) <= Cardinality(Near(discountRow, discountWorker, code))
        BY <4>1, NearIsFinite, FS_Subset
      <4>3. IsFiniteSet(Discount(TRUE)!With(code)) /\ Cardinality(Discount(TRUE)!With(code)) \in Nat
        BY <4>1, NearIsFinite, FS_Subset, FS_CardinalityType
      <4>4. /\ Cardinality(Near(discountRow, discountWorker, code)) <= Cardinality(DiscountWorkers)
            /\ Cardinality(Near(discountRow, discountWorker, code)) \in Nat /\ Cardinality(DiscountWorkers) \in Nat
        BY <3>1, NearIsFinite DEF FewRows
      <4> DEFINE x == Cardinality(Discount(TRUE)!With(code))  y == Cardinality(Near(discountRow, discountWorker, code))
                 z == Cardinality(DiscountWorkers)
      <4>5. x \in Nat /\ y \in Nat /\ z \in Nat /\ x <= y /\ y <= z
        BY <4>2, <4>3, <4>4
      <4> HIDE DEF x, y, z
      <4>6. x <= z
        BY <4>5
      <4> QED
        BY <4>6 DEF x, z
    <3> QED
      BY <3>1, <3>2, DiscountTypeOK DEF Discount!CodesBounded, Discount!Cardinality, Discount!IsFiniteSet, Cardinality, IsFiniteSet
  <2>2. ASSUME under # "discount, three" PROVE Discount(FALSE)!TypeOK /\ Discount(FALSE)!UsesCounted
    BY <2>2, DiscountTypeOK, DiscountCounted DEF UsesKept, DiscountInv
  <2>3. ASSUME under = "discount, nobody edits" PROVE Discount(FALSE)!OverrunBounded
    <3>1. DiscountInv(FALSE) /\ Within(discountRow, discountWorker)
      BY <2>3 DEF UsesKept
    <3>2. ASSUME NEW d \in UsedDiscounts, discountRow[d].limit > 0
          PROVE  discountRow[d].count <= discountRow[d].limit + Cardinality(DiscountWorkers) - 1
      <4>1. discountRow[d] \in DiscountRows(FALSE)
        BY <3>1 DEF DiscountInv, DiscountTypes, Discounted
      <4>2. discountRow[d].count \in Nat /\ discountRow[d].limit \in UsedLimits \cup {0}
        BY <4>1 DEF DiscountRows, LimitsOf
      <4>3. \A x \in UsedLimits : x \in Nat
        BY DiscountConstants
      <4>4. discountRow[d].count + Cardinality(Pending(discountWorker, d)) <= discountRow[d].limit + Cardinality(DiscountWorkers) - 1
        BY <3>1, <3>2 DEF Within
      <4> QED
        BY <4>2, <4>3, <4>4, PendingIsFinite
    <3> QED
      BY <3>2 DEF Discount!OverrunBounded, Discount!Cardinality, Discount!IsFiniteSet, Cardinality, IsFiniteSet
  <2> QED
    BY <2>1, <2>2, <2>3 DEF UsesAreCounted
<1> QED
  BY <1>1, <1>2, <1>3, PTL DEF Spec
-----------------------------------------------------------------------------
(* The total of a quote's items is a number.                               *)
TotalPrice(a, items) == Quotes(a)!recalculateTotals(items)

LEMMA TotalFolded ==
  ASSUME NEW a \in BOOLEAN, NEW S, IsFiniteSet(S)
  PROVE  \E g : Sums(g, [i \in S |-> i.price], S) /\ TotalPrice(a, S) = g[S]
<1> DEFINE body(g) == [s \in SUBSET S |-> IF s = {} THEN 0 ELSE (CHOOSE x \in s : TRUE).price + g[s \ {CHOOSE x \in s : TRUE}]]
           g == CHOOSE g : g = body(g)
<1>1. TotalPrice(a, S) = g[S]
  BY Zenon DEF TotalPrice, Quotes!recalculateTotals, Quotes!MapThenSumSet, Quotes!MapThenFoldSet
<1>2. PICK h : Sums(h, [i \in S |-> i.price], S)
  BY SumExists
<1>3. h = body(h)
  <2> HIDE DEF g
  <2>1. ASSUME NEW s \in SUBSET S
        PROVE (IF s = {} THEN 0 ELSE [i \in S |-> i.price][Taken(s)] + h[Rest(s)])
              = (IF s = {} THEN 0 ELSE (CHOOSE x \in s : TRUE).price + h[s \ {CHOOSE x \in s : TRUE}])
    BY DEF Taken, Rest
  <2>2. body(h) = [s \in SUBSET S |-> IF s = {} THEN 0 ELSE [i \in S |-> i.price][Taken(s)] + h[Rest(s)]]
    <3> DEFINE old(s) == IF s = {} THEN 0 ELSE [i \in S |-> i.price][Taken(s)] + h[Rest(s)]
               new(s) == IF s = {} THEN 0 ELSE (CHOOSE x \in s : TRUE).price + h[s \ {CHOOSE x \in s : TRUE}]
    <3>1. \A s \in SUBSET S : old(s) = new(s)
      BY <2>1
    <3> HIDE DEF old, new
    <3>2. [s \in SUBSET S |-> old(s)] = [s \in SUBSET S |-> new(s)]
      BY <3>1
    <3> QED
      BY <3>2, Zenon DEF old, new
  <2> QED
    BY <1>2, <2>2, Zenon DEF Sums
<1>4. g = body(g)
  BY <1>3, Zenon
<1>5. Sums(g, [i \in S |-> i.price], S)
  <2> HIDE DEF g
  <2>1. ASSUME NEW s \in SUBSET S
        PROVE (IF s = {} THEN 0 ELSE [i \in S |-> i.price][Taken(s)] + g[Rest(s)])
              = (IF s = {} THEN 0 ELSE (CHOOSE x \in s : TRUE).price + g[s \ {CHOOSE x \in s : TRUE}])
    BY DEF Taken, Rest
  <2> QED
    BY <1>4, <2>1 DEF Sums
<1> QED
  BY <1>1, <1>5, Zenon

LEMMA TotalIsNumber ==
  ASSUME NEW a \in BOOLEAN, NEW S, IsFiniteSet(S), \A i \in S : i.price \in Nat
  PROVE  TotalPrice(a, S) \in Nat
<1> DEFINE f == [i \in S |-> i.price]
<1>1. PICK g : Sums(g, f, S) /\ TotalPrice(a, S) = g[S]
  BY TotalFolded
<1>2. \A i \in S : f[i] \in Nat
  OBVIOUS
<1> HIDE DEF f
<1>3. g[S] \in Nat
  BY <1>1, <1>2, SumIsNumber
<1> QED
  BY <1>1, <1>3

-----------------------------------------------------------------------------
(* The versions of a quote.  Who is about to write a status or a revision  *)
(* has read a version that exists, and an original that was sent.          *)
Editing(a)     == IF a THEN {r1} ELSE QuoteEditors
MostItems(a)   == IF a THEN MaxQuoteItems ELSE MaxRacedItems
Priced(a)      == IF a THEN QuotePrices ELSE RacedPrices
QuoteVersions  == 1 .. MaxQuoteVersions
QuoteItems(a)  == [id: 1 .. MostItems(a), price: Priced(a)]
QuoteRows(a)   == [status: {"none", "DRAFT", "SENT", "ACCEPTED", "REJECTED"}, total: Nat, items: SUBSET QuoteItems(a)]
QuoteLocals(a) == [at: {"idle", "item", "all", "totals", "write"},
                   op: {"none", "add", "change", "delete", "send", "reject", "accept", "revise"},
                   q: QuoteVersions, item: 0 .. MostItems(a), copy: QuoteRows(a)]
Adding(a, reqs) == {r \in Editing(a) : reqs[r].op = "add" /\ reqs[r].at = "item"}

QuoteTypes(a) ==
  /\ quoteQuotes \in [QuoteVersions -> QuoteRows(a)] /\ quoteReq \in [Editing(a) -> QuoteLocals(a)]
  /\ quoteMade \in Nat /\ quoteDeaths \in 0 .. (IF a THEN MaxQuoteDeaths ELSE 0)
  /\ \A v \in QuoteVersions : IsFiniteSet(quoteQuotes[v].items)
  /\ \A r \in Editing(a) : IsFiniteSet(quoteReq[r].copy.items)
  /\ quoteMade + Cardinality(Adding(a, quoteReq)) <= MostItems(a)

Writes(rows, l) == /\ rows[l.q].status # "none"
                   /\ l.op = "revise" => rows[l.q].status # "DRAFT" /\ l.q + 1 \in QuoteVersions
QuoteOrder(a, rows, reqs) ==
  /\ \A r \in Editing(a) : reqs[r].at = "write" => Writes(rows, reqs[r])
  /\ \A v \in QuoteVersions \ {1} : rows[v].status # "none" => rows[v - 1].status \notin {"none", "DRAFT"}

QuoteInv(a) == QuoteTypes(a) /\ QuoteOrder(a, quoteQuotes, quoteReq)

LEMMA QuoteConstants ==
  /\ IsFiniteSet(QuoteEditors) /\ MaxQuoteVersions \in Nat \ {0} /\ MaxQuoteDeaths \in Nat
  /\ \A a \in BOOLEAN : /\ IsFiniteSet(Editing(a)) /\ MostItems(a) \in Nat /\ \A p \in Priced(a) : p \in Nat
                        /\ \A reqs : /\ IsFiniteSet(Adding(a, reqs)) /\ Cardinality(Adding(a, reqs)) \in Nat
<1>1. Quotes(TRUE)!QuoteBookAssumption /\ Quotes(FALSE)!QuoteBookAssumption
  BY OfficeAssumption
<1>2. /\ IsFiniteSet(QuoteEditors) /\ IsFiniteSet({r1}) /\ MaxQuoteVersions \in Nat \ {0} /\ MaxQuoteDeaths \in Nat
      /\ MaxQuoteItems \in Nat /\ MaxRacedItems \in Nat /\ QuotePrices \subseteq Nat /\ RacedPrices \subseteq Nat
  BY <1>1, FS_Singleton DEF Quotes!QuoteBookAssumption, Quotes!IsFiniteSet, IsFiniteSet
<1>3. ASSUME NEW a \in BOOLEAN PROVE IsFiniteSet(Editing(a)) /\ MostItems(a) \in Nat /\ \A p \in Priced(a) : p \in Nat
  BY <1>2 DEF Editing, MostItems, Priced
<1>4. ASSUME NEW a \in BOOLEAN, NEW reqs PROVE IsFiniteSet(Adding(a, reqs)) /\ Cardinality(Adding(a, reqs)) \in Nat
  <2>1. Adding(a, reqs) \subseteq Editing(a)
    BY DEF Adding
  <2> HIDE DEF Adding
  <2> QED
    BY <1>3, <2>1, FS_Subset, FS_CardinalityType
<1> QED
  BY <1>2, <1>3, <1>4

LEMMA QuoteTypeOK == ASSUME NEW a \in BOOLEAN, QuoteTypes(a) PROVE Quotes(a)!TypeOK
<1>1. /\ quoteQuotes \in [Quotes(a)!Versions -> Quotes(a)!Quote] /\ quoteReq \in [Editing(a) -> QuoteLocals(a)]
      /\ quoteDeaths \in 0 .. (IF a THEN MaxQuoteDeaths ELSE 0) /\ Quotes(a)!Versions = QuoteVersions
      /\ Quotes(a)!Quote = QuoteRows(a)
  BY DEF QuoteTypes, QuoteRows, QuoteItems, QuoteVersions, MostItems, Priced,
         Quotes!Quote, Quotes!Items, Quotes!Versions
<1>2. quoteMade \in 0 .. MostItems(a)
  BY QuoteConstants DEF QuoteTypes
<1>3. ASSUME NEW r \in Editing(a)
      PROVE  /\ quoteReq[r].at \in {"idle", "item", "all", "totals", "write"} /\ quoteReq[r].q \in QuoteVersions
             /\ quoteReq[r].op \in {"none", "add", "change", "delete", "send", "reject", "accept", "revise"}
             /\ quoteReq[r].item \in 0 .. MostItems(a) /\ quoteReq[r].copy \in QuoteRows(a)
  <2>1. quoteReq[r] \in QuoteLocals(a)
    BY <1>1
  <2> QED
    BY <2>1 DEF QuoteLocals
<1> QED
  BY <1>1, <1>2, <1>3, Zenon DEF Quotes!TypeOK, Editing, MostItems

LEMMA QuoteInit == ASSUME NEW a \in BOOLEAN, Quotes(a)!Init PROVE QuoteInv(a)
<1> DEFINE none == [status |-> "none", total |-> 0, items |-> {}]
           idle == [at |-> "idle", op |-> "none", q |-> 1, item |-> 0, copy |-> none]
<1>1. /\ quoteQuotes = [v \in QuoteVersions |-> none] /\ quoteMade = 0 /\ quoteDeaths = 0
      /\ quoteReq = [r \in Editing(a) |-> idle]
  BY DEF Quotes!Init, Quotes!NoQuote, Quotes!Idle, Quotes!Versions, QuoteVersions, Editing
<1>2. none \in QuoteRows(a) /\ idle \in QuoteLocals(a)
  BY QuoteConstants DEF QuoteRows, QuoteLocals, QuoteVersions
<1>3. Cardinality(Adding(a, quoteReq)) = 0
  <2>1. Adding(a, quoteReq) = {}
    BY <1>1 DEF Adding
  <2> QED
    BY <2>1, FS_EmptySet
<1>4. IsFiniteSet(none.items) /\ IsFiniteSet(idle.copy.items)
  BY FS_EmptySet
<1>5. none.status = "none" /\ idle.at = "idle"
  OBVIOUS
<1> HIDE DEF none, idle
<1>6. QuoteTypes(a)
  BY <1>1, <1>2, <1>3, <1>4, QuoteConstants DEF QuoteTypes
<1>7. QuoteOrder(a, quoteQuotes, quoteReq)
  <2>1. \A v \in QuoteVersions : quoteQuotes[v].status = "none"
    BY <1>1, <1>5
  <2>2. \A r \in Editing(a) : quoteReq[r].at = "idle"
    BY <1>1, <1>5
  <2> QED
    BY <2>1, <2>2 DEF QuoteOrder
<1> QED
  BY <1>6, <1>7 DEF QuoteInv

(* A version is made of one before it that was sent, and then it never is  *)
(* a draft again or gone.                                                  *)
Goes(rows, new, v) ==
  \/ new[v].status = rows[v].status
  \/ rows[v].status # "none" /\ new[v].status \in {"SENT", "REJECTED", "ACCEPTED"}
  \/ /\ rows[v].status = "none" /\ new[v].status = "DRAFT"
     /\ v = 1 \/ (v # 1 /\ rows[v - 1].status \notin {"none", "DRAFT"})

LEMMA QuoteOrderStep ==
  ASSUME NEW a \in BOOLEAN, NEW rows, NEW reqs, NEW new, NEW asks, QuoteOrder(a, rows, reqs),
         \A v \in QuoteVersions : Goes(rows, new, v),
         \A r \in Editing(a) : asks[r].q \in QuoteVersions /\ (asks[r].at = "write" => asks[r] = reqs[r] \/ Writes(rows, asks[r]))
  PROVE  QuoteOrder(a, new, asks)
<1>1. ASSUME NEW v \in QuoteVersions \ {1}, new[v].status # "none" PROVE new[v - 1].status \notin {"none", "DRAFT"}
  <2>1. v - 1 \in QuoteVersions
    BY QuoteConstants DEF QuoteVersions
  <2>2. rows[v - 1].status \notin {"none", "DRAFT"}
    BY <1>1 DEF QuoteOrder, Goes
  <2>3. Goes(rows, new, v - 1)
    BY <2>1
  <2> QED
    BY <2>2, <2>3 DEF Goes
<1>2. ASSUME NEW r \in Editing(a), asks[r].at = "write" PROVE Writes(new, asks[r])
  <2>1. Writes(rows, asks[r])
    BY <1>2 DEF QuoteOrder
  <2>2. Goes(rows, new, asks[r].q)
    OBVIOUS
  <2> QED
    BY <2>1, <2>2 DEF Goes, Writes
<1> QED
  BY <1>1, <1>2 DEF QuoteOrder

(* A request is in its next state: at most one more is adding.             *)
LEMMA AddingStays ==
  ASSUME NEW a \in BOOLEAN, NEW reqs \in [Editing(a) -> QuoteLocals(a)], NEW r \in Editing(a), NEW l,
         NEW asks, asks = [reqs EXCEPT ![r] = l]
  PROVE  /\ l.op # "add" \/ l.at # "item" => Cardinality(Adding(a, asks)) <= Cardinality(Adding(a, reqs))
         /\ (l.op # "add" \/ l.at # "item") /\ r \in Adding(a, reqs) => Cardinality(Adding(a, asks)) + 1 <= Cardinality(Adding(a, reqs))
         /\ Cardinality(Adding(a, asks)) <= Cardinality(Adding(a, reqs)) + 1
<1> DEFINE A == Adding(a, reqs)  B == Adding(a, asks)
<1>1. IsFiniteSet(A) /\ IsFiniteSet(B) /\ Cardinality(A) \in Nat /\ Cardinality(B) \in Nat
  BY QuoteConstants
<1>2. B \subseteq A \cup {r} /\ (l.op # "add" \/ l.at # "item" => B \subseteq A \ {r})
  BY DEF Adding
<1> HIDE DEF A, B
<1>3. IsFiniteSet(A \cup {r}) /\ Cardinality(A \cup {r}) \in Nat /\ Cardinality(A \cup {r}) <= Cardinality(A) + 1
  <2>1. IsFiniteSet(A \cup {r}) /\ Cardinality(A \cup {r}) = IF r \in A THEN Cardinality(A) ELSE Cardinality(A) + 1
    BY <1>1, FS_AddElement
  <2> QED
    BY <1>1, <2>1
<1>4. /\ IsFiniteSet(A \ {r}) /\ Cardinality(A \ {r}) \in Nat /\ Cardinality(A \ {r}) <= Cardinality(A)
      /\ r \in A => Cardinality(A \ {r}) + 1 = Cardinality(A)
  <2>1. IsFiniteSet(A \ {r}) /\ Cardinality(A \ {r}) = IF r \in A THEN Cardinality(A) - 1 ELSE Cardinality(A)
    BY <1>1, FS_RemoveElement
  <2>2. Cardinality(A \ {r}) \in Nat
    BY <2>1, FS_CardinalityType
  <2> QED
    BY <1>1, <2>1, <2>2
<1>5. Cardinality(B) <= Cardinality(A) + 1
  <2>1. Cardinality(B) <= Cardinality(A \cup {r})
    BY <1>2, <1>3, FS_Subset
  <2> QED
    BY <1>1, <1>3, <2>1
<1>6. ASSUME l.op # "add" \/ l.at # "item" PROVE Cardinality(B) <= Cardinality(A \ {r})
  BY <1>2, <1>4, <1>6, FS_Subset
<1> QED
  BY <1>1, <1>4, <1>5, <1>6 DEF A, B

LEMMA QuoteStep == ASSUME NEW a \in BOOLEAN, QuoteInv(a), [Quotes(a)!Next]_quoteVars PROVE QuoteInv(a)'
<1> DEFINE E == Editing(a)  V == QuoteVersions  Q == QuoteRows(a)  L == QuoteLocals(a)
           rows == quoteQuotes  reqs == quoteReq  made == quoteMade
           Refused(l) == l.op # "add" \/ l.at # "item"
           none == [status |-> "none", total |-> 0, items |-> {}]
           idle == [at |-> "idle", op |-> "none", q |-> 1, item |-> 0, copy |-> none]
<1>0. QuoteTypes(a) /\ QuoteOrder(a, rows, reqs)
  BY DEF QuoteInv
<1>t. /\ rows \in [V -> Q] /\ reqs \in [E -> L] /\ made \in Nat
      /\ \A v \in V : IsFiniteSet(rows[v].items)
      /\ \A r \in E : IsFiniteSet(reqs[r].copy.items)
  BY <1>0 DEF QuoteTypes
<1>n. /\ MostItems(a) \in Nat /\ Cardinality(Adding(a, reqs)) \in Nat /\ Cardinality(Adding(a, reqs')) \in Nat
      /\ made + Cardinality(Adding(a, reqs)) <= MostItems(a)
  BY <1>0, QuoteConstants DEF QuoteTypes
<1>i. /\ none \in Q /\ idle \in L /\ IsFiniteSet(none.items) /\ IsFiniteSet(idle.copy.items)
      /\ Refused(idle) /\ idle.at # "write" /\ idle = Quotes(a)!Idle /\ none = Quotes(a)!NoQuote
  BY QuoteConstants, FS_EmptySet DEF QuoteRows, QuoteLocals, QuoteVersions, Quotes!Idle, Quotes!NoQuote
<1> HIDE DEF none, idle
(* A request reads, and nothing is written.                              *)
<1>a. ASSUME NEW r \in E, NEW l \in L, IsFiniteSet(l.copy.items), reqs' = [reqs EXCEPT ![r] = l],
             UNCHANGED <<quoteQuotes, quoteMade, quoteDeaths>>, l.at = "write" => Writes(rows, l),
             Refused(l) \/ made + Cardinality(Adding(a, reqs)) < MostItems(a)
      PROVE  QuoteInv(a)'
  <2>1. reqs' \in [E -> L] /\ reqs'[r] = l /\ \A e \in E : e # r => reqs'[e] = reqs[e]
    BY <1>t, <1>a
  <2>2. made' + Cardinality(Adding(a, reqs')) <= MostItems(a)
    <3>1. /\ Refused(l) => Cardinality(Adding(a, reqs')) <= Cardinality(Adding(a, reqs))
          /\ Cardinality(Adding(a, reqs')) <= Cardinality(Adding(a, reqs)) + 1
      BY <1>t, <1>a, AddingStays
    <3> QED
      BY <1>a, <1>t, <1>n, <3>1
  <2>3. QuoteTypes(a)'
    BY <1>0, <1>a, <1>t, <2>1, <2>2 DEF QuoteTypes
  <2>4. QuoteOrder(a, rows', reqs')
    <3>1. \A v \in V : Goes(rows, rows', v)
      BY <1>a DEF Goes
    <3>2. \A e \in E : reqs'[e].q \in V /\ (reqs'[e].at = "write" => reqs'[e] = reqs[e] \/ Writes(rows, reqs'[e]))
      BY <1>a, <2>1 DEF QuoteLocals
    <3> QED
      BY <1>0, <3>1, <3>2, QuoteOrderStep
  <2> QED
    BY <2>3, <2>4 DEF QuoteInv
(* A version is written, and a request may be on its way or over.        *)
<1>b. ASSUME NEW v \in V, NEW x \in Q, IsFiniteSet(x.items), rows' = [rows EXCEPT ![v] = x],
             \/ x.status = rows[v].status
             \/ rows[v].status # "none" /\ x.status \in {"SENT", "REJECTED", "ACCEPTED"}
             \/ rows[v].status = "none" /\ x.status = "DRAFT" /\ (v = 1 \/ (v # 1 /\ rows[v - 1].status \notin {"none", "DRAFT"})),
             reqs' \in [E -> L], \A r \in E : IsFiniteSet(reqs'[r].copy.items),
             \A r \in E : reqs'[r] = reqs[r] \/ reqs'[r].at # "write", UNCHANGED quoteDeaths,
             made' \in Nat, made' + Cardinality(Adding(a, reqs')) <= MostItems(a)
      PROVE  QuoteInv(a)'
  <2>1. rows' \in [V -> Q] /\ rows'[v] = x /\ \A u \in V : u # v => rows'[u] = rows[u]
    BY <1>t, <1>b
  <2>2. QuoteTypes(a)'
    BY <1>0, <1>b, <1>t, <2>1 DEF QuoteTypes
  <2>3. \A u \in V : Goes(rows, rows', u)
    BY <1>b, <2>1 DEF Goes
  <2>4. \A e \in E : reqs'[e].q \in V /\ (reqs'[e].at = "write" => reqs'[e] = reqs[e])
    BY <1>b DEF QuoteLocals
  <2>5. QuoteOrder(a, rows', reqs')
    BY <1>0, <2>3, <2>4, QuoteOrderStep
  <2> QED
    BY <2>2, <2>5 DEF QuoteInv
(* A request is over, and no version is written.                         *)
<1>c. ASSUME NEW r \in E, reqs' = [reqs EXCEPT ![r] = idle], UNCHANGED <<quoteQuotes, quoteMade>>,
             quoteDeaths' \in 0 .. (IF a THEN MaxQuoteDeaths ELSE 0)
      PROVE  QuoteInv(a)'
  <2>1. reqs' \in [E -> L] /\ reqs'[r] = idle /\ \A e \in E : e # r => reqs'[e] = reqs[e]
    BY <1>t, <1>c, <1>i
  <2>2. made' + Cardinality(Adding(a, reqs')) <= MostItems(a)
    <3>1. Cardinality(Adding(a, reqs')) <= Cardinality(Adding(a, reqs))
      BY <1>t, <1>c, <1>i, AddingStays
    <3> QED
      BY <1>c, <1>t, <1>n, <3>1
  <2>3. QuoteTypes(a)'
    BY <1>0, <1>c, <1>i, <1>t, <2>1, <2>2 DEF QuoteTypes
  <2>4. QuoteOrder(a, rows', reqs')
    <3>1. \A v \in V : Goes(rows, rows', v)
      BY <1>c DEF Goes
    <3>2. \A e \in E : reqs'[e].q \in V /\ (reqs'[e].at = "write" => reqs'[e] = reqs[e])
      BY <1>i, <2>1 DEF QuoteLocals
    <3> QED
      BY <1>0, <3>1, <3>2, QuoteOrderStep
  <2> QED
    BY <2>3, <2>4 DEF QuoteInv
(* ... and a version may be.                                             *)
<1>d. ASSUME NEW r \in E, reqs' = [reqs EXCEPT ![r] = idle]
      PROVE  /\ reqs' \in [E -> L] /\ \A e \in E : IsFiniteSet(reqs'[e].copy.items)
             /\ \A e \in E : reqs'[e] = reqs[e] \/ reqs'[e].at # "write"
             /\ made + Cardinality(Adding(a, reqs')) <= MostItems(a)
  <2>1. reqs' \in [E -> L] /\ reqs'[r] = idle /\ \A e \in E : e # r => reqs'[e] = reqs[e]
    BY <1>t, <1>d, <1>i
  <2>2. Cardinality(Adding(a, reqs')) <= Cardinality(Adding(a, reqs))
    BY <1>t, <1>d, <1>i, AddingStays
  <2>3. made + Cardinality(Adding(a, reqs')) <= MostItems(a)
    BY <1>n, <1>t, <2>2
  <2>4. \A e \in E : IsFiniteSet(reqs'[e].copy.items) /\ (reqs'[e] = reqs[e] \/ reqs'[e].at # "write")
    <3>1. ASSUME NEW e \in E PROVE IsFiniteSet(reqs'[e].copy.items) /\ (reqs'[e] = reqs[e] \/ reqs'[e].at # "write")
      <4>1. CASE e = r
        BY <1>i, <2>1, <4>1
      <4>2. CASE e # r
        BY <1>t, <2>1, <4>2
      <4> QED
        BY <4>1, <4>2
    <3> QED
      BY <3>1
  <2> QED
    BY <2>1, <2>3, <2>4
<1>1. CASE UNCHANGED quoteVars
  BY <1>0, <1>1 DEF quoteVars, QuoteInv, QuoteTypes, QuoteOrder, Writes, Adding
<1>2. CASE Quotes(a)!createQuote
  <2> DEFINE x == [rows[1] EXCEPT !.status = "DRAFT"]
  <2>1. /\ rows[1].status = "none" /\ rows' = [rows EXCEPT ![1].status = "DRAFT"] /\ UNCHANGED <<quoteReq, quoteMade, quoteDeaths>>
    BY <1>2 DEF Quotes!createQuote
  <2>2. 1 \in V
    BY QuoteConstants DEF QuoteVersions
  <2>3. rows[1] \in Q
    BY <1>t, <2>2
  <2>4. x \in Q /\ x.status = "DRAFT" /\ x.items = rows[1].items
    BY <2>3 DEF QuoteRows
  <2>5. rows' = [rows EXCEPT ![1] = x]
    BY <1>t, <2>1, <2>2
  <2> HIDE DEF x
  <2> QED
    BY <1>b, <1>n, <1>t, <2>1, <2>2, <2>4, <2>5
<1>3. CASE Quotes(a)!acceptQuote
  <2>1. PICK v \in V : rows[v].status = "SENT" /\ rows' = [rows EXCEPT ![v].status = "ACCEPTED"]
    BY <1>3 DEF Quotes!acceptQuote, Quotes!Versions, QuoteVersions, Quotes!Status, Quotes!SetStatus
  <2>2. UNCHANGED <<quoteReq, quoteMade, quoteDeaths>>
    BY <1>3 DEF Quotes!acceptQuote
  <2> DEFINE x == [rows[v] EXCEPT !.status = "ACCEPTED"]
  <2>3. rows[v] \in Q
    BY <1>t
  <2>4. x \in Q /\ x.status = "ACCEPTED" /\ x.items = rows[v].items
    BY <2>3 DEF QuoteRows
  <2>5. rows' = [rows EXCEPT ![v] = x]
    BY <1>t, <2>1
  <2> HIDE DEF x
  <2> QED
    BY <1>b, <1>n, <1>t, <2>1, <2>2, <2>4, <2>5
(* The first statement of a handler.                                     *)
<1>4. ASSUME NEW r \in E, NEW op \in {"add", "change", "delete", "send", "reject", "accept", "revise"}, NEW v \in V,
             NEW item \in 0 .. MostItems(a), NEW at \in {"item", "write"}, Quotes(a)!Begin(r, op, v, item, at),
             at = "write" => rows[v].status # "none" /\ (op = "revise" => rows[v].status # "DRAFT" /\ v + 1 \in V),
             op = "add" => made + Cardinality(Adding(a, reqs)) < MostItems(a)
      PROVE  QuoteInv(a)'
  <2> DEFINE copy == IF op = "revise" THEN rows[v] ELSE none
             l == [at |-> at, op |-> op, q |-> v, item |-> item, copy |-> copy]
  <2>1. reqs' = [reqs EXCEPT ![r] = l] /\ UNCHANGED <<quoteQuotes, quoteMade, quoteDeaths>>
    BY <1>4, <1>i DEF Quotes!Begin
  <2>2. copy \in Q /\ IsFiniteSet(copy.items)
    BY <1>t, <1>i
  <2> HIDE DEF copy
  <2>3. l \in L /\ l.copy = copy /\ l.at = at /\ l.op = op /\ l.q = v
    BY <2>2 DEF QuoteLocals
  <2> HIDE DEF l
  <2>4. l.at = "write" => Writes(rows, l)
    BY <1>4, <2>3 DEF Writes
  <2>5. Refused(l) \/ made + Cardinality(Adding(a, reqs)) < MostItems(a)
    BY <1>4, <2>3
  <2> QED
    BY <1>a, <2>1, <2>2, <2>3, <2>4, <2>5
<1>5. ASSUME NEW r \in E, Quotes(a)!EditItem(r) PROVE QuoteInv(a)'
  <2>1. PICK v \in V :
          \/ /\ made + Cardinality(Adding(a, reqs)) < MostItems(a)
             /\ Quotes(a)!Begin(r, "add", v, 0, "item")
          \/ \E i \in rows[v].items, op \in {"change", "delete"} : Quotes(a)!Begin(r, op, v, i.id, "item")
    BY <1>5 DEF Quotes!EditItem, Quotes!Versions, QuoteVersions, Adding, Editing, MostItems,
                Quotes!Cardinality, Quotes!IsFiniteSet, Cardinality, IsFiniteSet
  <2>2. CASE made + Cardinality(Adding(a, reqs)) < MostItems(a) /\ Quotes(a)!Begin(r, "add", v, 0, "item")
    BY <1>4, <1>n, <2>2
  <2>3. ASSUME NEW i \in rows[v].items, NEW op \in {"change", "delete"}, Quotes(a)!Begin(r, op, v, i.id, "item") PROVE QuoteInv(a)'
    <3>1. rows[v] \in Q
      BY <1>t
    <3>2. i \in QuoteItems(a)
      BY <3>1 DEF QuoteRows
    <3>3. i.id \in 0 .. MostItems(a)
      BY <1>n, <3>2 DEF QuoteItems
    <3> QED
      BY <1>4, <2>3, <3>3
  <2> QED
    BY <2>1, <2>2, <2>3
<1>6. ASSUME NEW r \in E, Quotes(a)!Send(r) \/ Quotes(a)!Reject(r) \/ Quotes(a)!PortalAccept(r) PROVE QuoteInv(a)'
  <2>1. PICK v \in V, op \in {"send", "reject", "accept"} : rows[v].status # "none" /\ Quotes(a)!Begin(r, op, v, 0, "write")
    BY <1>6 DEF Quotes!Send, Quotes!Reject, Quotes!PortalAccept, Quotes!Status, Quotes!Versions, QuoteVersions
  <2> QED
    BY <1>4, <1>n, <2>1
<1>7. ASSUME NEW r \in E, Quotes(a)!Revise(r) PROVE QuoteInv(a)'
  <2>1. PICK v \in V \ {MaxQuoteVersions} : rows[v].status \in {"SENT", "REJECTED"} /\ Quotes(a)!Begin(r, "revise", v, 0, "write")
    BY <1>7 DEF Quotes!Revise, Quotes!Status, Quotes!Versions, QuoteVersions
  <2>2. v + 1 \in V
    BY QuoteConstants DEF QuoteVersions
  <2> QED
    BY <1>4, <1>n, <2>1, <2>2
<1>8. ASSUME NEW r \in E, Quotes(a)!WriteItem(r) PROVE QuoteInv(a)'
  <2> DEFINE v == reqs[r].q
             mine == {i \in rows[v].items : i.id = reqs[r].item}
             l == [reqs[r] EXCEPT !.at = "all"]
  <2>1. reqs[r] \in L /\ reqs[r].at = "item" /\ UNCHANGED quoteDeaths
    BY <1>8, <1>t DEF Quotes!WriteItem
  <2>2. v \in V /\ l \in L /\ l.at = "all" /\ l.op = reqs[r].op /\ l.copy = reqs[r].copy
    BY <2>1 DEF QuoteLocals
  <2>3. rows[v] \in Q /\ IsFiniteSet(rows[v].items) /\ rows[v].items \subseteq QuoteItems(a)
    <3>1. rows[v] \in Q
      BY <1>t, <2>2
    <3> QED
      BY <1>t, <2>2, <3>1 DEF QuoteRows
  (* The items of the version become others.                             *)
  <2>a. ASSUME NEW items, items \subseteq QuoteItems(a), IsFiniteSet(items), rows' = [rows EXCEPT ![v].items = items],
               reqs' = [reqs EXCEPT ![r].at = "all"],
               made' \in Nat, made' = made \/ (made' = made + 1 /\ reqs[r].op = "add")
        PROVE  QuoteInv(a)'
    <3> DEFINE x == [rows[v] EXCEPT !.items = items]
    <3>1. x \in Q /\ x.items = items /\ x.status = rows[v].status
      BY <2>3, <2>a DEF QuoteRows
    <3>2. rows' = [rows EXCEPT ![v] = x] /\ reqs' = [reqs EXCEPT ![r] = l]
      BY <1>t, <2>2, <2>a
    <3> HIDE DEF x, l
    <3>3. reqs' \in [E -> L] /\ reqs'[r] = l /\ \A e \in E : e # r => reqs'[e] = reqs[e]
      BY <1>t, <2>2, <3>2
    <3>4. Refused(l) /\ (reqs[r].op = "add" => r \in Adding(a, reqs))
      BY <2>1, <2>2 DEF Adding
    <3>5. /\ Cardinality(Adding(a, reqs')) <= Cardinality(Adding(a, reqs))
          /\ r \in Adding(a, reqs) => Cardinality(Adding(a, reqs')) + 1 <= Cardinality(Adding(a, reqs))
      BY <1>t, <3>2, <3>4, AddingStays
    <3>6. made' + Cardinality(Adding(a, reqs')) <= MostItems(a)
      BY <1>n, <1>t, <2>a, <3>4, <3>5
    <3>7. \A e \in E : IsFiniteSet(reqs'[e].copy.items) /\ (reqs'[e] = reqs[e] \/ reqs'[e].at # "write")
      BY <1>t, <2>2, <3>3
    <3> HIDE DEF v
    <3> QED
      BY <1>b, <2>1, <2>2, <2>a, <3>1, <3>2, <3>3, <3>6, <3>7
  <2>4. ASSUME NEW p \in Priced(a), reqs[r].op = "add", made' = made + 1, reqs' = [reqs EXCEPT ![r].at = "all"],
               rows' = [rows EXCEPT ![v].items = rows[v].items \cup {[id |-> made + 1, price |-> p]}]
        PROVE  QuoteInv(a)'
    <3>1. r \in Adding(a, reqs)
      BY <2>1, <2>4 DEF Adding
    <3>2. Cardinality(Adding(a, reqs)) # 0
      BY <3>1, QuoteConstants, FS_EmptySet
    <3>3. made + 1 \in 1 .. MostItems(a)
      BY <1>n, <1>t, <3>2
    <3>4. [id |-> made + 1, price |-> p] \in QuoteItems(a)
      BY <3>3 DEF QuoteItems
    <3>5. IsFiniteSet(rows[v].items \cup {[id |-> made + 1, price |-> p]})
      BY <2>3, FS_AddElement
    <3> DEFINE items == rows[v].items \cup {[id |-> made + 1, price |-> p]}
    <3>6. items \subseteq QuoteItems(a) /\ IsFiniteSet(items)
      BY <2>3, <3>4, <3>5
    <3>7. rows' = [rows EXCEPT ![v].items = items] /\ reqs' = [reqs EXCEPT ![r].at = "all"] /\ made' \in Nat /\ made' = made + 1
      BY <1>t, <2>4
    <3> HIDE DEF items, v
    <3> QED
      BY <2>4, <2>a, <3>6, <3>7
  <2>5. ASSUME NEW p \in Priced(a), mine # {}, made' = made, reqs' = [reqs EXCEPT ![r].at = "all"],
               rows' = [rows EXCEPT ![v].items = (rows[v].items \ mine) \cup {[id |-> reqs[r].item, price |-> p]}]
        PROVE  QuoteInv(a)'
    <3>1. PICK i \in rows[v].items : i.id = reqs[r].item
      BY <2>5
    <3>2. reqs[r].item \in 1 .. MostItems(a)
      BY <2>3, <3>1 DEF QuoteItems
    <3>3. [id |-> reqs[r].item, price |-> p] \in QuoteItems(a)
      BY <3>2 DEF QuoteItems
    <3>4. IsFiniteSet(rows[v].items \ mine)
      BY <2>3, FS_Subset
    <3>5. IsFiniteSet((rows[v].items \ mine) \cup {[id |-> reqs[r].item, price |-> p]})
      BY <3>4, FS_AddElement
    <3> QED
      BY <1>t, <2>3, <2>5, <2>a, <3>3, <3>5
  <2>6. ASSUME made' = made, reqs' = [reqs EXCEPT ![r].at = "all"], rows' = [rows EXCEPT ![v].items = rows[v].items \ mine]
        PROVE  QuoteInv(a)'
    <3>1. IsFiniteSet(rows[v].items \ mine)
      BY <2>3, FS_Subset
    <3> QED
      BY <1>t, <2>3, <2>6, <2>a, <3>1
  <2>7. CASE reqs' = [reqs EXCEPT ![r] = idle] /\ UNCHANGED <<quoteQuotes, quoteMade>>
    BY <1>0, <1>c, <2>1, <2>7 DEF QuoteTypes
  <2> QED
    BY <1>8, <1>i, <2>4, <2>5, <2>6, <2>7 DEF Quotes!WriteItem, Quotes!Over, Priced
<1>9. ASSUME NEW r \in E, Quotes(a)!ReadItems(r) PROVE QuoteInv(a)'
  <2> DEFINE l == [reqs[r] EXCEPT !.at = "totals", !.copy = rows[reqs[r].q]]
  <2>1. /\ reqs' = [reqs EXCEPT ![r].at = "totals", ![r].copy = rows[reqs[r].q]]
        /\ UNCHANGED <<quoteQuotes, quoteMade, quoteDeaths>>
    BY <1>9 DEF Quotes!ReadItems
  <2>2. reqs[r] \in L /\ reqs[r].q \in V
    BY <1>t DEF QuoteLocals
  <2>3. rows[reqs[r].q] \in Q /\ IsFiniteSet(rows[reqs[r].q].items)
    BY <1>t, <2>2
  <2>4. l \in L /\ l.at = "totals" /\ l.copy = rows[reqs[r].q]
    BY <2>2, <2>3 DEF QuoteLocals
  <2>5. reqs' = [reqs EXCEPT ![r] = l]
    BY <1>t, <2>1
  <2> HIDE DEF l
  <2> QED
    BY <1>a, <2>1, <2>3, <2>4, <2>5
<1>10. ASSUME NEW r \in E, Quotes(a)!WriteTotals(r) PROVE QuoteInv(a)'
  <2> DEFINE v == reqs[r].q
             total == TotalPrice(a, reqs[r].copy.items)
             x == [rows[v] EXCEPT !.total = total]
  <2>1. /\ rows' = [rows EXCEPT ![v].total = total] /\ reqs' = [reqs EXCEPT ![r] = idle] /\ UNCHANGED <<quoteMade, quoteDeaths>>
    BY <1>10, <1>i DEF Quotes!WriteTotals, Quotes!Over, TotalPrice
  <2>2. reqs[r] \in L /\ v \in V /\ reqs[r].copy \in Q /\ IsFiniteSet(reqs[r].copy.items)
    BY <1>t DEF QuoteLocals
  <2>3. total \in Nat
    <3>1. reqs[r].copy.items \subseteq QuoteItems(a)
      BY <2>2 DEF QuoteRows
    <3>2. \A i \in reqs[r].copy.items : i.price \in Nat
      BY <3>1, QuoteConstants DEF QuoteItems
    <3> QED
      BY <2>2, <3>2, TotalIsNumber
  <2> HIDE DEF total
  <2>4. rows[v] \in Q /\ IsFiniteSet(rows[v].items)
    BY <1>t, <2>2
  <2>5. x \in Q /\ x.status = rows[v].status /\ x.items = rows[v].items
    BY <2>3, <2>4 DEF QuoteRows
  <2>6. rows' = [rows EXCEPT ![v] = x]
    BY <1>t, <2>1, <2>2
  <2> HIDE DEF x, v
  <2> QED
    BY <1>b, <1>d, <1>t, <2>1, <2>2, <2>4, <2>5, <2>6
<1>11. ASSUME NEW r \in E, Quotes(a)!WriteStatus(r) PROVE QuoteInv(a)'
  <2> DEFINE v == reqs[r].q
  <2>1. PICK s \in {"SENT", "REJECTED", "ACCEPTED"} : rows' = [rows EXCEPT ![v].status = s]
    BY <1>11 DEF Quotes!WriteStatus, Quotes!SetStatus
  <2>2. reqs[r].at = "write" /\ reqs' = [reqs EXCEPT ![r] = idle] /\ UNCHANGED <<quoteMade, quoteDeaths>>
    BY <1>11, <1>i DEF Quotes!WriteStatus, Quotes!Over
  <2>3. v \in V /\ rows[v].status # "none"
    BY <1>0, <1>t, <2>2 DEF QuoteLocals, QuoteOrder, Writes
  <2> DEFINE x == [rows[v] EXCEPT !.status = s]
  <2>4. rows[v] \in Q /\ IsFiniteSet(rows[v].items)
    BY <1>t, <2>3
  <2>5. x \in Q /\ x.status = s /\ x.items = rows[v].items
    BY <2>4 DEF QuoteRows
  <2>6. rows' = [rows EXCEPT ![v] = x]
    BY <1>t, <2>1, <2>3
  <2> HIDE DEF x, v
  <2> QED
    BY <1>b, <1>d, <1>t, <2>1, <2>2, <2>3, <2>4, <2>5, <2>6
<1>12. ASSUME NEW r \in E, Quotes(a)!CreateRevision(r) PROVE QuoteInv(a)'
  <2> DEFINE v == reqs[r].q + 1
             x == [reqs[r].copy EXCEPT !.status = "DRAFT"]
  <2>1. /\ reqs[r].at = "write" /\ reqs[r].op = "revise" /\ reqs' = [reqs EXCEPT ![r] = idle] /\ UNCHANGED <<quoteMade, quoteDeaths>>
        /\ rows' = IF rows[v].status = "none" THEN [rows EXCEPT ![v] = x] ELSE rows
    BY <1>12, <1>i DEF Quotes!CreateRevision, Quotes!Over
  <2>2. reqs[r] \in L /\ reqs[r].copy \in Q /\ IsFiniteSet(reqs[r].copy.items) /\ reqs[r].q \in V
    BY <1>t DEF QuoteLocals
  <2>3. v \in V /\ v # 1 /\ v - 1 = reqs[r].q /\ rows[reqs[r].q].status \notin {"none", "DRAFT"}
    BY <1>0, <2>1, <2>2 DEF QuoteOrder, Writes, QuoteVersions
  <2>4. x \in Q /\ x.status = "DRAFT" /\ x.items = reqs[r].copy.items
    BY <2>2 DEF QuoteRows
  <2> HIDE DEF x, v
  <2>5. CASE rows[v].status = "none"
    BY <1>b, <1>d, <1>t, <2>1, <2>2, <2>3, <2>4, <2>5
  <2>6. CASE rows[v].status # "none"
    BY <1>0, <1>c, <2>1, <2>6 DEF QuoteTypes
  <2> QED
    BY <2>5, <2>6
<1>13. ASSUME NEW r \in E, Quotes(a)!Die(r) PROVE QuoteInv(a)'
  <2>1. /\ reqs' = [reqs EXCEPT ![r] = idle] /\ UNCHANGED <<quoteQuotes, quoteMade>>
        /\ quoteDeaths' = quoteDeaths + 1 /\ quoteDeaths < IF a THEN MaxQuoteDeaths ELSE 0
    BY <1>13, <1>i DEF Quotes!Die, Quotes!Over
  <2>2. quoteDeaths' \in 0 .. (IF a THEN MaxQuoteDeaths ELSE 0)
    BY <1>0, <2>1, QuoteConstants DEF QuoteTypes
  <2> QED
    BY <1>c, <2>1, <2>2
<1> QED
  BY <1>1, <1>2, <1>3, <1>5, <1>6, <1>7, <1>8, <1>9, <1>10, <1>11, <1>12, <1>13 DEF Quotes!Next, Quotes!Request, Editing

(* The one request that edits has a draft, and the items it has read are   *)
(* those of the draft.                                                     *)
Alone(rows, l) ==
  /\ l.at \in {"item", "all", "totals"} => rows[l.q].status = "DRAFT"
  /\ l.at = "totals" => l.copy.items = rows[l.q].items
AtRest(rows, new) ==
  \A v \in QuoteVersions : \/ rows[v].status = "none"
                           \/ new[v].total = rows[v].total /\ (rows[v].status = "DRAFT" \/ new[v].items = rows[v].items)

LEMMA RestKeeps ==
  ASSUME AtRest(quoteQuotes, quoteQuotes')
  PROVE  Quotes(TRUE)!Repairs /\ Quotes(TRUE)!Frozen
BY DEF AtRest, Quotes!Repairs, Quotes!Frozen, Quotes!Versions, QuoteVersions

LEMMA AloneStep ==
  ASSUME QuoteInv(TRUE), Alone(quoteQuotes, quoteReq[r1]), [Quotes(TRUE)!Next]_quoteVars
  PROVE  Alone(quoteQuotes', quoteReq'[r1]) /\ Quotes(TRUE)!Repairs /\ Quotes(TRUE)!Frozen
<1> DEFINE V == QuoteVersions  Q == QuoteRows(TRUE)  L == QuoteLocals(TRUE)
           rows == quoteQuotes  reqs == quoteReq  l == reqs[r1]  v == l.q
<1>t. rows \in [V -> Q] /\ reqs \in [{r1} -> L]
  BY DEF QuoteInv, QuoteTypes, Editing
<1>q. l \in L /\ v \in V /\ rows[v] \in Q
  BY <1>t DEF QuoteLocals
<1>l. Alone(rows, l)
  OBVIOUS
<1>i. Quotes(TRUE)!Idle.at = "idle"
  BY DEF Quotes!Idle
(* The versions stay.                                                    *)
<1>a. ASSUME UNCHANGED quoteQuotes, reqs'[r1].at \in {"item", "all", "totals"} => rows[reqs'[r1].q].status = "DRAFT",
             reqs'[r1].at = "totals" => reqs'[r1].copy.items = rows[reqs'[r1].q].items
      PROVE  Alone(rows', reqs'[r1]) /\ Quotes(TRUE)!Repairs /\ Quotes(TRUE)!Frozen
  <2>1. AtRest(rows, rows')
    BY <1>a DEF AtRest
  <2> QED
    BY <1>a, <2>1, RestKeeps DEF Alone
<1>1. CASE UNCHANGED quoteVars
  BY <1>1, <1>a, <1>l DEF quoteVars, Alone
<1>2. CASE Quotes(TRUE)!createQuote
  <2>1. rows[1].status = "none" /\ rows' = [rows EXCEPT ![1].status = "DRAFT"] /\ UNCHANGED quoteReq
    BY <1>2 DEF Quotes!createQuote
  <2>2. \A u \in V : u # 1 => rows'[u] = rows[u]
    BY <1>t, <2>1
  <2>3. AtRest(rows, rows')
    BY <2>1, <2>2 DEF AtRest
  <2>4. Alone(rows', reqs'[r1])
    <3>1. CASE v = 1
      BY <1>l, <2>1, <3>1 DEF Alone
    <3>2. CASE v # 1
      BY <1>l, <1>q, <2>1, <2>2, <3>2 DEF Alone
    <3> QED
      BY <3>1, <3>2
  <2> QED
    BY <2>3, <2>4, RestKeeps
<1>3. CASE Quotes(TRUE)!acceptQuote
  <2>1. PICK u \in V : rows[u].status = "SENT" /\ rows' = [rows EXCEPT ![u].status = "ACCEPTED"]
    BY <1>3 DEF Quotes!acceptQuote, Quotes!Versions, QuoteVersions, Quotes!Status, Quotes!SetStatus
  <2>2. UNCHANGED quoteReq
    BY <1>3 DEF Quotes!acceptQuote
  <2>3. /\ \A w \in V : w # u => rows'[w] = rows[w]
        /\ rows'[u].total = rows[u].total /\ rows'[u].items = rows[u].items
    <3>1. rows[u] \in Q
      BY <1>t
    <3> QED
      BY <1>t, <2>1, <3>1 DEF QuoteRows
  <2>4. AtRest(rows, rows')
    BY <2>3 DEF AtRest
  <2>5. Alone(rows', reqs'[r1])
    BY <1>l, <1>q, <2>1, <2>2, <2>3 DEF Alone
  <2> QED
    BY <2>4, <2>5, RestKeeps
<1>4. CASE Quotes(TRUE)!EditItem(r1)
  <2>1. PICK u \in V : rows[u].status = "DRAFT" /\ \E op, item : Quotes(TRUE)!Begin(r1, op, u, item, "item")
    BY <1>4 DEF Quotes!EditItem, Quotes!Versions, QuoteVersions, Quotes!Status
  <2>2. reqs'[r1].at = "item" /\ reqs'[r1].q = u /\ UNCHANGED quoteQuotes
    BY <1>t, <2>1 DEF Quotes!Begin
  <2> QED
    BY <1>a, <2>1, <2>2
<1>5. CASE Quotes(TRUE)!Send(r1) \/ Quotes(TRUE)!Reject(r1) \/ Quotes(TRUE)!PortalAccept(r1) \/ Quotes(TRUE)!Revise(r1)
  <2>1. \E op, u : Quotes(TRUE)!Begin(r1, op, u, 0, "write")
    BY <1>5 DEF Quotes!Send, Quotes!Reject, Quotes!PortalAccept, Quotes!Revise
  <2>2. reqs'[r1].at = "write" /\ UNCHANGED quoteQuotes
    BY <1>t, <2>1 DEF Quotes!Begin
  <2> QED
    BY <1>a, <2>2
<1>6. CASE Quotes(TRUE)!WriteItem(r1)
  <2>1. l.at = "item" /\ rows[v].status = "DRAFT"
    BY <1>6, <1>l DEF Quotes!WriteItem, Alone
  <2>2. CASE reqs' = [reqs EXCEPT ![r1] = Quotes(TRUE)!Idle] /\ UNCHANGED quoteQuotes
    BY <1>a, <1>i, <1>t, <2>2
  <2>3. ASSUME NEW items, rows' = [rows EXCEPT ![v].items = items], reqs' = [reqs EXCEPT ![r1].at = "all"]
        PROVE  Alone(rows', reqs'[r1]) /\ Quotes(TRUE)!Repairs /\ Quotes(TRUE)!Frozen
    <3>1. /\ \A w \in V : w # v => rows'[w] = rows[w]
          /\ rows'[v].total = rows[v].total /\ rows'[v].status = rows[v].status
      BY <1>q, <1>t, <2>3 DEF QuoteRows
    <3>2. reqs'[r1].at = "all" /\ reqs'[r1].q = v
      BY <1>q, <1>t, <2>3 DEF QuoteLocals
    <3>3. AtRest(rows, rows')
      BY <2>1, <3>1 DEF AtRest
    <3> QED
      BY <2>1, <3>1, <3>2, <3>3, RestKeeps DEF Alone
  <2> QED
    BY <1>6, <2>2, <2>3 DEF Quotes!WriteItem, Quotes!Over
<1>7. CASE Quotes(TRUE)!ReadItems(r1)
  <2>1. l.at = "all" /\ reqs' = [reqs EXCEPT ![r1].at = "totals", ![r1].copy = rows[v]] /\ UNCHANGED quoteQuotes
    BY <1>7 DEF Quotes!ReadItems
  <2>2. reqs'[r1].at = "totals" /\ reqs'[r1].q = v /\ reqs'[r1].copy = rows[v]
    BY <1>q, <1>t, <2>1 DEF QuoteLocals
  <2> QED
    BY <1>a, <1>l, <2>1, <2>2 DEF Alone
<1>8. CASE Quotes(TRUE)!WriteTotals(r1)
  <2> DEFINE total == TotalPrice(TRUE, l.copy.items)
  <2>1. l.at = "totals" /\ rows' = [rows EXCEPT ![v].total = total] /\ reqs' = [reqs EXCEPT ![r1] = Quotes(TRUE)!Idle]
    BY <1>8 DEF Quotes!WriteTotals, Quotes!Over, TotalPrice
  <2>2. rows[v].status = "DRAFT" /\ l.copy.items = rows[v].items
    BY <1>l, <2>1 DEF Alone
  <2>3. /\ \A w \in V : w # v => rows'[w] = rows[w]
        /\ rows'[v].total = total /\ rows'[v].items = rows[v].items
    <3> HIDE DEF total
    <3> QED
      BY <1>q, <1>t, <2>1 DEF QuoteRows
  <2>4. rows'[v].total = TotalPrice(TRUE, rows'[v].items)
    BY <2>2, <2>3
  <2>5. Alone(rows', reqs'[r1])
    BY <1>i, <1>t, <2>1 DEF Alone
  <2>6. Quotes(TRUE)!Frozen
    BY <2>2, <2>3 DEF Quotes!Frozen, Quotes!Versions, QuoteVersions
  <2>7. Quotes(TRUE)!Repairs
    <3>1. ASSUME NEW w \in V, rows'[w].total # rows[w].total PROVE rows'[w].total = TotalPrice(TRUE, rows'[w].items)
      BY <2>3, <2>4, <3>1
    <3> QED
      BY <3>1, Zenon DEF Quotes!Repairs, Quotes!Versions, QuoteVersions, Quotes!TotalOf, TotalPrice
  <2> QED
    BY <2>5, <2>6, <2>7
<1>9. CASE Quotes(TRUE)!WriteStatus(r1)
  <2>1. PICK s : rows' = [rows EXCEPT ![v].status = s]
    BY <1>9 DEF Quotes!WriteStatus, Quotes!SetStatus
  <2>2. reqs' = [reqs EXCEPT ![r1] = Quotes(TRUE)!Idle]
    BY <1>9 DEF Quotes!WriteStatus, Quotes!Over
  <2>3. /\ \A w \in V : w # v => rows'[w] = rows[w]
        /\ rows'[v].total = rows[v].total /\ rows'[v].items = rows[v].items
    BY <1>q, <1>t, <2>1 DEF QuoteRows
  <2>4. AtRest(rows, rows')
    BY <2>3 DEF AtRest
  <2> QED
    BY <1>i, <1>t, <2>2, <2>4, RestKeeps DEF Alone
<1>10. CASE Quotes(TRUE)!CreateRevision(r1)
  <2>1. reqs' = [reqs EXCEPT ![r1] = Quotes(TRUE)!Idle]
    BY <1>10 DEF Quotes!CreateRevision, Quotes!Over
  <2>2. \A w \in V : rows[w].status = "none" \/ rows'[w] = rows[w]
    <3> DEFINE x == [l.copy EXCEPT !.status = "DRAFT"]
    <3>1. rows' = IF rows[v + 1].status = "none" THEN [rows EXCEPT ![v + 1] = x] ELSE rows
      BY <1>10 DEF Quotes!CreateRevision
    <3> HIDE DEF x
    <3> QED
      BY <1>t, <3>1
  <2>3. AtRest(rows, rows')
    BY <2>2 DEF AtRest
  <2> QED
    BY <1>i, <1>t, <2>1, <2>3, RestKeeps DEF Alone
<1>11. CASE Quotes(TRUE)!Die(r1)
  <2>1. reqs' = [reqs EXCEPT ![r1] = Quotes(TRUE)!Idle] /\ UNCHANGED quoteQuotes
    BY <1>11 DEF Quotes!Die, Quotes!Over
  <2> QED
    BY <1>a, <1>i, <1>t, <2>1
<1> QED
  BY <1>1, <1>2, <1>3, <1>4, <1>5, <1>6, <1>7, <1>8, <1>9, <1>10, <1>11 DEF Quotes!Next, Quotes!Request

-----------------------------------------------------------------------------
LEMMA QuoteTurns ==
  ASSUME [Next]_vars
  PROVE  /\ UNCHANGED under
         /\ under = "quotes" => [Quotes(FALSE)!Next]_quoteVars
         /\ under # "quotes" => [Quotes(TRUE)!Next]_quoteVars
BY DEF Next, Turn, vars, NotInvoice, NotQuote, NotContract, NotDiscount, NotMoney, NotTeam, NotInvite, NotSession

QuotesKept ==
  /\ under = "quotes" => QuoteInv(FALSE)
  /\ under # "quotes" => QuoteInv(TRUE) /\ Alone(quoteQuotes, quoteReq[r1])

(* However many edits interleave, a version is made of one before it that  *)
(* was sent; and, one edit at a time, the next one that writes a total     *)
(* leaves the sum of the items, whatever an edit that died has left, and   *)
(* none touches a quote that was sent.                                     *)
THEOREM QuotesAreKeptAlways == Spec => QuotesAreKept
<1>1. Init => QuotesKept
  <2> SUFFICES ASSUME Init PROVE QuotesKept
    OBVIOUS
  <2>1. ASSUME under = "quotes" PROVE QuoteInv(FALSE)
    BY <2>1, QuoteInit DEF Init
  <2>2. ASSUME under # "quotes" PROVE QuoteInv(TRUE) /\ Alone(quoteQuotes, quoteReq[r1])
    <3>1. Quotes(TRUE)!Init
      BY <2>2 DEF Init
    <3>2. quoteReq[r1].at = "idle"
      BY <3>1 DEF Quotes!Init, Quotes!Idle
    <3> QED
      BY <3>1, <3>2, QuoteInit DEF Alone
  <2> QED
    BY <2>1, <2>2 DEF QuotesKept
<1>2. QuotesKept /\ [Next]_vars => QuotesKept'
  <2> SUFFICES ASSUME QuotesKept, [Next]_vars PROVE QuotesKept'
    OBVIOUS
  <2>1. ASSUME under = "quotes" PROVE QuoteInv(FALSE)'
    BY <2>1, QuoteTurns, QuoteStep DEF QuotesKept
  <2>2. ASSUME under # "quotes" PROVE QuoteInv(TRUE)' /\ Alone(quoteQuotes', quoteReq'[r1])
    BY <2>2, QuoteTurns, QuoteStep, AloneStep DEF QuotesKept
  <2> QED
    BY <2>1, <2>2, QuoteTurns DEF QuotesKept
<1>3. QuotesKept => (under = "quotes" => Quotes(FALSE)!TypeOK /\ Quotes(FALSE)!VersionsAreConsecutive)
  <2>1. ASSUME QuoteInv(FALSE) PROVE Quotes(FALSE)!TypeOK /\ Quotes(FALSE)!VersionsAreConsecutive
    BY <2>1, QuoteTypeOK DEF QuoteInv, QuoteOrder, Quotes!VersionsAreConsecutive, Quotes!Versions, QuoteVersions
  <2> QED
    BY <2>1 DEF QuotesKept
<1>4. QuotesKept /\ [Next]_vars => (under = "quotes, one edit at a time" => Quotes(TRUE)!Repairs /\ Quotes(TRUE)!Frozen)
  <2> SUFFICES ASSUME QuotesKept, [Next]_vars, under = "quotes, one edit at a time" PROVE Quotes(TRUE)!Repairs /\ Quotes(TRUE)!Frozen
    OBVIOUS
  <2>1. QuoteInv(TRUE) /\ Alone(quoteQuotes, quoteReq[r1]) /\ [Quotes(TRUE)!Next]_quoteVars
    BY QuoteTurns DEF QuotesKept
  <2> QED
    BY <2>1, AloneStep
<1> QED
  BY <1>1, <1>2, <1>3, <1>4, PTL DEF Spec, QuotesAreKept
-----------------------------------------------------------------------------
(* Prices, deposits, fees and refunds.                                     *)
Saved(w, d)  == IF w THEN AllForms ELSE IF d THEN DocForms ELSE TwoForms
Percent(w)   == IF w THEN HighFee ELSE LowFee
HoursOf(w)   == IF w THEN HoursBefore ELSE 1
MoneyBooking(w) == [status: {"PENDING", "CONFIRMED", "CANCELLED"}, total: Nat, platform: BOOLEAN, hours: 0 .. HoursOf(w)]
MoneyPayment == [of: Nat, amount: Nat \ {0}, status: {"PENDING", "SUCCEEDED", "REFUNDED", "PARTIALLY_REFUNDED"},
                 taken: Nat, fee: Nat, commission: Nat, back: Nat]
Usable(policy) == policy = None \/ {policy.free, policy.amount, policy.none} \subseteq Nat
Entered(deposit) == deposit = None \/ deposit.amount = None \/ deposit.amount \in Int

LEMMA MoneyConstants ==
  /\ HighFee \in Nat /\ LowFee \in Nat /\ ReferralPercent \in Nat /\ ReferralCap \in Nat /\ BookedMinutes \in Nat /\ HoursBefore \in Nat
  /\ \A w, d \in BOOLEAN : \A f \in Saved(w, d) :
       f.base \in Nat /\ Entered(f.deposit) /\ (Money(w, d)!Accepted(f) => Usable(f.policy) /\ f.tiers.kind # "array")
<1>1. \A w, d \in BOOLEAN : Money(w, d)!BookingMoneyAssumption
  BY OfficeAssumption
<1>2. ASSUME NEW w \in BOOLEAN, NEW d \in BOOLEAN
      PROVE  /\ {Percent(w), ReferralPercent, ReferralCap, BookedMinutes} \subseteq Nat /\ HoursOf(w) \in Nat
             /\ \A f \in Saved(w, d) :
                  /\ f.base \in Nat
                  /\ f.deposit = None \/ f.deposit.amount = None \/ f.deposit.amount \in Int
                  /\ f.policy = None \/ f.policy.free = None \/ {f.policy.free, f.policy.amount, f.policy.none} \subseteq Nat
  <2>1. Money(w, d)!BookingMoneyAssumption
    BY <1>1
  <2> QED
    BY <2>1 DEF Money!BookingMoneyAssumption, Percent, Saved, HoursOf
<1>3. Percent(TRUE) \in Nat /\ Percent(FALSE) \in Nat /\ {ReferralPercent, ReferralCap, BookedMinutes} \subseteq Nat /\ HoursOf(TRUE) \in Nat
  BY <1>2
<1>4. ASSUME NEW w \in BOOLEAN, NEW d \in BOOLEAN, NEW f \in Saved(w, d)
      PROVE  f.base \in Nat /\ Entered(f.deposit) /\ (Money(w, d)!Accepted(f) => Usable(f.policy) /\ f.tiers.kind # "array")
  <2>1. /\ f.base \in Nat
        /\ f.deposit = None \/ f.deposit.amount = None \/ f.deposit.amount \in Int
        /\ f.policy = None \/ f.policy.free = None \/ {f.policy.free, f.policy.amount, f.policy.none} \subseteq Nat
    BY <1>2
  <2>2. Money(w, d)!Accepted(f) => f.tiers.kind # "array" /\ (f.policy = None \/ f.policy.free # None)
    BY DEF Money!Accepted
  <2>3. Entered(f.deposit)
    BY <2>1 DEF Entered
  <2>4. Money(w, d)!Accepted(f) => Usable(f.policy)
    BY <2>1, <2>2 DEF Usable
  <2> QED
    BY <2>1, <2>2, <2>3, <2>4
<1> QED
  BY <1>3, <1>4 DEF Percent, HoursOf

LEMMA Halved ==
  ASSUME NEW w \in BOOLEAN, NEW d \in BOOLEAN
  PROVE  /\ \A a \in Nat : Money(w, d)!HalfUp(a, 100) \in Nat /\ Money(w, d)!HalfUp(a, 60) \in Nat
         /\ \A a \in Int : Money(w, d)!HalfUp(a, 100) \in Int
         /\ \A a, n \in Nat : a <= n * 100 => Money(w, d)!HalfUp(a, 100) <= n
BY DEF Money!HalfUp

LEMMA Product == \A a, b \in Nat : a * b \in Nat
OBVIOUS

LEMMA Charged ==
  ASSUME NEW w \in BOOLEAN, NEW d \in BOOLEAN, NEW total \in Nat \ {0}, moneyService \in Saved(w, d),
         moneyService.deposit = None \/ moneyService.deposit.amount # None
  PROVE  Money(w, d)!resolvePaymentAmount(total) \in 1 .. total
<1> DEFINE e == moneyService.deposit
           amount == IF e.type = "PERCENTAGE" THEN Money(w, d)!HalfUp(total * e.amount, 100) ELSE Money(w, d)!Least(e.amount * 100, total)
<1>1. CASE e = None
  BY <1>1 DEF Money!resolvePaymentAmount
<1>2. CASE e # None
  <2>1. e.amount \in Int
    BY <1>2, MoneyConstants DEF Entered
  <2>2. amount \in Int
    <3>1. total * e.amount \in Int
      BY <2>1
    <3>2. Money(w, d)!HalfUp(total * e.amount, 100) \in Int
      BY <3>1, Halved
    <3>3. Money(w, d)!Least(e.amount * 100, total) \in Int
      BY <2>1 DEF Money!Least
    <3> QED
      BY <3>2, <3>3
  <2>3. Money(w, d)!resolvePaymentAmount(total) = IF amount >= total \/ amount <= 0 THEN total ELSE amount
    BY <1>2 DEF Money!resolvePaymentAmount
  <2> HIDE DEF amount
  <2> QED
    BY <2>2, <2>3
<1> QED
  BY <1>1, <1>2

LEMMA Feed ==
  ASSUME NEW w \in BOOLEAN, NEW d \in BOOLEAN, NEW charge \in Nat \ {0}, NEW commission \in Nat
  PROVE  /\ Money(w, d)!ApplicationFee(charge, commission) \in Nat
         /\ Money(w, d)!ApplicationFee(charge, commission) < charge
         /\ Money(w, d)!HalfUp(charge * Percent(w), 100) \in Nat
<1>1. charge * Percent(w) \in Nat
  BY MoneyConstants, Product DEF Percent
<1>2. Money(w, d)!HalfUp(charge * Percent(w), 100) \in Nat
  BY <1>1, Halved
<1> DEFINE x == Money(w, d)!HalfUp(charge * Percent(w), 100)
<1>3. Money(w, d)!ApplicationFee(charge, commission) = Money(w, d)!Least(x + commission, Money(w, d)!Most(0, charge - 1))
  BY DEF Money!ApplicationFee, Percent
<1> HIDE DEF x
<1>4. x \in Nat
  BY <1>2 DEF x
<1> QED
  BY <1>2, <1>3, <1>4 DEF Money!Least, Money!Most

LEMMA CommissionIsNumber ==
  ASSUME NEW w \in BOOLEAN, NEW d \in BOOLEAN, NEW total \in Nat
  PROVE  Money(w, d)!Least(Money(w, d)!HalfUp(total * ReferralPercent, 100), ReferralCap) \in Nat
<1>1. total * ReferralPercent \in Nat
  BY MoneyConstants, Product
<1>2. Money(w, d)!HalfUp(total * ReferralPercent, 100) \in Nat
  BY <1>1, Halved
<1> QED
  BY <1>2, MoneyConstants DEF Money!Least

(* A refund is within the payment, and with less notice it is no more.     *)
LEMMA Refunded ==
  ASSUME NEW w \in BOOLEAN, NEW d \in BOOLEAN, NEW policy, Usable(policy), NEW total \in Nat \ {0}
  PROVE  /\ \A h \in Nat : Money(w, d)!evaluateCancellationPolicy(policy, h, total).refund \in 0 .. total
         /\ \A early, late \in Nat : late <= early =>
              Money(w, d)!evaluateCancellationPolicy(policy, late, total).refund
                <= Money(w, d)!evaluateCancellationPolicy(policy, early, total).refund
<1> DEFINE p == IF policy = None THEN Money(w, d)!Default ELSE policy
           fee == IF p.type = "fixed" THEN Money(w, d)!Least(p.amount * 100, total) * 100 ELSE total * p.amount
           part == Money(w, d)!HalfUp(Money(w, d)!Most(total * 100 - fee, 0), 100)
           free == p.free  none == p.none
<1>1. free \in Nat /\ p.amount \in Nat /\ none \in Nat
  BY DEF Usable, Money!Default
<1>2. fee \in Nat
  <2>1. total * p.amount \in Nat
    BY <1>1, Product
  <2>2. Money(w, d)!Least(p.amount * 100, total) * 100 \in Nat
    <3> HIDE DEF p
    <3> QED
      BY <1>1 DEF Money!Least
  <2> QED
    BY <2>1, <2>2
<1>3. part \in 0 .. total
  <2> DEFINE rest == Money(w, d)!Most(total * 100 - fee, 0)
  <2>1. rest \in Nat /\ rest <= total * 100
    <3> HIDE DEF fee
    <3> QED
      BY <1>2 DEF Money!Most
  <2> HIDE DEF rest
  <2>2. Money(w, d)!HalfUp(rest, 100) \in Nat /\ Money(w, d)!HalfUp(rest, 100) <= total
    BY <2>1, Halved
  <2> QED
    BY <2>2 DEF rest
<1>4. ASSUME NEW h \in Nat
      PROVE  Money(w, d)!evaluateCancellationPolicy(policy, h, total).refund =
               IF h >= free THEN total ELSE IF none > 0 /\ h <= none THEN 0 ELSE part
  <2>1. ~(total <= 0)
    OBVIOUS
  <2> QED
    BY <2>1 DEF Money!evaluateCancellationPolicy
<1> HIDE DEF part, free, none, p
<1> QED
  BY <1>1, <1>3, <1>4

-----------------------------------------------------------------------------
MoneyTypes(w, d) ==
  /\ moneyService \in Saved(w, d) /\ Money(w, d)!Accepted(moneyService)
  /\ moneyBookings \in Seq(MoneyBooking(w)) /\ moneyPayments \in Seq(MoneyPayment)
  /\ moneyRefused \subseteq {"tiers", "policy", "deposit"}

(* A payment is of a booking and within it; what was returned is within    *)
(* the payment, and nothing was returned of one that is not refunded.      *)
PaymentFits(p, bookings) ==
  /\ p.of \in 1 .. Len(bookings)
  /\ p.amount <= bookings[p.of].total
  /\ p.back <= p.amount
  /\ p.status \in {"PENDING", "SUCCEEDED"} => p.back = 0
PaymentsFit(payments, bookings) == \A i \in 1 .. Len(payments) : PaymentFits(payments[i], bookings)
MoneyInv(w, d) == MoneyTypes(w, d) /\ PaymentsFit(moneyPayments, moneyBookings)

LEMMA MoneyInit == ASSUME NEW w \in BOOLEAN, NEW d \in BOOLEAN, Money(w, d)!Init PROVE MoneyInv(w, d)
<1>1. moneyService \in Saved(w, d) /\ Money(w, d)!Accepted(moneyService)
  BY DEF Money!Init, Saved
<1>2. moneyBookings = <<>> /\ moneyPayments = <<>> /\ moneyRefused = {}
  BY DEF Money!Init
<1>3. <<>> \in Seq(MoneyBooking(w)) /\ <<>> \in Seq(MoneyPayment) /\ Len(<<>>) = 0
  BY EmptySeq
<1> HIDE DEF Saved, MoneyBooking, MoneyPayment
<1>4. MoneyTypes(w, d)
  BY <1>1, <1>2, <1>3 DEF MoneyTypes
<1>5. PaymentsFit(moneyPayments, moneyBookings)
  BY <1>2, <1>3 DEF PaymentsFit
<1> QED
  BY <1>4, <1>5 DEF MoneyInv

LEMMA MoneyTypeOK == ASSUME NEW w \in BOOLEAN, NEW d \in BOOLEAN, MoneyInv(w, d) PROVE Money(w, d)!TypeOK
<1>1. moneyService \in Saved(w, d) /\ moneyRefused \subseteq {"tiers", "policy", "deposit"}
  BY DEF MoneyInv, MoneyTypes
<1>2. DOMAIN moneyBookings = 1 .. Len(moneyBookings) /\ DOMAIN moneyPayments = 1 .. Len(moneyPayments)
  BY LenProperties DEF MoneyInv, MoneyTypes
<1>3. ASSUME NEW b \in DOMAIN moneyBookings PROVE moneyBookings[b] \in MoneyBooking(w)
  BY <1>2, ElementOfSeq DEF MoneyInv, MoneyTypes
<1>4. ASSUME NEW p \in DOMAIN moneyPayments PROVE moneyPayments[p] \in MoneyPayment /\ moneyPayments[p].of \in DOMAIN moneyBookings
  <2>1. moneyPayments[p] \in MoneyPayment
    BY <1>2, ElementOfSeq DEF MoneyInv, MoneyTypes
  <2>2. moneyPayments[p].of \in 1 .. Len(moneyBookings)
    BY <1>2 DEF MoneyInv, PaymentsFit, PaymentFits
  <2> QED
    BY <1>2, <2>1, <2>2
<1>5. ASSUME NEW p \in DOMAIN moneyPayments
      PROVE  moneyPayments[p] \in [of: DOMAIN moneyBookings, amount: Nat \ {0},
               status: {"PENDING", "SUCCEEDED", "REFUNDED", "PARTIALLY_REFUNDED"}, taken: Nat, fee: Nat, commission: Nat, back: Nat]
  BY <1>4 DEF MoneyPayment
<1>6. ASSUME NEW b \in DOMAIN moneyBookings
      PROVE  moneyBookings[b] \in
        [status: {"PENDING", "CONFIRMED", "CANCELLED"}, total: Nat, platform: BOOLEAN, hours: 0 .. IF w THEN HoursBefore ELSE 1]
  BY <1>3 DEF MoneyBooking, HoursOf
<1> QED
  BY <1>1, <1>5, <1>6 DEF Money!TypeOK, Saved

(* The newest of the payments that succeeded.                              *)
LEMMA NewestIs ==
  ASSUME NEW n \in Nat, NEW S \in SUBSET (1 .. n), S # {}
  PROVE  LET p == CHOOSE p \in S : \A q \in S : q <= p IN p \in S
<1>1. \E p \in S : \A q \in S : q <= p
  <2> DEFINE T == {n - x : x \in S}
  <2>1. \A x \in S : x \in Nat /\ n - x \in Nat
    OBVIOUS
  <2>2. T \subseteq Nat /\ T # {}
    BY <2>1
  <2>3. PICK m \in T : \A x \in T : m <= x
    <3> HIDE DEF T
    <3> QED
      BY <2>2, LeastOfNumbers
  <2>4. PICK p \in S : m = n - p
    OBVIOUS
  <2>5. ASSUME NEW q \in S PROVE q <= p
    <3>1. m <= n - q
      BY <2>3
    <3> QED
      BY <2>1, <2>4, <3>1
  <2> QED
    BY <2>5
<1> QED
  BY <1>1

(* One booking changes, and not its total.                                 *)
LEMMA BookingChanges ==
  ASSUME NEW w \in BOOLEAN, moneyBookings \in Seq(MoneyBooking(w)), PaymentsFit(moneyPayments, moneyBookings),
         NEW b \in 1 .. Len(moneyBookings), NEW x \in MoneyBooking(w), x.total = moneyBookings[b].total,
         moneyBookings' = [moneyBookings EXCEPT ![b] = x]
  PROVE  moneyBookings' \in Seq(MoneyBooking(w)) /\ PaymentsFit(moneyPayments, moneyBookings')
<1>1. /\ moneyBookings' \in Seq(MoneyBooking(w)) /\ Len(moneyBookings') = Len(moneyBookings)
      /\ \A c \in 1 .. Len(moneyBookings) : moneyBookings'[c] = IF c = b THEN x ELSE moneyBookings[c]
  BY ExceptSeq
<1>2. \A c \in 1 .. Len(moneyBookings) : moneyBookings'[c].total = moneyBookings[c].total
  BY <1>1
<1> QED
  BY <1>1, <1>2 DEF PaymentsFit, PaymentFits

LEMMA MoneyBook ==
  ASSUME NEW w \in BOOLEAN, NEW d \in BOOLEAN, MoneyInv(w, d), NEW g, NEW platform \in BOOLEAN, Money(w, d)!Book(g, platform)
  PROVE  MoneyInv(w, d)'
<1> DEFINE price == Money(w, d)!calculatePrice(g)
           x == [status |-> "PENDING", total |-> price, platform |-> platform, hours |-> HoursOf(w)]
<1>t. MoneyTypes(w, d)
  BY DEF MoneyInv
<1>1. moneyService.base \in Nat /\ moneyService.tiers.kind # "array"
  BY <1>t, MoneyConstants DEF MoneyTypes
<1>2. price \in Nat
  <2>1. moneyService.base * BookedMinutes \in Nat
    BY <1>1, MoneyConstants, Product
  <2>2. Money(w, d)!HalfUp(moneyService.base * BookedMinutes, 60) \in Nat
    BY <2>1, Halved
  <2>3. Money(w, d)!parseTierConfig(moneyService.tiers) = <<>>
    BY <1>1 DEF Money!parseTierConfig
  <2> QED
    BY <1>1, <2>2, <2>3 DEF Money!calculatePrice
<1>3. moneyBookings' = Append(moneyBookings, x) /\ UNCHANGED <<moneyService, moneyPayments, moneyRefused>>
  BY DEF Money!Book, HoursOf
<1>4. x \in MoneyBooking(w)
  <2> HIDE DEF price
  <2>1. HoursOf(w) \in Nat
    BY MoneyConstants DEF HoursOf
  <2> QED
    BY <1>2, <2>1 DEF MoneyBooking
<1> HIDE DEF x
<1>5. /\ moneyBookings' \in Seq(MoneyBooking(w)) /\ Len(moneyBookings') = Len(moneyBookings) + 1 /\ Len(moneyBookings) \in Nat
      /\ \A c \in 1 .. Len(moneyBookings) : moneyBookings'[c] = moneyBookings[c]
  BY <1>t, <1>3, <1>4, AppendProperties, LenProperties DEF MoneyTypes
<1>6. MoneyTypes(w, d)'
  BY <1>t, <1>3, <1>5 DEF MoneyTypes, Money!Accepted
<1>7. PaymentsFit(moneyPayments, moneyBookings')
  BY <1>5 DEF MoneyInv, PaymentsFit, PaymentFits
<1> QED
  BY <1>3, <1>6, <1>7 DEF MoneyInv

LEMMA MoneyCharge ==
  ASSUME NEW w \in BOOLEAN, NEW d \in BOOLEAN, MoneyInv(w, d), NEW b \in DOMAIN moneyBookings, Money(w, d)!processPaymentIntent(b)
  PROVE  MoneyInv(w, d)'
<1> DEFINE total == moneyBookings[b].total
           charge == Money(w, d)!resolvePaymentAmount(total)
           commission == Money(w, d)!calculateReferralCommission(b)
           taken == Money(w, d)!ApplicationFee(charge, commission)
           fee == Money(w, d)!HalfUp(charge * Percent(w), 100)
           x == [of |-> b, amount |-> charge, status |-> "PENDING", taken |-> taken, fee |-> fee, commission |-> commission, back |-> 0]
<1>t. MoneyTypes(w, d)
  BY DEF MoneyInv
<1>b. b \in 1 .. Len(moneyBookings) /\ moneyBookings[b] \in MoneyBooking(w)
  BY <1>t, LenProperties, ElementOfSeq DEF MoneyTypes
<1>n. total \in Nat \ {0}
  BY <1>b DEF Money!processPaymentIntent, MoneyBooking
<1>1. CASE moneyService.deposit # None /\ moneyService.deposit.amount = None
  <2>1. moneyRefused' = moneyRefused \cup {"deposit"} /\ UNCHANGED <<moneyService, moneyBookings, moneyPayments>>
    BY <1>1 DEF Money!processPaymentIntent
  <2>2. MoneyTypes(w, d)'
    BY <1>t, <2>1 DEF MoneyTypes, Money!Accepted
  <2> QED
    BY <2>1, <2>2 DEF MoneyInv
<1>2. CASE moneyService.deposit = None \/ moneyService.deposit.amount # None
  <2>1. charge \in 1 .. total
    BY <1>2, <1>n, <1>t, Charged DEF MoneyTypes
  <2>2. commission \in Nat
    <3>1. Money(w, d)!Least(Money(w, d)!HalfUp(total * ReferralPercent, 100), ReferralCap) \in Nat
      BY <1>n, CommissionIsNumber
    <3> QED
      BY <3>1 DEF Money!calculateReferralCommission
  <2>3. moneyPayments' = Append(moneyPayments, x) /\ UNCHANGED <<moneyService, moneyBookings, moneyRefused>>
    BY <1>2 DEF Money!processPaymentIntent, Percent
  <2>4. taken \in Nat /\ fee \in Nat
    <3> HIDE DEF charge, commission
    <3>1. charge \in Nat \ {0}
      BY <1>n, <2>1
    <3> QED
      BY <2>2, <3>1, Feed
  <2> HIDE DEF charge, commission, taken, fee
  <2>5. x \in MoneyPayment /\ PaymentFits(x, moneyBookings)
    <3>1. charge \in Nat \ {0} /\ charge <= total /\ b \in Nat
      BY <1>b, <1>n, <2>1
    <3>2. x \in MoneyPayment
      BY <2>2, <2>4, <3>1 DEF MoneyPayment
    <3> QED
      BY <1>b, <3>1, <3>2 DEF PaymentFits
  <2> HIDE DEF x
  <2>6. /\ moneyPayments' \in Seq(MoneyPayment) /\ Len(moneyPayments') = Len(moneyPayments) + 1 /\ Len(moneyPayments) \in Nat
        /\ \A i \in 1 .. Len(moneyPayments) : moneyPayments'[i] = moneyPayments[i]
        /\ moneyPayments'[Len(moneyPayments) + 1] = x
    BY <1>t, <2>3, <2>5, AppendProperties, LenProperties DEF MoneyTypes
  <2>7. MoneyTypes(w, d)'
    BY <1>t, <2>3, <2>6 DEF MoneyTypes, Money!Accepted
  <2>8. PaymentsFit(moneyPayments', moneyBookings)
    <3>1. ASSUME NEW i \in 1 .. Len(moneyPayments') PROVE PaymentFits(moneyPayments'[i], moneyBookings)
      <4>1. i \in 1 .. Len(moneyPayments) \/ i = Len(moneyPayments) + 1
        BY <2>6, <3>1
      <4> QED
        BY <2>5, <2>6, <4>1 DEF MoneyInv, PaymentsFit
    <3> QED
      BY <3>1 DEF PaymentsFit
  <2> QED
    BY <2>3, <2>7, <2>8 DEF MoneyInv
<1> QED
  BY <1>1, <1>2

LEMMA MoneyCancel ==
  ASSUME NEW w \in BOOLEAN, NEW d \in BOOLEAN, MoneyInv(w, d), NEW b \in DOMAIN moneyBookings, Money(w, d)!cancel(b)
  PROVE  MoneyInv(w, d)'
<1> DEFINE x == [moneyBookings[b] EXCEPT !.status = "CANCELLED"]
<1>t. MoneyTypes(w, d)
  BY DEF MoneyInv
<1>b. b \in 1 .. Len(moneyBookings) /\ moneyBookings[b] \in MoneyBooking(w)
  BY <1>t, LenProperties, ElementOfSeq DEF MoneyTypes
<1>1. x \in MoneyBooking(w) /\ x.total = moneyBookings[b].total
  BY <1>b DEF MoneyBooking
<1>2. moneyBookings' = [moneyBookings EXCEPT ![b] = x] /\ UNCHANGED <<moneyService, moneyRefused>>
  BY DEF Money!cancel
<1> HIDE DEF x
<1>3. moneyBookings' \in Seq(MoneyBooking(w)) /\ PaymentsFit(moneyPayments, moneyBookings')
  BY <1>t, <1>b, <1>1, <1>2, BookingChanges DEF MoneyInv, MoneyTypes
<1>4. CASE UNCHANGED moneyPayments
  <2>1. MoneyTypes(w, d)'
    BY <1>t, <1>2, <1>3, <1>4 DEF MoneyTypes, Money!Accepted
  <2> QED
    BY <1>3, <1>4, <2>1 DEF MoneyInv
<1>5. CASE Money(w, d)!Paid(b) # {}
  <2> DEFINE S == Money(w, d)!Paid(b)
             p == CHOOSE p \in S : \A q \in S : q <= p
             refund == Money(w, d)!evaluateCancellationPolicy(moneyService.policy, moneyBookings[b].hours, moneyPayments[p].amount).refund
             status == IF refund >= moneyPayments[p].amount THEN "REFUNDED" ELSE "PARTIALLY_REFUNDED"
             y == [moneyPayments[p] EXCEPT !.back = @ + refund, !.status = status]
  <2>1. S \in SUBSET (1 .. Len(moneyPayments)) /\ Len(moneyPayments) \in Nat
    BY <1>t, LenProperties DEF MoneyTypes, Money!Paid
  <2>2. p \in S
    <3> HIDE DEF S
    <3> QED
      BY <1>5, <2>1, NewestIs DEF S
  <2>3. moneyPayments' = IF refund = 0 THEN moneyPayments ELSE [moneyPayments EXCEPT ![p] = y]
    <3>1. moneyPayments' = IF refund = 0 THEN moneyPayments
                           ELSE [moneyPayments EXCEPT ![p].back = @ + refund, ![p].status =
                                   IF refund >= moneyPayments[p].amount THEN "REFUNDED" ELSE "PARTIALLY_REFUNDED"]
      BY <1>5, Zenon DEF Money!cancel
    <3>2. p \in DOMAIN moneyPayments
      BY <2>2 DEF Money!Paid
    <3> HIDE DEF refund, p
    <3> QED
      BY <3>1, <3>2
  <2>4. p \in 1 .. Len(moneyPayments) /\ moneyPayments[p].status = "SUCCEEDED"
    BY <2>1, <2>2 DEF Money!Paid
  <2> HIDE DEF p
  <2>5. moneyPayments[p] \in MoneyPayment /\ PaymentFits(moneyPayments[p], moneyBookings') /\ moneyPayments[p].back = 0
    BY <1>t, <1>3, <2>4, ElementOfSeq DEF MoneyTypes, PaymentsFit, PaymentFits
  <2>6. refund \in 0 .. moneyPayments[p].amount
    <3>1. Usable(moneyService.policy)
      BY <1>t, MoneyConstants DEF MoneyTypes
    <3>2. moneyPayments[p].amount \in Nat \ {0} /\ moneyBookings[b].hours \in Nat
      BY <1>b, <2>5, MoneyConstants DEF MoneyPayment, MoneyBooking, HoursOf
    <3> QED
      BY <3>1, <3>2, Refunded
  <2> HIDE DEF refund
  <2>7. y \in MoneyPayment /\ PaymentFits(y, moneyBookings')
    <3>0. status \in {"REFUNDED", "PARTIALLY_REFUNDED"}
      OBVIOUS
    <3> HIDE DEF status
    <3>1. moneyPayments[p].back + refund \in Nat /\ moneyPayments[p].back + refund = refund
      BY <2>5, <2>6 DEF MoneyPayment
    <3>2. /\ y \in MoneyPayment
          /\ y.of = moneyPayments[p].of /\ y.amount = moneyPayments[p].amount /\ y.back = refund /\ y.status = status
      BY <2>5, <3>0, <3>1 DEF MoneyPayment
    <3> QED
      BY <2>5, <2>6, <3>0, <3>2 DEF PaymentFits, MoneyPayment
  <2> HIDE DEF y
  <2>8. CASE refund # 0
    <3>1. /\ moneyPayments' \in Seq(MoneyPayment) /\ Len(moneyPayments') = Len(moneyPayments)
          /\ \A i \in 1 .. Len(moneyPayments) : moneyPayments'[i] = IF i = p THEN y ELSE moneyPayments[i]
      BY <1>t, <2>3, <2>4, <2>7, <2>8, ExceptSeq DEF MoneyTypes
    <3>2. PaymentsFit(moneyPayments', moneyBookings')
      BY <1>3, <2>7, <3>1 DEF PaymentsFit
    <3>3. MoneyTypes(w, d)'
      BY <1>t, <1>2, <1>3, <3>1 DEF MoneyTypes, Money!Accepted
    <3> QED
      BY <3>2, <3>3 DEF MoneyInv
  <2> QED
    BY <1>4, <2>3, <2>8
<1> QED
  BY <1>4, <1>5 DEF Money!cancel

LEMMA MoneyStep == ASSUME NEW w \in BOOLEAN, NEW d \in BOOLEAN, MoneyInv(w, d), [Money(w, d)!Next]_moneyVars PROVE MoneyInv(w, d)'
<1>t. MoneyTypes(w, d)
  BY DEF MoneyInv
<1>a. PaymentsFit(moneyPayments, moneyBookings)
  BY DEF MoneyInv
<1>1. CASE UNCHANGED moneyVars
  BY <1>1 DEF moneyVars, MoneyInv, MoneyTypes, Money!Accepted
<1>2. ASSUME NEW f \in Saved(w, d), Money(w, d)!Save(f) PROVE MoneyInv(w, d)'
  <2>1. /\ moneyService' = IF Money(w, d)!Accepted(f) THEN f ELSE moneyService
        /\ moneyRefused' \subseteq moneyRefused \cup {"tiers", "policy"} /\ UNCHANGED <<moneyBookings, moneyPayments>>
    BY <1>2 DEF Money!Save
  <2>2. moneyService' \in Saved(w, d) /\ Money(w, d)!Accepted(moneyService')
    BY <1>t, <2>1 DEF MoneyTypes
  <2>3. Money(w, d)!Accepted(moneyService)'
    BY <2>2 DEF Money!Accepted
  <2>4. MoneyTypes(w, d)'
    BY <1>t, <2>1, <2>2, <2>3 DEF MoneyTypes
  <2> QED
    BY <1>a, <2>1, <2>4 DEF MoneyInv
<1>3. ASSUME NEW g, NEW platform \in BOOLEAN, Money(w, d)!Book(g, platform) PROVE MoneyInv(w, d)'
  BY <1>3, MoneyBook
<1>4. ASSUME NEW b \in DOMAIN moneyBookings, Money(w, d)!processPaymentIntent(b) PROVE MoneyInv(w, d)'
  BY <1>4, MoneyCharge
<1>5. ASSUME NEW b \in DOMAIN moneyBookings, Money(w, d)!cancel(b) PROVE MoneyInv(w, d)'
  BY <1>5, MoneyCancel
<1>6. ASSUME NEW b \in DOMAIN moneyBookings, Money(w, d)!Tick(b) PROVE MoneyInv(w, d)'
  <2> DEFINE x == [moneyBookings[b] EXCEPT !.hours = @ - 1]
  <2>b. b \in 1 .. Len(moneyBookings) /\ moneyBookings[b] \in MoneyBooking(w)
    BY <1>t, LenProperties, ElementOfSeq DEF MoneyTypes
  <2>1. moneyBookings' = [moneyBookings EXCEPT ![b] = x] /\ UNCHANGED <<moneyService, moneyPayments, moneyRefused>>
    BY <1>6 DEF Money!Tick
  <2>2. x \in MoneyBooking(w) /\ x.total = moneyBookings[b].total
    <3>1. moneyBookings[b].hours - 1 \in 0 .. HoursOf(w)
      BY <1>6, <2>b, MoneyConstants DEF Money!Tick, MoneyBooking, HoursOf
    <3> QED
      BY <2>b, <3>1 DEF MoneyBooking
  <2> HIDE DEF x
  <2>3. moneyBookings' \in Seq(MoneyBooking(w)) /\ PaymentsFit(moneyPayments, moneyBookings')
    BY <1>a, <1>t, <2>b, <2>1, <2>2, BookingChanges DEF MoneyTypes
  <2>4. MoneyTypes(w, d)'
    BY <1>t, <2>1, <2>3 DEF MoneyTypes, Money!Accepted
  <2> QED
    BY <2>1, <2>3, <2>4 DEF MoneyInv
<1>7. ASSUME NEW p \in DOMAIN moneyPayments, Money(w, d)!Succeed(p) PROVE MoneyInv(w, d)'
  <2> DEFINE b == moneyPayments[p].of
             x == [moneyBookings[b] EXCEPT !.status = "CONFIRMED"]
             y == [moneyPayments[p] EXCEPT !.status = "SUCCEEDED"]
  <2>p. p \in 1 .. Len(moneyPayments) /\ moneyPayments[p] \in MoneyPayment
    BY <1>t, LenProperties, ElementOfSeq DEF MoneyTypes
  <2>b. b \in 1 .. Len(moneyBookings) /\ moneyBookings[b] \in MoneyBooking(w)
    BY <1>a, <1>t, <2>p, ElementOfSeq DEF MoneyTypes, PaymentsFit, PaymentFits
  <2>1. /\ moneyPayments[p].status = "PENDING" /\ moneyPayments' = [moneyPayments EXCEPT ![p] = y]
        /\ moneyBookings' = [moneyBookings EXCEPT ![b] = x] /\ UNCHANGED <<moneyService, moneyRefused>>
    BY <1>7 DEF Money!Succeed
  <2>2. x \in MoneyBooking(w) /\ x.total = moneyBookings[b].total
    BY <2>b DEF MoneyBooking
  <2>3. /\ y \in MoneyPayment /\ y.of = moneyPayments[p].of /\ y.amount = moneyPayments[p].amount
        /\ y.back = moneyPayments[p].back
    BY <2>p DEF MoneyPayment
  <2> HIDE DEF x, y, b
  <2>4. moneyBookings' \in Seq(MoneyBooking(w)) /\ PaymentsFit(moneyPayments, moneyBookings')
    BY <1>a, <1>t, <2>b, <2>1, <2>2, BookingChanges DEF MoneyTypes
  <2>5. PaymentFits(y, moneyBookings')
    BY <2>p, <2>1, <2>3, <2>4 DEF PaymentsFit, PaymentFits
  <2>6. /\ moneyPayments' \in Seq(MoneyPayment) /\ Len(moneyPayments') = Len(moneyPayments)
        /\ \A i \in 1 .. Len(moneyPayments) : moneyPayments'[i] = IF i = p THEN y ELSE moneyPayments[i]
    BY <1>t, <2>p, <2>1, <2>3, ExceptSeq DEF MoneyTypes
  <2>7. PaymentsFit(moneyPayments', moneyBookings')
    BY <2>4, <2>5, <2>6 DEF PaymentsFit
  <2>8. MoneyTypes(w, d)'
    BY <1>t, <2>1, <2>4, <2>6 DEF MoneyTypes, Money!Accepted
  <2> QED
    BY <2>7, <2>8 DEF MoneyInv
<1> QED
  BY <1>1, <1>2, <1>3, <1>4, <1>5, <1>6, <1>7 DEF Money!Next, Saved

-----------------------------------------------------------------------------
LEMMA MoneyHolds ==
  ASSUME NEW w \in BOOLEAN, NEW d \in BOOLEAN, MoneyInv(w, d)
  PROVE  /\ Money(w, d)!RefundWithin /\ Money(w, d)!ChargeWithinTotal
         /\ Money(w, d)!RefundFalls /\ Money(w, d)!PayoutPositive
<1>t. MoneyTypes(w, d)
  BY DEF MoneyInv
<1>p. ASSUME NEW p \in DOMAIN moneyPayments
      PROVE  moneyPayments[p] \in MoneyPayment /\ PaymentFits(moneyPayments[p], moneyBookings)
  BY <1>t, LenProperties, ElementOfSeq DEF MoneyTypes, MoneyInv, PaymentsFit
<1>b. ASSUME NEW b \in DOMAIN moneyBookings PROVE moneyBookings[b] \in MoneyBooking(w)
  BY <1>t, LenProperties, ElementOfSeq DEF MoneyTypes
<1>1. Money(w, d)!RefundWithin
  <2>1. ASSUME NEW p \in DOMAIN moneyPayments PROVE moneyPayments[p].back \in 0 .. moneyPayments[p].amount
    BY <1>p DEF MoneyPayment, PaymentFits
  <2> QED
    BY <2>1 DEF Money!RefundWithin
<1>2. Money(w, d)!ChargeWithinTotal
  BY <1>p DEF Money!ChargeWithinTotal, PaymentFits
<1>3. Money(w, d)!RefundFalls
  <2> SUFFICES ASSUME NEW p \in DOMAIN moneyPayments, NEW early \in 0 .. HoursOf(w), NEW late \in 0 .. HoursOf(w), late <= early
               PROVE  Money(w, d)!evaluateCancellationPolicy(moneyService.policy, late, moneyPayments[p].amount).refund
                        <= Money(w, d)!evaluateCancellationPolicy(moneyService.policy, early, moneyPayments[p].amount).refund
    BY Zenon DEF Money!RefundFalls, HoursOf
  <2>1. Usable(moneyService.policy)
    BY <1>t, MoneyConstants DEF MoneyTypes
  <2>2. moneyPayments[p].amount \in Nat \ {0} /\ early \in Nat /\ late \in Nat
    BY <1>p, MoneyConstants DEF MoneyPayment, HoursOf
  <2> QED
    BY <2>1, <2>2, Refunded
<1>4. Money(w, d)!PayoutPositive
  <2> DEFINE most(b) == Money(w, d)!Least(Money(w, d)!HalfUp(moneyBookings[b].total * ReferralPercent, 100), ReferralCap)
  <2>1. ASSUME NEW b \in DOMAIN moneyBookings, moneyBookings[b].total > 0, NEW commission \in {0, most(b)},
               moneyService.deposit = None \/ moneyService.deposit.amount # None
        PROVE  Money(w, d)!ApplicationFee(Money(w, d)!resolvePaymentAmount(moneyBookings[b].total), commission)
                 < Money(w, d)!resolvePaymentAmount(moneyBookings[b].total)
    <3>1. moneyBookings[b].total \in Nat \ {0}
      BY <1>b, <2>1 DEF MoneyBooking
    <3>2. commission \in Nat
      <4>1. most(b) \in Nat
        BY <3>1, CommissionIsNumber
      <4> QED
        BY <2>1, <4>1
    <3>3. Money(w, d)!resolvePaymentAmount(moneyBookings[b].total) \in 1 .. moneyBookings[b].total
      BY <1>t, <2>1, <3>1, Charged DEF MoneyTypes
    <3>4. Money(w, d)!resolvePaymentAmount(moneyBookings[b].total) \in Nat \ {0}
      BY <3>1, <3>3
    <3> QED
      BY <3>2, <3>4, Feed
  <2> QED
    BY <2>1, Zenon DEF Money!PayoutPositive
<1> QED
  BY <1>1, <1>2, <1>3, <1>4

LEMMA MoneyTurns ==
  ASSUME [Next]_vars
  PROVE  /\ UNCHANGED under
         /\ under = "money" => [Money(FALSE, FALSE)!Next]_moneyVars
         /\ under = "money, as documented" => [Money(FALSE, TRUE)!Next]_moneyVars
         /\ under = "money, every form" => [Money(TRUE, FALSE)!Next]_moneyVars
BY DEF Next, Turn, vars, NotInvoice, NotQuote, NotContract, NotDiscount, NotMoney, NotTeam, NotInvite, NotSession

MoneyFits ==
  /\ under = "money" => MoneyInv(FALSE, FALSE)
  /\ under = "money, as documented" => MoneyInv(FALSE, TRUE)
  /\ under = "money, every form" => MoneyInv(TRUE, FALSE)

(* Whatever staff enter and whenever the client pays or cancels, a payment *)
(* is at most the booking, what is returned is within the payment, later   *)
(* cancellations return no more, and a charge leaves the business          *)
(* something.                                                              *)
THEOREM MoneyAddsUpAlways == Spec => []MoneyAddsUp
<1>1. Init => MoneyFits
  <2> SUFFICES ASSUME Init PROVE MoneyFits
    OBVIOUS
  <2>1. ASSUME under = "money" PROVE MoneyInv(FALSE, FALSE)
    <3>1. Money(FALSE, FALSE)!Init
      BY <2>1 DEF Init
    <3> QED
      BY <3>1, MoneyInit
  <2>2. ASSUME under = "money, as documented" PROVE MoneyInv(FALSE, TRUE)
    <3>1. Money(FALSE, TRUE)!Init
      BY <2>2 DEF Init
    <3> QED
      BY <3>1, MoneyInit
  <2>3. ASSUME under = "money, every form" PROVE MoneyInv(TRUE, FALSE)
    <3>1. Money(TRUE, FALSE)!Init
      BY <2>3 DEF Init
    <3> QED
      BY <3>1, MoneyInit
  <2> QED
    BY <2>1, <2>2, <2>3 DEF MoneyFits
<1>2. MoneyFits /\ [Next]_vars => MoneyFits'
  BY MoneyTurns, MoneyStep DEF MoneyFits
<1>3. MoneyFits => MoneyAddsUp
  BY MoneyTypeOK, MoneyHolds DEF MoneyFits, MoneyAddsUp
<1> QED
  BY <1>1, <1>2, <1>3, PTL DEF Spec
=============================================================================
