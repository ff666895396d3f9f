-------------------------- MODULE ContractSigning --------------------------
(***************************************************************************)
(* One contract, its signatures and the template it was made from.          *)
(*                                                                         *)
(* Staff sign through the dashboard: row lock, signature, the template's     *)
(* requirements and the status in one transaction.  The client signs in the  *)
(* portal: the same in separate statements, and without the requirements.    *)
(* Sending, voiding and amending read the status and write it later.         *)
(***************************************************************************)
EXTENDS Naturals, FiniteSets

CONSTANTS
  Requests,         \* requests that can be under way at once
  Requirements,     \* signature requirements a template can have: [CLIENT, COMPANY_REP] counts
  MaxSignatures,    \* bound: signatures
  PortalAtOnce,     \* how many portal requests of the client there are at once
  TemplateChanges   \* whether the template is edited

ContractSigningAssumption ==
  /\ IsFiniteSet(Requests) /\ Requirements # {} /\ {MaxSignatures, PortalAtOnce} \subseteq Nat
  /\ Requirements \subseteq [CLIENT: Nat, COMPANY_REP: Nat] /\ TemplateChanges \in BOOLEAN

VARIABLES
  status,      \* contract.status
  signatures,  \* how many signatures there are, by role
  required,    \* signatureRequirements of the template
  own,         \* how many of them the client has made in the portal
  req          \* per request: [at, op]

vars == <<status, signatures, required, own, req>>

Roles    == {"CLIENT", "COMPANY_REP"}
Statuses == {"DRAFT", "SENT", "PARTIALLY_SIGNED", "SIGNED", "VOID", "AMENDED"}
Ops      == {"send", "sign", "void", "amend"}
Idle     == [at |-> "idle", op |-> "none"]

TypeOK ==
  /\ status \in Statuses /\ required \in Requirements
  /\ own \in 0 .. MaxSignatures
  /\ signatures \in [Roles -> 0 .. MaxSignatures]
  /\ req \in [Requests -> [at: {"idle", "write", "close"}, op: Ops \cup {"none"}]]

(* createContract.                                                           *)
Init ==
  /\ status = "DRAFT" /\ signatures = [r \in Roles |-> 0] /\ required \in Requirements
  /\ own = 0 /\ req = [r \in Requests |-> Idle]

-----------------------------------------------------------------------------
Goto(r, at, op) == req' = [req EXCEPT ![r] = [at |-> at, op |-> op]]
Signable     == status \in {"SENT", "PARTIALLY_SIGNED"}
Total        == signatures["CLIENT"] + signatures["COMPANY_REP"]
AtPortal     == Cardinality({r \in Requests : req[r].op = "sign"}) < PortalAtOnce
UnderWay     == Cardinality({r \in Requests : req[r] = [at |-> "write", op |-> "sign"]})
Meets(sigs)  == \A r \in Roles : sigs[r] >= required[r]
Sign(role)   == signatures' = [signatures EXCEPT ![role] = @ + 1]

(* Broken: any requirement that is met completes the contract.               *)
signContractAny(role) ==
  /\ Signable /\ Total + UnderWay < MaxSignatures
  /\ Sign(role)
  /\ status' = IF \E r \in Roles : signatures'[r] >= required[r] THEN "SIGNED" ELSE "PARTIALLY_SIGNED"
  /\ UNCHANGED <<required, own, req>>

signContract(role) ==
  /\ Signable /\ Total + UnderWay < MaxSignatures
  /\ Sign(role)
  /\ status' = IF Meets(signatures') THEN "SIGNED" ELSE "PARTIALLY_SIGNED"
  /\ UNCHANGED <<required, own, req>>

(* updateTemplate: the contracts made from it see the new requirements.      *)
updateTemplate ==
  /\ TemplateChanges
  /\ required' \in Requirements \ {required}
  /\ UNCHANGED <<status, signatures, own, req>>

-----------------------------------------------------------------------------
(* The first statement of a handler: the status is read and checked.         *)
Check(r) ==
  /\ req[r].at = "idle"
  /\ \/ status = "DRAFT" /\ Goto(r, "write", "send")
     \/ status # "VOID" /\ Goto(r, "write", "void")
     \/ status = "SIGNED" /\ Goto(r, "write", "amend")
     \/ /\ AtPortal /\ Signable /\ own = 0 /\ Total + UnderWay < MaxSignatures
        /\ Goto(r, "write", "sign")
  /\ UNCHANGED <<status, signatures, required, own>>

WriteStatus(r) ==
  /\ req[r].at = "write" /\ req[r].op # "sign"
  /\ status' = CASE req[r].op = "send" -> "SENT" [] req[r].op = "void" -> "VOID"
                 [] OTHER -> "AMENDED"
  /\ Goto(r, "idle", "none")
  /\ UNCHANGED <<signatures, required, own>>

(* The portal's signContract: the signature, then all of them, then the      *)
(* status.  A signature is never unsigned, so all of them are signed.        *)
PortalSign(r) ==
  /\ req[r].at = "write" /\ req[r].op = "sign"
  /\ Sign("CLIENT") /\ own' = own + 1 /\ Goto(r, "close", "sign")
  /\ UNCHANGED <<status, required>>

PortalClose(r) ==
  /\ req[r].at = "close"
  /\ status' = "SIGNED" /\ Goto(r, "idle", "none")
  /\ UNCHANGED <<signatures, required, own>>

Request(r) == Check(r) \/ WriteStatus(r) \/ PortalSign(r) \/ PortalClose(r)
Next == \/ \E role \in Roles : signContract(role)
        \/ updateTemplate
        \/ \E r \in Requests : Request(r)
Spec == Init /\ [][Next]_vars

-----------------------------------------------------------------------------
(* A contract that is signed, or was and is being amended, has the signatures *)
(* its template requires.                                                    *)
SignedMeetsRequirements == status \in {"SIGNED", "AMENDED"} => Meets(signatures)

(* As long as everybody signs through the dashboard and the template stays,   *)
(* and however sending, voiding and amending interleave with it, a contract  *)
(* waits for signatures only while one is missing.                           *)
WaitsForMissing == status = "PARTIALLY_SIGNED" => ~Meets(signatures)

(* "You have already signed this contract": the client signs once.           *)
ClientSignsOnce == own <= 1

(* "Contract already voided": a void contract stays void.                    *)
VoidStays == [][status = "VOID" => status' = "VOID"]_status
=============================================================================
