--------------------------- MODULE SessionRefresh ---------------------------
(***************************************************************************)
(* One browser's session: three cookies, the requests that use them, and    *)
(* the exchange of the refresh token for a new pair when the access token   *)
(* has expired.                                                            *)
(*                                                                         *)
(* Every request that is answered 401 asks for an exchange of its own, with *)
(* the refresh cookie as it is when the exchange is sent.  The server looks *)
(* the token up in the blacklist, puts it there, and signs a new pair.  An  *)
(* answer may come late, or not at all.                                     *)
(***************************************************************************)
EXTENDS Naturals, FiniteSets

CONSTANTS
  Requests,     \* requests of the browser's tabs that can be under way at once
  MaxPairs,     \* bound: pairs of tokens signed
  MaxExpiries,  \* bound: how often access tokens expire
  Losses        \* whether answers are lost and the server dies

SessionRefreshAssumption ==
  /\ IsFiniteSet(Requests) /\ {MaxPairs, MaxExpiries} \subseteq Nat \ {0} /\ Losses \in BOOLEAN

VARIABLES
  jar,        \* the cookies: [access, refresh, session]; a pair's number, 0: none
  alive,      \* access tokens that are neither expired nor blacklisted
  used,       \* refresh tokens that are blacklisted
  pairs,      \* how many pairs have been signed
  expiries,   \* how often access tokens have expired
  page,       \* what the browser shows: "app" or "login"
  req,        \* per request: [at, token], token: the refresh token it sent,
              \* then the pair it was answered with
  lost        \* history: whether an answer has been lost

server == <<alive, used, pairs>>
vars   == <<jar, server, expiries, page, req, lost>>

Pairs == 1 .. MaxPairs
Idle  == [at |-> "idle", token |-> 0]
NoJar == [access |-> 0, refresh |-> 0, session |-> FALSE]

TypeOK ==
  /\ jar \in [access: 0 .. MaxPairs, refresh: 0 .. MaxPairs, session: BOOLEAN]
  /\ alive \subseteq Pairs /\ used \subseteq Pairs /\ pairs \in 0 .. MaxPairs
  /\ expiries \in 0 .. MaxExpiries /\ page \in {"app", "login"} /\ lost \in BOOLEAN
  /\ req \in [Requests ->
       [at: {"idle", "unauthorized", "check", "issue", "answer", "refused", "retry"},
        token: 0 .. MaxPairs]]

Init ==
  /\ jar = NoJar /\ alive = {} /\ used = {} /\ pairs = 0 /\ expiries = 0
  /\ page = "login" /\ req = [r \in Requests |-> Idle] /\ lost = FALSE

-----------------------------------------------------------------------------
(* generateTokens, and setAuthCookies when the answer comes.                *)
Sign == pairs < MaxPairs /\ pairs' = pairs + 1 /\ alive' = alive \cup {pairs + 1}
Jar(n) == [access |-> n, refresh |-> n, session |-> TRUE]

Login ==
  /\ page = "login" /\ Sign
  /\ jar' = Jar(pairs + 1) /\ page' = "app"
  /\ UNCHANGED <<used, expiries, req, lost>>

(* The access token is blacklisted and the cookies cleared, whatever the     *)
(* other requests are doing.                                                 *)
Logout ==
  /\ page = "app" /\ jar.access \in alive
  /\ alive' = alive \ {jar.access} /\ jar' = NoJar /\ page' = "login"
  /\ UNCHANGED <<used, pairs, expiries, req, lost>>

(* The middleware looks at the session cookie and at nothing else.           *)
Navigate ==
  /\ page = "app" /\ ~jar.session
  /\ page' = "login"
  /\ UNCHANGED <<jar, server, expiries, req, lost>>

AccessExpires ==
  /\ alive # {} /\ expiries < MaxExpiries
  /\ alive' = {} /\ expiries' = expiries + 1
  /\ UNCHANGED <<jar, used, pairs, page, req, lost>>

-----------------------------------------------------------------------------
(* ApiClient.request, tryRefresh and AuthService.refreshTokens.             *)

Goto(r, p, t) == req' = [req EXCEPT ![r] = [at |-> p, token |-> t]]
ClearSession  == jar' = [jar EXCEPT !.session = FALSE]

(* A request answered 2xx is over at once.                                   *)
Send(r) ==
  /\ page = "app" /\ req[r].at = "idle" /\ jar.access \notin alive
  /\ Goto(r, "unauthorized", 0)
  /\ UNCHANGED <<jar, server, expiries, page, lost>>

SendRefresh(r) ==
  /\ req[r].at = "unauthorized" /\ jar.refresh # 0
  /\ Goto(r, "check", jar.refresh)
  /\ UNCHANGED <<jar, server, expiries, page, lost>>

(* Without the cookie the server answers 400.                                *)
NoToken(r) ==
  /\ req[r].at = "unauthorized" /\ jar.refresh = 0
  /\ Goto(r, "refused", 0)
  /\ UNCHANGED <<jar, server, expiries, page, lost>>

Check(r) ==
  /\ req[r].at = "check"
  /\ Goto(r, IF req[r].token \in used THEN "refused" ELSE "issue", req[r].token)
  /\ UNCHANGED <<jar, server, expiries, page, lost>>

Issue(r) ==
  /\ req[r].at = "issue" /\ Sign
  /\ used' = used \cup {req[r].token}
  /\ Goto(r, "answer", pairs + 1)
  /\ UNCHANGED <<jar, expiries, page, lost>>

(* Broken: the session cookie is left as the last refusal left it.           *)
AnswerClears(r) ==
  /\ req[r].at = "answer"
  /\ jar' = [Jar(req[r].token) EXCEPT !.session = FALSE] /\ Goto(r, "retry", 0)
  /\ UNCHANGED <<server, expiries, page, lost>>

Answer(r) ==
  /\ req[r].at = "answer"
  /\ jar' = Jar(req[r].token) /\ Goto(r, "retry", 0)
  /\ UNCHANGED <<server, expiries, page, lost>>

(* Not ok: the session cookie is cleared, and the request throws its 401.    *)
Refused(r) ==
  /\ req[r].at = "refused"
  /\ ClearSession /\ Goto(r, "idle", 0)
  /\ UNCHANGED <<server, expiries, page, lost>>

(* The server dies between blacklisting and signing, or an answer is lost.   *)
Lost(r) ==
  /\ Losses /\ req[r].at \in {"check", "issue", "answer", "refused"}
  /\ used' = IF req[r].at = "issue" THEN used \cup {req[r].token} ELSE used
  /\ ClearSession /\ Goto(r, "idle", 0) /\ lost' = TRUE
  /\ UNCHANGED <<alive, pairs, expiries, page>>

Retry(r) ==
  /\ req[r].at = "retry"
  /\ Goto(r, "idle", 0)
  /\ UNCHANGED <<jar, server, expiries, page, lost>>

Request(r) ==
  \/ Send(r) \/ SendRefresh(r) \/ NoToken(r) \/ Check(r) \/ Issue(r)
  \/ Answer(r) \/ Refused(r) \/ Retry(r)

Next == \/ Login \/ Logout \/ Navigate \/ AccessExpires
        \/ \E r \in Requests : Request(r) \/ Lost(r)

Spec == Init /\ [][Next]_vars /\ \A r \in Requests : WF_vars(Request(r))

-----------------------------------------------------------------------------
Quiet == \A r \in Requests : req[r].at = "idle"

(* However many exchanges run at once and in whatever order their answers    *)
(* come, if none is lost the refresh cookie they leave can be exchanged.     *)
JarIsUsable == Quiet /\ ~lost => jar.refresh \notin used

(* "... cookies to keep you signed in" (the privacy page): who has a refresh  *)
(* token that can be exchanged is not sent to the login page.                *)
StaysSignedIn == page = "login" => jar.refresh = 0 \/ jar.refresh \in used
=============================================================================
