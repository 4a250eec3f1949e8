-------------------------------- MODULE Accounts --------------------------------
(***************************************************************************)
(* The owner's account and its sessions: auth.rs and auth_repository.rs,   *)
(* with the start-up of the API process that configures the account.  One  *)
(* API process runs at a time; it may be stopped or killed with requests   *)
(* in flight and be started again with other credentials.  A statement a   *)
(* request of a killed process had sent may still take effect, much later; *)
(* the COMMIT of configure_owner is taken to have landed or failed before  *)
(* the next process has connected, run the migrations and read the account.*)
(*                                                                         *)
(* Every session belongs to a browser of its own with a cookie jar.  CSRF  *)
(* tokens are random: here the n-th of a session is the number n, and 0 is *)
(* a missing cookie.                                                       *)
(***************************************************************************)
EXTENDS Naturals

CONSTANTS
  Sessions,     \* identifiers of sessions rows
  Requests,     \* HTTP requests that may be in flight at the same time
  Credentials,  \* pairs of owner name and password an operator may configure
  MaxToken,     \* bound: CSRF tokens per session
  MaxStarts,    \* bound: starts of the API
  Bootstrap, NoCredentials, NoSession, NoRequest

ASSUME AccountsAssumption ==
  /\ Bootstrap \notin Credentials /\ NoCredentials \notin Credentials
  /\ NoSession \notin Sessions
  /\ MaxToken \in Nat \ {0} /\ MaxStarts \in Nat

VARIABLES
  account,    \* users row of the owner
  api,        \* "down", "starting", "configuring", "listening" or "draining"
  configured, \* credentials in the environment of the process
  starts,
  session,    \* sessions row: "absent", "active", "expired", "revoked" or "purged"
  csrf,       \* sessions.csrf_token_hash
  openedWith, \* credentials a session was opened with, for SessionMatchesOwner
  holds,      \* the browser has the session cookie
  jar,        \* the CSRF token in the browser's cookie
  request,    \* requests in flight
  orphans     \* those of a process that is gone

accountVars == <<account, api, configured, starts>>
sessionVars == <<session, csrf, openedWith>>
browserVars == <<holds, jar>>
requestVars == <<request, orphans>>
accountsVars == <<accountVars, sessionVars, browserVars, requestVars>>

Tokens == 0..MaxToken
Request == [kind : {"login", "current", "logout"},
            step : {"sent", "create", "rotate", "revoke", "answer"},
            with : Credentials \cup {NoCredentials},
            session : Sessions \cup {NoSession},
            token : Tokens,   \* the one sent, then the one answered
            alone : BOOLEAN]  \* no other "current" request of the session at the same time

ASSUME RequestAssumption == NoRequest \notin Request

AccountsTypeOK ==
  /\ account \in Credentials \cup {Bootstrap}
  /\ api \in {"down", "starting", "configuring", "listening", "draining"}
  /\ configured \in Credentials \cup {NoCredentials}
  /\ starts \in 0..MaxStarts
  /\ session \in [Sessions -> {"absent", "active", "expired", "revoked", "purged"}]
  /\ csrf \in [Sessions -> Tokens]
  /\ openedWith \in [Sessions -> Credentials \cup {NoCredentials}]
  /\ holds \in [Sessions -> BOOLEAN]
  /\ jar \in [Sessions -> Tokens]
  /\ request \in [Requests -> Request \cup {NoRequest}]
  /\ orphans \subseteq Requests

InFlight(r) == request[r] # NoRequest
Attended(r) == InFlight(r) /\ r \notin orphans
AtStep(r, step) == InFlight(r) /\ request[r].step = step

\* <Definition>_<Slip> is the definition with one slip in it, there to check that a
\* property notices.

-----------------------------------------------------------------------------
\* The API process.

\* A process starts with the credentials c in its environment.
StartApi(c) ==
  /\ api = "down"
  /\ starts < MaxStarts
  /\ api' = "starting"
  /\ configured' = c
  /\ starts' = starts + 1
  /\ UNCHANGED <<account, sessionVars, browserVars, requestVars>>

\* initialize_owner: an account with that name and password is left as it is.
InitializeOwner ==
  /\ api = "starting"
  /\ api' = IF account = configured THEN "listening" ELSE "configuring"
  /\ UNCHANGED <<account, configured, starts, sessionVars, browserVars, requestVars>>

\* The credentials are replaced, the sessions stay.
ConfigureOwner_KeepsSessions ==
  /\ api = "configuring"
  /\ account' = configured
  /\ api' = "listening"
  /\ UNCHANGED <<configured, starts, sessionVars, browserVars, requestVars>>

\* configure_owner: one transaction replaces the credentials and revokes every
\* session.  The hash has a fresh salt, so it always differs from the former one.
ConfigureOwner ==
  /\ api = "configuring"
  /\ account' = configured
  /\ session' = [s \in Sessions |-> IF session[s] = "active" THEN "revoked" ELSE session[s]]
  /\ api' = "listening"
  /\ UNCHANGED <<configured, starts, csrf, openedWith, browserVars, requestVars>>

\* Ctrl+C: no new requests, those in flight are finished.
StopApi ==
  /\ api = "listening"
  /\ api' = "draining"
  /\ UNCHANGED <<account, configured, starts, sessionVars, browserVars, requestVars>>

ApiStops ==
  /\ api = "draining"
  /\ \A r \in Requests : ~Attended(r)
  /\ api' = "down"
  /\ configured' = NoCredentials
  /\ UNCHANGED <<account, starts, sessionVars, browserVars, requestVars>>

\* A crash, or a start-up that fails: requests vanish, save for the statements the
\* database has already received.
KillApi ==
  /\ api # "down"
  /\ api' = "down"
  /\ configured' = NoCredentials
  /\ \E received \in SUBSET {r \in Requests : Attended(r) /\ request[r].step \notin {"sent", "answer"}} :
       /\ orphans' = orphans \cup received
       /\ request' = [r \in Requests |-> IF r \in orphans \cup received THEN request[r] ELSE NoRequest]
  /\ UNCHANGED <<account, starts, sessionVars, browserVars>>

-----------------------------------------------------------------------------
\* Requests.

\* login, up to the verified password: with c the right credentials at that time.
\* Wrong ones are refused and change nothing.
BeginLogin(r, c) ==
  /\ api = "listening"
  /\ ~InFlight(r)
  /\ account = c
  /\ request' = [request EXCEPT ![r] =
       [kind |-> "login", step |-> "create", with |-> c, session |-> NoSession, token |-> 0, alone |-> TRUE]]
  /\ UNCHANGED <<accountVars, sessionVars, browserVars, orphans>>

\* The browser of s sends GET or DELETE /session with the cookies it has.
SendRequest(r, s, kind) ==
  /\ api = "listening"
  /\ ~InFlight(r)
  /\ holds[s]
  /\ LET same == {x \in Requests : InFlight(x) /\ request[x].kind = "current" /\ request[x].session = s}
     IN request' = [x \in Requests |->
          IF x = r
          THEN [kind |-> kind, step |-> "sent", with |-> NoCredentials, session |-> s,
                token |-> jar[s], alone |-> same = {}]
          ELSE IF x \in same /\ kind = "current" THEN [request[x] EXCEPT !.alone = FALSE]
          ELSE request[x]]
  /\ UNCHANGED <<accountVars, sessionVars, browserVars, orphans>>

\* The answer is on its way, or nobody is left to send it.
Reply(r, answer) ==
  request' = [request EXCEPT ![r] = IF r \in orphans THEN NoRequest ELSE answer]

Refused(r) == request' = [request EXCEPT ![r] = NoRequest]

\* The CSRF cookie the browser has is confirmed without a look at its hash.
NextStep_AnyCookie(q) ==
  IF q.kind = "logout" THEN "revoke" ELSE IF q.token # 0 THEN "answer" ELSE "rotate"

\* What follows the authentication of q: logout revokes, current_session answers with
\* the cookie if it matches the hash and rotates the token if not.
NextStep(q) ==
  IF q.kind = "logout" THEN "revoke"
  ELSE IF q.token = csrf[q.session] THEN "answer" ELSE "rotate"

\* require_auth: an active session, and for a mutation its CSRF token.
RequireAuth(r) ==
  /\ AtStep(r, "sent")
  /\ LET q == request[r]
     IN IF session[q.session] = "active" /\ (q.kind = "logout" => q.token = csrf[q.session])
        THEN request' = [request EXCEPT ![r].step = NextStep(q)]
        ELSE Refused(r)
  /\ UNCHANGED <<accountVars, sessionVars, browserVars, orphans>>

\* create_session
CreateSession(r, s) ==
  /\ AtStep(r, "create")
  /\ session[s] = "absent"
  /\ session' = [session EXCEPT ![s] = "active"]
  /\ csrf' = [csrf EXCEPT ![s] = 1]
  /\ openedWith' = [openedWith EXCEPT ![s] = request[r].with]
  /\ Reply(r, [request[r] EXCEPT !.step = "answer", !.session = s, !.token = 1])
  /\ orphans' = orphans \ {r}
  /\ UNCHANGED <<accountVars, browserVars>>

\* rotate_session_csrf: only of a session that is still active.
RotateSessionCsrf(r) ==
  /\ AtStep(r, "rotate")
  /\ LET s == request[r].session
     IN IF session[s] = "active"
        THEN /\ csrf[s] < MaxToken
             /\ csrf' = [csrf EXCEPT ![s] = @ + 1]
             /\ Reply(r, [request[r] EXCEPT !.step = "answer", !.token = csrf[s] + 1])
        ELSE Refused(r) /\ UNCHANGED csrf
  /\ orphans' = orphans \ {r}
  /\ UNCHANGED <<accountVars, session, openedWith, browserVars>>

\* revoke_session: a row is there, whatever its state.
RevokeSession(r) ==
  /\ AtStep(r, "revoke")
  /\ LET s == request[r].session
     IN IF session[s] # "purged"
        THEN /\ session' = [session EXCEPT ![s] = "revoked"]
             /\ Reply(r, [request[r] EXCEPT !.step = "answer"])
        ELSE Refused(r) /\ UNCHANGED session
  /\ orphans' = orphans \ {r}
  /\ UNCHANGED <<accountVars, csrf, openedWith, browserVars>>

\* The browser stores the cookies of the answer, or drops both after a logout.
Answer(r) ==
  /\ AtStep(r, "answer")
  /\ LET q == request[r]
     IN /\ holds' = [holds EXCEPT ![q.session] = CASE q.kind = "login" -> TRUE
                                                   [] q.kind = "logout" -> FALSE
                                                   [] OTHER -> @]
        /\ jar' = [jar EXCEPT ![q.session] = IF q.kind = "logout" THEN 0 ELSE q.token]
  /\ request' = [request EXCEPT ![r] = NoRequest]
  /\ UNCHANGED <<accountVars, sessionVars, orphans>>

\* The connection is gone before the answer arrives; the handler may still be at any
\* step, whose statement then takes effect or not.
LoseConnection(r) ==
  /\ Attended(r)
  /\ \/ request' = [request EXCEPT ![r] = NoRequest] /\ UNCHANGED orphans
     \/ /\ request[r].step \notin {"sent", "answer"}
        /\ orphans' = orphans \cup {r}
        /\ UNCHANGED request
  /\ UNCHANGED <<accountVars, sessionVars, browserVars>>

-----------------------------------------------------------------------------
\* Time passes.

ExpireSession(s) ==
  /\ session[s] = "active"
  /\ session' = [session EXCEPT ![s] = "expired"]
  /\ UNCHANGED <<accountVars, csrf, openedWith, browserVars, requestVars>>

\* purge_expired_sessions, called by the workers' maintenance: what has expired, and
\* what was revoked long enough ago.
PurgeExpiredSessions ==
  /\ \E revoked \in SUBSET {s \in Sessions : session[s] = "revoked"} :
       LET old == revoked \cup {s \in Sessions : session[s] = "expired"}
       IN /\ old # {}
          /\ session' = [s \in Sessions |-> IF s \in old THEN "purged" ELSE session[s]]
  /\ UNCHANGED <<accountVars, csrf, openedWith, browserVars, requestVars>>

\* The CSRF cookie is deleted or runs out.
LoseCsrfCookie(s) ==
  /\ jar[s] # 0
  /\ jar' = [jar EXCEPT ![s] = 0]
  /\ UNCHANGED <<accountVars, sessionVars, holds, requestVars>>

-----------------------------------------------------------------------------
AccountsInit ==
  /\ account = Bootstrap
  /\ api = "down" /\ configured = NoCredentials /\ starts = 0
  /\ session = [s \in Sessions |-> "absent"]
  /\ csrf = [s \in Sessions |-> 0]
  /\ openedWith = [s \in Sessions |-> NoCredentials]
  /\ holds = [s \in Sessions |-> FALSE]
  /\ jar = [s \in Sessions |-> 0]
  /\ request = [r \in Requests |-> NoRequest]
  /\ orphans = {}

ApiStep ==
  \/ \E c \in Credentials : StartApi(c)
  \/ InitializeOwner \/ ConfigureOwner \/ StopApi \/ ApiStops \/ KillApi

RequestStep(r) ==
  \/ \E c \in Credentials : BeginLogin(r, c)
  \/ \E s \in Sessions : CreateSession(r, s)
  \/ \E s \in Sessions, kind \in {"current", "logout"} : SendRequest(r, s, kind)
  \/ RequireAuth(r) \/ RotateSessionCsrf(r) \/ RevokeSession(r)
  \/ Answer(r) \/ LoseConnection(r)

AccountsNext ==
  \/ ApiStep
  \/ \E r \in Requests : RequestStep(r)
  \/ \E s \in Sessions : ExpireSession(s) \/ LoseCsrfCookie(s)
  \/ PurgeExpiredSessions

AccountsSpec == AccountsInit /\ [][AccountsNext]_accountsVars

-----------------------------------------------------------------------------
\* Safety.

\* A session that a browser holds and the database accepts was opened with the
\* owner's present credentials, through restarts with other credentials and logins
\* that were under way when the process ended.
SessionMatchesOwner ==
  \A s \in Sessions : holds[s] /\ session[s] = "active" => openedWith[s] = account

\* Whatever cookies and answers were lost before, one GET /session without another
\* beside it leaves the browser with the CSRF token the database accepts.
CsrfRepaired ==
  [][\A r \in Requests :
       Attended(r) /\ request[r].kind = "current" /\ request[r].alone
         /\ request[r].step = "answer" /\ Answer(r)
       => jar'[request[r].session] = csrf'[request[r].session]]_accountsVars

=============================================================================
