---------------------------- MODULE AccountsProofs ----------------------------
(***************************************************************************)
(* Proofs about Accounts, for any sessions, requests in flight, starts of  *)
(* the API and credentials.                                                *)
(*                                                                         *)
(* That a session in use matches the owner's credentials depends on where  *)
(* requests are: the account only changes in a process that does not       *)
(* answer requests yet (Shape), whatever is still on its way then belongs  *)
(* to a process that is gone and reaches no browser, and a login that is   *)
(* attended to was checked against the present account (LoginsCurrent).    *)
(***************************************************************************)
EXTENDS Accounts, TLAPS

\* What the step of a request says about it.
Shape ==
  \A r \in Requests : InFlight(r) =>
    /\ request[r].kind = "login" => request[r].step \in {"create", "answer"}
    /\ request[r].step = "create" => request[r].kind = "login"
    /\ request[r].step = "rotate" => request[r].kind = "current"
    /\ request[r].step = "revoke" => request[r].kind = "logout"
    /\ request[r].step # "create" =>
         request[r].session \in Sessions /\ session[request[r].session] # "absent"
    /\ r \in orphans => request[r].step \notin {"sent", "answer"}
    /\ r \notin orphans => api \in {"listening", "draining"}

\* A process knows the credentials it was started with.
Configured == api # "down" => configured \in Credentials

OrphansInFlight == \A r \in orphans : InFlight(r)

\* A login that is attended to: of the present credentials.
LoginsCurrent ==
  \A r \in Requests : Attended(r) /\ request[r].kind = "login" =>
    /\ request[r].step = "create" => request[r].with = account
    /\ request[r].step = "answer" /\ session[request[r].session] = "active" =>
         openedWith[request[r].session] = account

NothingHeldEarly == \A s \in Sessions : session[s] = "absent" => ~holds[s]

\* A GET /session by itself: no other one of its session, and the token it answers is
\* the database's.
AloneIsCurrent ==
  \A r \in Requests : InFlight(r) /\ request[r].kind = "current" /\ request[r].alone =>
    /\ \A x \in Requests \ {r} : InFlight(x) /\ request[x].kind = "current" =>
         request[x].session # request[r].session
    /\ request[r].step = "answer" => request[r].token = csrf[request[r].session]

AccountsInv ==
  AccountsTypeOK /\ Configured /\ Shape /\ OrphansInFlight /\ LoginsCurrent
    /\ NothingHeldEarly /\ SessionMatchesOwner /\ AloneIsCurrent

-----------------------------------------------------------------------------
(***************************************************************************)
(* Types.                                                                  *)
(***************************************************************************)

\* A request in flight is a record of the type, with a session once it has one.
LEMMA RequestTyped ==
  ASSUME AccountsTypeOK, Shape, NEW r \in Requests, InFlight(r)
  PROVE  /\ request[r] \in Request
         /\ request[r].step # "create" =>
              request[r].session \in Sessions /\ csrf[request[r].session] \in Tokens
  BY DEF AccountsTypeOK, Shape, InFlight

\* Every step of the API process keeps the types.
LEMMA ApiTypeStep ==
  ASSUME AccountsTypeOK, Configured, ApiStep
  PROVE  AccountsTypeOK'
<1> USE DEF AccountsTypeOK
<1>1. ASSUME NEW c \in Credentials, StartApi(c) PROVE AccountsTypeOK'
  <2>1. starts' \in 0..MaxStarts
    BY <1>1, AccountsAssumption DEF StartApi
  <2> QED  BY <1>1, <2>1 DEF StartApi, sessionVars, browserVars, requestVars
<1>2. CASE InitializeOwner \/ StopApi \/ ApiStops
  BY <1>2 DEF InitializeOwner, StopApi, ApiStops, sessionVars, browserVars, requestVars
<1>3. CASE ConfigureOwner
  <2>1. configured \in Credentials
    BY <1>3 DEF ConfigureOwner, Configured
  <2> QED  BY <1>3, <2>1 DEF ConfigureOwner, browserVars, requestVars
<1>4. CASE KillApi
  <2>1. PICK received \in SUBSET Requests :
          /\ orphans' = orphans \cup received
          /\ request' = [r \in Requests |-> IF r \in orphans \cup received THEN request[r] ELSE NoRequest]
    BY <1>4 DEF KillApi
  <2> QED  BY <1>4, <2>1 DEF KillApi, sessionVars, browserVars
<1> QED  BY <1>1, <1>2, <1>3, <1>4 DEF ApiStep

\* A request that is sent or moves on stays one of the type.
LEMMA SentTyped ==
  ASSUME NEW kind \in {"login", "current", "logout"}, NEW with \in Credentials \cup {NoCredentials},
         NEW step \in {"sent", "create", "rotate", "revoke", "answer"},
         NEW s \in Sessions \cup {NoSession}, NEW token \in Tokens, NEW alone \in BOOLEAN
  PROVE  [kind |-> kind, step |-> step, with |-> with, session |-> s,
          token |-> token, alone |-> alone] \in Request
  BY DEF Request

\* Every step of a request keeps the types.
LEMMA RequestTypeStep ==
  ASSUME AccountsTypeOK, Shape, NEW r \in Requests, RequestStep(r)
  PROVE  AccountsTypeOK'
<1> USE DEF AccountsTypeOK
<1>0. 0 \in Tokens /\ 1 \in Tokens
  BY AccountsAssumption DEF Tokens
<1>1. ASSUME NEW c \in Credentials, BeginLogin(r, c) PROVE AccountsTypeOK'
  <2>1. [kind |-> "login", step |-> "create", with |-> c, session |-> NoSession, token |-> 0, alone |-> TRUE]
          \in Request
    BY <1>0, SentTyped
  <2> QED  BY <1>1, <2>1 DEF BeginLogin, accountVars, sessionVars, browserVars
<1>2. ASSUME NEW s \in Sessions, NEW kind \in {"current", "logout"}, SendRequest(r, s, kind)
      PROVE  AccountsTypeOK'
  <2> DEFINE same == {x \in Requests : InFlight(x) /\ request[x].kind = "current" /\ request[x].session = s}
             new == [kind |-> kind, step |-> "sent", with |-> NoCredentials, session |-> s,
                     token |-> jar[s], alone |-> same = {}]
  <2>1. new \in Request
    BY SentTyped
  <2>2. \A x \in same : [request[x] EXCEPT !.alone = FALSE] \in Request
    BY DEF InFlight, Request
  <2>3. request' = [x \in Requests |-> IF x = r THEN new
                       ELSE IF x \in same /\ kind = "current" THEN [request[x] EXCEPT !.alone = FALSE]
                       ELSE request[x]]
    BY <1>2 DEF SendRequest
  <2> HIDE DEF new, same
  <2>4. request' \in [Requests -> Request \cup {NoRequest}]
    BY <2>1, <2>2, <2>3
  <2> QED  BY <1>2, <2>4 DEF SendRequest, accountVars, sessionVars, browserVars
<1>3. CASE RequireAuth(r)
  <2>1. InFlight(r) /\ request[r] \in Request
    BY <1>3, RequestTyped DEF RequireAuth, AtStep
  <2>2. [request[r] EXCEPT !.step = NextStep(request[r])] \in Request
    BY <2>1 DEF Request, NextStep
  <2>3. request' = [request EXCEPT ![r] = [request[r] EXCEPT !.step = NextStep(request[r])]]
          \/ request' = [request EXCEPT ![r] = NoRequest]
    BY <1>3 DEF RequireAuth, Refused
  <2>4. request' \in [Requests -> Request \cup {NoRequest}]
    BY <2>2, <2>3
  <2> QED  BY <1>3, <2>4 DEF RequireAuth, accountVars, sessionVars, browserVars
<1>4. ASSUME NEW s \in Sessions, CreateSession(r, s) PROVE AccountsTypeOK'
  <2>1. InFlight(r) /\ request[r] \in Request
    BY <1>4, RequestTyped DEF CreateSession, AtStep
  <2>2. [request[r] EXCEPT !.step = "answer", !.session = s, !.token = 1] \in Request
        /\ request[r].with \in Credentials \cup {NoCredentials}
    BY <2>1, <1>0 DEF Request
  <2>3. request' \in [Requests -> Request \cup {NoRequest}]
    BY <1>4, <2>2 DEF CreateSession, Reply
  <2>4. /\ session' = [session EXCEPT ![s] = "active"] /\ csrf' = [csrf EXCEPT ![s] = 1]
        /\ openedWith' = [openedWith EXCEPT ![s] = request[r].with]
        /\ UNCHANGED <<accountVars, browserVars>> /\ orphans' = orphans \ {r}
    BY <1>4 DEF CreateSession
  <2> QED  BY <2>2, <2>3, <2>4, <1>0 DEF accountVars, browserVars
<1>5. CASE RotateSessionCsrf(r)
  <2> DEFINE s == request[r].session
             answered == [request[r] EXCEPT !.step = "answer", !.token = csrf[s] + 1]
  <2>1. request[r] \in Request /\ s \in Sessions /\ csrf[s] \in Tokens
    BY <1>5, RequestTyped DEF RotateSessionCsrf, AtStep
  <2>2. CASE session[s] = "active"
    <3>1. csrf[s] + 1 \in Tokens
      BY <1>5, <2>1, <2>2, AccountsAssumption DEF RotateSessionCsrf, Tokens
    <3>2. answered \in Request
      BY <2>1, <3>1 DEF Request
    <3>3. /\ request' = [request EXCEPT ![r] = IF r \in orphans THEN NoRequest ELSE answered]
          /\ csrf' = [csrf EXCEPT ![s] = csrf[s] + 1]
          /\ orphans' = orphans \ {r}
          /\ UNCHANGED <<accountVars, session, openedWith, browserVars>>
      BY <1>5, <2>2 DEF RotateSessionCsrf, Reply
    <3> HIDE DEF answered, s
    <3> QED  BY <3>1, <3>2, <3>3 DEF accountVars, browserVars
  <2>3. CASE session[s] # "active"
    BY <1>5, <2>3 DEF RotateSessionCsrf, Refused, accountVars, browserVars
  <2> QED  BY <2>2, <2>3
<1>6. CASE RevokeSession(r)
  <2>1. request[r] \in Request
    BY <1>6, RequestTyped DEF RevokeSession, AtStep
  <2>2. [request[r] EXCEPT !.step = "answer"] \in Request
    BY <2>1 DEF Request
  <2>3. request' \in [Requests -> Request \cup {NoRequest}]
    BY <1>6, <2>2 DEF RevokeSession, Reply, Refused
  <2>4. session' \in [Sessions -> {"absent", "active", "expired", "revoked", "purged"}]
    BY <1>6 DEF RevokeSession
  <2> QED  BY <1>6, <2>3, <2>4 DEF RevokeSession, accountVars, browserVars
<1>7. CASE Answer(r)
  <2>1. request[r] \in Request
    BY <1>7, RequestTyped DEF Answer, AtStep
  <2>2. request[r].token \in Tokens
    BY <2>1 DEF Request
  <2>3. jar' \in [Sessions -> Tokens]
    BY <1>0, <1>7, <2>2 DEF Answer
  <2>4. holds' \in [Sessions -> BOOLEAN]
    BY <1>7 DEF Answer
  <2> QED  BY <1>7, <2>3, <2>4 DEF Answer, accountVars, sessionVars
<1>8. CASE LoseConnection(r)
  BY <1>8 DEF LoseConnection, accountVars, sessionVars, browserVars
<1> QED  BY <1>1, <1>2, <1>3, <1>4, <1>5, <1>6, <1>7, <1>8 DEF RequestStep

\* Time keeps the types.
LEMMA TimeTypeStep ==
  ASSUME AccountsTypeOK,
         PurgeExpiredSessions \/ \E s \in Sessions : ExpireSession(s) \/ LoseCsrfCookie(s)
  PROVE  AccountsTypeOK'
<1> USE DEF AccountsTypeOK
<1>1. 0 \in Tokens
  BY AccountsAssumption DEF Tokens
<1>2. ASSUME NEW s \in Sessions, ExpireSession(s) \/ LoseCsrfCookie(s) PROVE AccountsTypeOK'
  BY <1>1, <1>2 DEF ExpireSession, LoseCsrfCookie, accountVars, sessionVars, browserVars,
     requestVars
<1>3. CASE PurgeExpiredSessions
  <2>1. PICK old \in SUBSET Sessions :
          session' = [s \in Sessions |-> IF s \in old THEN "purged" ELSE session[s]]
    BY <1>3 DEF PurgeExpiredSessions
  <2> QED  BY <1>3, <2>1 DEF PurgeExpiredSessions, accountVars, browserVars, requestVars
<1> QED  BY <1>2, <1>3

-----------------------------------------------------------------------------
(***************************************************************************)
(* What the two longer actions do to the requests.                         *)
(***************************************************************************)

\* A request that is sent is the only one to change, but for who is alone.
LEMMA SendEffect ==
  ASSUME AccountsTypeOK, NEW r \in Requests, NEW s \in Sessions, NEW kind \in {"current", "logout"},
         SendRequest(r, s, kind)
  PROVE  /\ ~InFlight(r) /\ holds[s] /\ api = "listening"
         /\ UNCHANGED <<account, api, configured, session, csrf, openedWith, holds, orphans>>
         /\ request'[r].kind = kind /\ request'[r].step = "sent" /\ request'[r].session = s
         /\ request'[r].alone => \A x \in Requests : InFlight(x) /\ request[x].kind = "current" =>
                                                       request[x].session # s
         /\ \A x \in Requests \ {r} :
              /\ request'[x] # NoRequest <=> InFlight(x)
              /\ InFlight(x) => /\ request'[x].kind = request[x].kind
                                /\ request'[x].step = request[x].step
                                /\ request'[x].session = request[x].session
                                /\ request'[x].with = request[x].with
                                /\ request'[x].token = request[x].token
              /\ InFlight(x) /\ request'[x].alone =>
                   /\ request[x].alone
                   /\ kind = "current" /\ request[x].kind = "current" => request[x].session # s
<1> DEFINE same == {x \in Requests : InFlight(x) /\ request[x].kind = "current" /\ request[x].session = s}
           new == [kind |-> kind, step |-> "sent", with |-> NoCredentials, session |-> s,
                   token |-> jar[s], alone |-> same = {}]
<1>1. request' = [x \in Requests |-> IF x = r THEN new
                     ELSE IF x \in same /\ kind = "current" THEN [request[x] EXCEPT !.alone = FALSE]
                     ELSE request[x]]
  BY DEF SendRequest
<1>2. /\ ~InFlight(r) /\ holds[s] /\ api = "listening"
      /\ UNCHANGED <<account, api, configured, session, csrf, openedWith, holds, orphans>>
  BY DEF SendRequest, accountVars, sessionVars, browserVars
<1>3. request'[r] = new
  BY <1>1
<1>4. new.alone => \A x \in Requests : InFlight(x) /\ request[x].kind = "current" => request[x].session # s
  OBVIOUS
<1>5. ASSUME NEW x \in Requests \ {r}
      PROVE  /\ request'[x] # NoRequest <=> InFlight(x)
             /\ InFlight(x) => /\ request'[x].kind = request[x].kind
                               /\ request'[x].step = request[x].step
                               /\ request'[x].session = request[x].session
                               /\ request'[x].with = request[x].with
                               /\ request'[x].token = request[x].token
             /\ InFlight(x) /\ request'[x].alone =>
                  /\ request[x].alone
                  /\ kind = "current" /\ request[x].kind = "current" => request[x].session # s
  <2>1. CASE x \in same /\ kind = "current"
    <3>1. request[x] \in Request /\ InFlight(x)
      BY <2>1 DEF AccountsTypeOK, InFlight
    <3>2. request'[x] = [request[x] EXCEPT !.alone = FALSE]
      BY <1>1, <2>1
    <3>3. request'[x] \in Request
      BY <3>1, <3>2 DEF Request
    <3>4. request'[x] # NoRequest
      BY <3>3, RequestAssumption
    <3> QED  BY <3>1, <3>2, <3>4 DEF Request
  <2>2. CASE ~(x \in same /\ kind = "current")
    <3>1. request'[x] = request[x]
      BY <1>1, <2>2
    <3> QED  BY <3>1, <2>2 DEF InFlight
  <2> QED  BY <2>1, <2>2
<1> QED  BY <1>2, <1>3, <1>4, <1>5

\* A rotation answers the token it wrote, or gives the request up.
LEMMA RotateEffect ==
  ASSUME AccountsTypeOK, Shape, NEW r \in Requests, RotateSessionCsrf(r)
  PROVE  /\ InFlight(r) /\ request[r].kind = "current" /\ request[r].step = "rotate"
         /\ orphans' = orphans \ {r}
         /\ \A x \in Requests \ {r} : request'[x] = request[x]
         /\ request'[r] = NoRequest
              \/ /\ r \notin orphans
                 /\ request'[r].kind = "current" /\ request'[r].step = "answer"
                 /\ request'[r].session = request[r].session
                 /\ request'[r].alone = request[r].alone
                 /\ request'[r].token = csrf'[request[r].session]
         /\ \A s \in Sessions : s # request[r].session => csrf'[s] = csrf[s]
         /\ UNCHANGED <<account, api, configured, session, openedWith, holds>>
<1> DEFINE s == request[r].session
<1>1. /\ InFlight(r) /\ request[r] \in Request /\ request[r].kind = "current"
      /\ request[r].step = "rotate" /\ s \in Sessions
  BY DEF RotateSessionCsrf, AtStep, Shape, AccountsTypeOK, InFlight
<1>2. orphans' = orphans \ {r} /\ UNCHANGED <<account, api, configured, session, openedWith, holds>>
  BY DEF RotateSessionCsrf, accountVars, browserVars
<1>3. CASE session[s] = "active"
  <2>1. /\ csrf' = [csrf EXCEPT ![s] = csrf[s] + 1]
        /\ request' = [request EXCEPT ![r] = IF r \in orphans THEN NoRequest
                         ELSE [request[r] EXCEPT !.step = "answer", !.token = csrf[s] + 1]]
    BY <1>3 DEF RotateSessionCsrf, Reply
  <2>2. csrf'[s] = csrf[s] + 1
    BY <2>1, <1>1 DEF AccountsTypeOK
  <2>3. CASE r \in orphans
    BY <1>1, <1>2, <2>1, <2>3 DEF AccountsTypeOK
  <2>4. CASE r \notin orphans
    <3>1. request'[r] = [request[r] EXCEPT !.step = "answer", !.token = csrf[s] + 1]
      BY <2>1, <2>4 DEF AccountsTypeOK
    <3>2. /\ request'[r].kind = "current" /\ request'[r].step = "answer"
          /\ request'[r].session = s
          /\ request'[r].alone = request[r].alone
          /\ request'[r].token = csrf'[s]
      BY <3>1, <2>2, <1>1 DEF Request
    <3>3. \A x \in Requests \ {r} : request'[x] = request[x]
      BY <2>1 DEF AccountsTypeOK
    <3>4. \A x \in Sessions : x # s => csrf'[x] = csrf[x]
      BY <2>1 DEF AccountsTypeOK
    <3> HIDE DEF s
    <3> QED  BY <1>1, <1>2, <2>4, <3>2, <3>3, <3>4 DEF s
  <2> QED  BY <2>3, <2>4
<1>4. CASE session[s] # "active"
  <2>1. request' = [request EXCEPT ![r] = NoRequest] /\ csrf' = csrf
    BY <1>4 DEF RotateSessionCsrf, Refused
  <2> QED  BY <1>1, <1>2, <2>1 DEF AccountsTypeOK
<1> QED  BY <1>3, <1>4
-----------------------------------------------------------------------------
(***************************************************************************)
(* The invariant, conjunct by conjunct.                                    *)
(***************************************************************************)

\* The credentials of the process come with its start and go with its end.
LEMMA ConfiguredStep ==
  ASSUME AccountsInv, [AccountsNext]_accountsVars
  PROVE  Configured'
<1>1. ASSUME NEW c \in Credentials, StartApi(c)
      PROVE  Configured'
  BY <1>1 DEF StartApi, AccountsInv, Configured, accountVars, sessionVars, browserVars,
     requestVars
<1>2. CASE InitializeOwner
  BY <1>2 DEF InitializeOwner, AccountsInv, Configured
<1>3. CASE ConfigureOwner
  BY <1>3 DEF ConfigureOwner, AccountsInv, Configured
<1>4. CASE StopApi \/ ApiStops
  BY <1>4 DEF StopApi, ApiStops, AccountsInv, Configured
<1>5. CASE KillApi
  BY <1>5 DEF KillApi, AccountsInv, Configured, accountVars, sessionVars
<1>6. ASSUME NEW r \in Requests, NEW c \in Credentials, BeginLogin(r, c)
      PROVE  Configured'
  BY <1>6 DEF BeginLogin, AccountsInv, Configured, accountVars
<1>7. ASSUME NEW r \in Requests, NEW s \in Sessions, NEW kind \in {"current", "logout"}, SendRequest(r, s, kind)
      PROVE  Configured'
  BY <1>7 DEF SendRequest, AccountsInv, Configured, accountVars
<1>8. ASSUME NEW r \in Requests, RequireAuth(r)
      PROVE  Configured'
  BY <1>8 DEF RequireAuth, Refused, NextStep, AccountsInv, Configured, accountVars
<1>9. ASSUME NEW r \in Requests, NEW s \in Sessions, CreateSession(r, s)
      PROVE  Configured'
  BY <1>9 DEF CreateSession, Reply, AccountsInv, Configured, accountVars
<1>10. ASSUME NEW r \in Requests, RotateSessionCsrf(r)
      PROVE  Configured'
  BY <1>10 DEF RotateSessionCsrf, Reply, Refused, AccountsInv, Configured, accountVars
<1>11. ASSUME NEW r \in Requests, RevokeSession(r)
      PROVE  Configured'
  BY <1>11 DEF RevokeSession, Reply, Refused, AccountsInv, Configured, accountVars
<1>12. ASSUME NEW r \in Requests, Answer(r)
      PROVE  Configured'
  BY <1>12 DEF Answer, AccountsInv, Configured, accountVars
<1>13. ASSUME NEW r \in Requests, LoseConnection(r)
      PROVE  Configured'
  BY <1>13 DEF LoseConnection, AccountsInv, Configured, accountVars
<1>14. ASSUME NEW s \in Sessions, ExpireSession(s)
      PROVE  Configured'
  BY <1>14 DEF ExpireSession, AccountsInv, Configured, accountVars
<1>15. ASSUME NEW s \in Sessions, LoseCsrfCookie(s)
      PROVE  Configured'
  BY <1>15 DEF LoseCsrfCookie, AccountsInv, Configured, accountVars
<1>16. CASE PurgeExpiredSessions
  BY <1>16 DEF PurgeExpiredSessions, AccountsInv, Configured, accountVars
<1>17. CASE UNCHANGED accountsVars
  BY <1>17 DEF accountsVars, AccountsInv, Configured, accountVars
<1> QED
  BY <1>1, <1>2, <1>3, <1>4, <1>5, <1>6, <1>7, <1>8, <1>9, <1>10, <1>11, <1>12, <1>13, <1>14, <1>15, <1>16, <1>17
  DEF AccountsNext, ApiStep, RequestStep

\* Requests keep to the steps of their kind, and those of a running process to its life.
LEMMA ShapeStep ==
  ASSUME AccountsInv, [AccountsNext]_accountsVars
  PROVE  Shape'
<1>1. ASSUME NEW c \in Credentials, StartApi(c)
      PROVE  Shape'
  BY <1>1 DEF StartApi, AccountsInv, Shape, InFlight, sessionVars, requestVars
<1>2. CASE InitializeOwner
  BY <1>2 DEF InitializeOwner, AccountsInv, Shape, InFlight, sessionVars, requestVars
<1>3. CASE ConfigureOwner
  BY <1>3 DEF ConfigureOwner, AccountsInv, Shape, InFlight, requestVars
<1>4. CASE StopApi \/ ApiStops
  BY <1>4 DEF StopApi, ApiStops, AccountsInv, Shape, InFlight, Attended, sessionVars,
     requestVars
<1>5. CASE KillApi
  BY <1>5 DEF KillApi, AccountsInv, Shape, InFlight, sessionVars
<1>6. ASSUME NEW r \in Requests, NEW c \in Credentials, BeginLogin(r, c)
      PROVE  Shape'
  BY <1>6 DEF BeginLogin, AccountsInv, Shape, InFlight, accountVars, sessionVars
<1>7. ASSUME NEW r \in Requests, NEW s \in Sessions, NEW kind \in {"current", "logout"}, SendRequest(r, s, kind)
      PROVE  Shape'
  <2>1. \A x \in Requests : request'[x] # NoRequest => x = r \/ InFlight(x)
    BY <1>7, SendEffect DEF AccountsInv
  <2>2. session[s] # "absent" /\ r \notin orphans
    BY <1>7, SendEffect DEF AccountsInv, NothingHeldEarly, OrphansInFlight
  <2> SUFFICES ASSUME NEW x \in Requests, request'[x] # NoRequest
               PROVE  /\ request'[x].kind = "login" => request'[x].step \in {"create", "answer"}
                      /\ request'[x].step = "create" => request'[x].kind = "login"
                      /\ request'[x].step = "rotate" => request'[x].kind = "current"
                      /\ request'[x].step = "revoke" => request'[x].kind = "logout"
                      /\ request'[x].step # "create" =>
                           request'[x].session \in Sessions /\ session'[request'[x].session] # "absent"
                      /\ x \in orphans' => request'[x].step \notin {"sent", "answer"}
                      /\ x \notin orphans' => api' \in {"listening", "draining"}
    BY DEF Shape, InFlight
  <2>3. CASE x = r
    BY <1>7, <2>2, <2>3, SendEffect DEF AccountsInv
  <2>4. CASE x # r
    BY <1>7, <2>1, <2>4, SendEffect DEF AccountsInv, Shape
  <2> QED  BY <2>3, <2>4
<1>8. ASSUME NEW r \in Requests, RequireAuth(r)
      PROVE  Shape'
  BY <1>8 DEF RequireAuth, Refused, NextStep, AccountsInv, AccountsTypeOK, Request, Shape,
     InFlight, AtStep, accountVars, sessionVars
<1>9. ASSUME NEW r \in Requests, NEW s \in Sessions, CreateSession(r, s)
      PROVE  Shape'
  BY <1>9 DEF CreateSession, Reply, AccountsInv, AccountsTypeOK, Shape, InFlight, AtStep,
     accountVars
<1>10. ASSUME NEW r \in Requests, RotateSessionCsrf(r)
      PROVE  Shape'
  <2> SUFFICES ASSUME NEW x \in Requests, request'[x] # NoRequest
               PROVE  /\ request'[x].kind = "login" => request'[x].step \in {"create", "answer"}
                      /\ request'[x].step = "create" => request'[x].kind = "login"
                      /\ request'[x].step = "rotate" => request'[x].kind = "current"
                      /\ request'[x].step = "revoke" => request'[x].kind = "logout"
                      /\ request'[x].step # "create" =>
                           request'[x].session \in Sessions /\ session'[request'[x].session] # "absent"
                      /\ x \in orphans' => request'[x].step \notin {"sent", "answer"}
                      /\ x \notin orphans' => api' \in {"listening", "draining"}
    BY DEF Shape, InFlight
  <2>1. CASE x = r
    BY <1>10, <2>1, RotateEffect DEF AccountsInv, Shape
  <2>2. CASE x # r
    BY <1>10, <2>2, RotateEffect DEF AccountsInv, Shape, InFlight
  <2> QED  BY <2>1, <2>2
<1>11. ASSUME NEW r \in Requests, RevokeSession(r)
      PROVE  Shape'
  BY <1>11 DEF RevokeSession, Reply, Refused, AccountsInv, AccountsTypeOK, Request, Shape,
     InFlight, AtStep, accountVars
<1>12. ASSUME NEW r \in Requests, Answer(r)
      PROVE  Shape'
  BY <1>12 DEF Answer, AccountsInv, Shape, InFlight, accountVars, sessionVars
<1>13. ASSUME NEW r \in Requests, LoseConnection(r)
      PROVE  Shape'
  BY <1>13 DEF LoseConnection, AccountsInv, AccountsTypeOK, Shape, InFlight, accountVars,
     sessionVars
<1>14. ASSUME NEW s \in Sessions, ExpireSession(s)
      PROVE  Shape'
  BY <1>14 DEF ExpireSession, AccountsInv, Shape, InFlight, accountVars, requestVars
<1>15. ASSUME NEW s \in Sessions, LoseCsrfCookie(s)
      PROVE  Shape'
  BY <1>15 DEF LoseCsrfCookie, AccountsInv, Shape, InFlight, accountVars, sessionVars,
     requestVars
<1>16. CASE PurgeExpiredSessions
  BY <1>16 DEF PurgeExpiredSessions, AccountsInv, Shape, InFlight, accountVars, requestVars
<1>17. CASE UNCHANGED accountsVars
  BY <1>17 DEF accountsVars, AccountsInv, Shape, InFlight, accountVars, sessionVars,
     requestVars
<1> QED
  BY <1>1, <1>2, <1>3, <1>4, <1>5, <1>6, <1>7, <1>8, <1>9, <1>10, <1>11, <1>12, <1>13, <1>14, <1>15, <1>16, <1>17
  DEF AccountsNext, ApiStep, RequestStep

\* What is left of a process that is gone is on its way until it has taken effect.
LEMMA OrphansInFlightStep ==
  ASSUME AccountsInv, [AccountsNext]_accountsVars
  PROVE  OrphansInFlight'
<1>1. ASSUME NEW c \in Credentials, StartApi(c)
      PROVE  OrphansInFlight'
  BY <1>1 DEF StartApi, AccountsInv, OrphansInFlight, Shape, InFlight, requestVars
<1>2. CASE InitializeOwner
  BY <1>2 DEF InitializeOwner, AccountsInv, OrphansInFlight, Shape, InFlight, requestVars
<1>3. CASE ConfigureOwner
  BY <1>3 DEF ConfigureOwner, AccountsInv, OrphansInFlight, Shape, InFlight, requestVars
<1>4. CASE StopApi \/ ApiStops
  BY <1>4 DEF StopApi, ApiStops, AccountsInv, OrphansInFlight, Shape, InFlight, requestVars
<1>5. CASE KillApi
  BY <1>5 DEF KillApi, AccountsInv, AccountsTypeOK, OrphansInFlight, Shape, InFlight, Attended
<1>6. ASSUME NEW r \in Requests, NEW c \in Credentials, BeginLogin(r, c)
      PROVE  OrphansInFlight'
  BY <1>6 DEF BeginLogin, AccountsInv, OrphansInFlight, Shape, InFlight
<1>7. ASSUME NEW r \in Requests, NEW s \in Sessions, NEW kind \in {"current", "logout"}, SendRequest(r, s, kind)
      PROVE  OrphansInFlight'
  <2>1. \A x \in orphans : x \in Requests \ {r}
    BY <1>7, SendEffect DEF AccountsInv, AccountsTypeOK, OrphansInFlight
  <2> QED  BY <1>7, <2>1, SendEffect DEF AccountsInv, OrphansInFlight, InFlight
<1>8. ASSUME NEW r \in Requests, RequireAuth(r)
      PROVE  OrphansInFlight'
  BY <1>8 DEF RequireAuth, Refused, NextStep, AccountsInv, AccountsTypeOK, OrphansInFlight,
     Shape, InFlight, AtStep
<1>9. ASSUME NEW r \in Requests, NEW s \in Sessions, CreateSession(r, s)
      PROVE  OrphansInFlight'
  BY <1>9 DEF CreateSession, Reply, AccountsInv, OrphansInFlight, Shape, InFlight
<1>10. ASSUME NEW r \in Requests, RotateSessionCsrf(r)
      PROVE  OrphansInFlight'
  BY <1>10 DEF RotateSessionCsrf, Reply, Refused, AccountsInv, AccountsTypeOK, OrphansInFlight,
     Shape, InFlight
<1>11. ASSUME NEW r \in Requests, RevokeSession(r)
      PROVE  OrphansInFlight'
  BY <1>11 DEF RevokeSession, Reply, Refused, AccountsInv, AccountsTypeOK, OrphansInFlight,
     Shape, InFlight
<1>12. ASSUME NEW r \in Requests, Answer(r)
      PROVE  OrphansInFlight'
  BY <1>12 DEF Answer, AccountsInv, OrphansInFlight, Shape, InFlight, AtStep
<1>13. ASSUME NEW r \in Requests, LoseConnection(r)
      PROVE  OrphansInFlight'
  BY <1>13 DEF LoseConnection, AccountsInv, AccountsTypeOK, OrphansInFlight, Shape, InFlight,
     Attended
<1>14. ASSUME NEW s \in Sessions, ExpireSession(s)
      PROVE  OrphansInFlight'
  BY <1>14 DEF ExpireSession, AccountsInv, OrphansInFlight, Shape, InFlight, requestVars
<1>15. ASSUME NEW s \in Sessions, LoseCsrfCookie(s)
      PROVE  OrphansInFlight'
  BY <1>15 DEF LoseCsrfCookie, AccountsInv, OrphansInFlight, Shape, InFlight, requestVars
<1>16. CASE PurgeExpiredSessions
  BY <1>16 DEF PurgeExpiredSessions, AccountsInv, OrphansInFlight, Shape, InFlight, requestVars
<1>17. CASE UNCHANGED accountsVars
  BY <1>17 DEF accountsVars, AccountsInv, OrphansInFlight, Shape, InFlight, requestVars
<1> QED
  BY <1>1, <1>2, <1>3, <1>4, <1>5, <1>6, <1>7, <1>8, <1>9, <1>10, <1>11, <1>12, <1>13, <1>14, <1>15, <1>16, <1>17
  DEF AccountsNext, ApiStep, RequestStep

\* A login that is attended to keeps being one of the present credentials: they change
\* only in a process that attends to none.
LEMMA LoginsCurrentStep ==
  ASSUME AccountsInv, [AccountsNext]_accountsVars
  PROVE  LoginsCurrent'
<1>1. ASSUME NEW c \in Credentials, StartApi(c)
      PROVE  LoginsCurrent'
  BY <1>1 DEF StartApi, AccountsInv, LoginsCurrent, Shape, InFlight, Attended, requestVars
<1>2. CASE InitializeOwner
  BY <1>2 DEF InitializeOwner, AccountsInv, LoginsCurrent, Shape, InFlight, Attended,
     requestVars
<1>3. CASE ConfigureOwner
  BY <1>3 DEF ConfigureOwner, AccountsInv, LoginsCurrent, Shape, InFlight, Attended,
     requestVars
<1>4. CASE StopApi \/ ApiStops
  BY <1>4 DEF StopApi, ApiStops, AccountsInv, LoginsCurrent, Shape, InFlight, Attended,
     sessionVars, requestVars
<1>5. CASE KillApi
  BY <1>5 DEF KillApi, AccountsInv, LoginsCurrent, Shape, InFlight, Attended
<1>6. ASSUME NEW r \in Requests, NEW c \in Credentials, BeginLogin(r, c)
      PROVE  LoginsCurrent'
  BY <1>6 DEF BeginLogin, AccountsInv, LoginsCurrent, Shape, InFlight, Attended, accountVars,
     sessionVars
<1>7. ASSUME NEW r \in Requests, NEW s \in Sessions, NEW kind \in {"current", "logout"}, SendRequest(r, s, kind)
      PROVE  LoginsCurrent'
  BY <1>7 DEF SendRequest, AccountsInv, LoginsCurrent, Shape, InFlight, Attended, accountVars,
     sessionVars
<1>8. ASSUME NEW r \in Requests, RequireAuth(r)
      PROVE  LoginsCurrent'
  BY <1>8 DEF RequireAuth, Refused, NextStep, AccountsInv, AccountsTypeOK, Request,
     LoginsCurrent, Shape, InFlight, AtStep, Attended, accountVars, sessionVars
<1>9. ASSUME NEW r \in Requests, NEW s \in Sessions, CreateSession(r, s)
      PROVE  LoginsCurrent'
  BY <1>9 DEF CreateSession, Reply, AccountsInv, AccountsTypeOK, LoginsCurrent, Shape,
     InFlight, AtStep, Attended, accountVars
<1>10. ASSUME NEW r \in Requests, RotateSessionCsrf(r)
      PROVE  LoginsCurrent'
  <2> SUFFICES ASSUME NEW x \in Requests, request'[x] # NoRequest, x \notin orphans',
                      request'[x].kind = "login"
               PROVE  /\ request'[x].step = "create" => request'[x].with = account'
                      /\ request'[x].step = "answer" /\ session'[request'[x].session] = "active" =>
                           openedWith'[request'[x].session] = account'
    BY DEF LoginsCurrent, Attended, InFlight
  <2>1. x # r
    BY <1>10, RotateEffect DEF AccountsInv
  <2> QED  BY <1>10, <2>1, RotateEffect DEF AccountsInv, LoginsCurrent, Attended, InFlight
<1>11. ASSUME NEW r \in Requests, RevokeSession(r)
      PROVE  LoginsCurrent'
  BY <1>11 DEF RevokeSession, Reply, Refused, AccountsInv, AccountsTypeOK, Request,
     LoginsCurrent, Shape, InFlight, AtStep, Attended, accountVars
<1>12. ASSUME NEW r \in Requests, Answer(r)
      PROVE  LoginsCurrent'
  BY <1>12 DEF Answer, AccountsInv, LoginsCurrent, Shape, InFlight, Attended, accountVars,
     sessionVars
<1>13. ASSUME NEW r \in Requests, LoseConnection(r)
      PROVE  LoginsCurrent'
  BY <1>13 DEF LoseConnection, AccountsInv, AccountsTypeOK, LoginsCurrent, Shape, InFlight,
     Attended, accountVars, sessionVars
<1>14. ASSUME NEW s \in Sessions, ExpireSession(s)
      PROVE  LoginsCurrent'
  BY <1>14 DEF ExpireSession, AccountsInv, LoginsCurrent, Shape, InFlight, Attended,
     accountVars, requestVars
<1>15. ASSUME NEW s \in Sessions, LoseCsrfCookie(s)
      PROVE  LoginsCurrent'
  BY <1>15 DEF LoseCsrfCookie, AccountsInv, LoginsCurrent, Shape, InFlight, Attended,
     accountVars, sessionVars, requestVars
<1>16. CASE PurgeExpiredSessions
  BY <1>16 DEF PurgeExpiredSessions, AccountsInv, LoginsCurrent, Shape, InFlight, Attended,
     accountVars, requestVars
<1>17. CASE UNCHANGED accountsVars
  BY <1>17 DEF accountsVars, AccountsInv, LoginsCurrent, Shape, InFlight, Attended,
     accountVars, sessionVars, requestVars
<1> QED
  BY <1>1, <1>2, <1>3, <1>4, <1>5, <1>6, <1>7, <1>8, <1>9, <1>10, <1>11, <1>12, <1>13, <1>14, <1>15, <1>16, <1>17
  DEF AccountsNext, ApiStep, RequestStep

\* A browser holds no cookie of a session that was not created.
LEMMA NothingHeldEarlyStep ==
  ASSUME AccountsInv, [AccountsNext]_accountsVars
  PROVE  NothingHeldEarly'
<1>1. ASSUME NEW c \in Credentials, StartApi(c)
      PROVE  NothingHeldEarly'
  BY <1>1 DEF StartApi, AccountsInv, NothingHeldEarly, Shape, InFlight, sessionVars,
     browserVars
<1>2. CASE InitializeOwner
  BY <1>2 DEF InitializeOwner, AccountsInv, NothingHeldEarly, Shape, InFlight, sessionVars,
     browserVars
<1>3. CASE ConfigureOwner
  BY <1>3 DEF ConfigureOwner, AccountsInv, NothingHeldEarly, Shape, InFlight, browserVars
<1>4. CASE StopApi \/ ApiStops
  BY <1>4 DEF StopApi, ApiStops, AccountsInv, NothingHeldEarly, Shape, InFlight, sessionVars,
     browserVars
<1>5. CASE KillApi
  BY <1>5 DEF KillApi, AccountsInv, NothingHeldEarly, Shape, InFlight, sessionVars, browserVars
<1>6. ASSUME NEW r \in Requests, NEW c \in Credentials, BeginLogin(r, c)
      PROVE  NothingHeldEarly'
  BY <1>6 DEF BeginLogin, AccountsInv, NothingHeldEarly, Shape, InFlight, sessionVars,
     browserVars
<1>7. ASSUME NEW r \in Requests, NEW s \in Sessions, NEW kind \in {"current", "logout"}, SendRequest(r, s, kind)
      PROVE  NothingHeldEarly'
  BY <1>7 DEF SendRequest, AccountsInv, NothingHeldEarly, Shape, InFlight, sessionVars,
     browserVars
<1>8. ASSUME NEW r \in Requests, RequireAuth(r)
      PROVE  NothingHeldEarly'
  BY <1>8 DEF RequireAuth, Refused, NextStep, AccountsInv, NothingHeldEarly, Shape, InFlight,
     sessionVars, browserVars
<1>9. ASSUME NEW r \in Requests, NEW s \in Sessions, CreateSession(r, s)
      PROVE  NothingHeldEarly'
  BY <1>9 DEF CreateSession, Reply, AccountsInv, NothingHeldEarly, Shape, InFlight, browserVars
<1>10. ASSUME NEW r \in Requests, RotateSessionCsrf(r)
      PROVE  NothingHeldEarly'
  BY <1>10 DEF RotateSessionCsrf, Reply, Refused, AccountsInv, NothingHeldEarly, Shape,
     InFlight, browserVars
<1>11. ASSUME NEW r \in Requests, RevokeSession(r)
      PROVE  NothingHeldEarly'
  BY <1>11 DEF RevokeSession, Reply, Refused, AccountsInv, AccountsTypeOK, NothingHeldEarly,
     Shape, InFlight, browserVars
<1>12. ASSUME NEW r \in Requests, Answer(r)
      PROVE  NothingHeldEarly'
  BY <1>12 DEF Answer, AccountsInv, NothingHeldEarly, Shape, InFlight, AtStep, sessionVars
<1>13. ASSUME NEW r \in Requests, LoseConnection(r)
      PROVE  NothingHeldEarly'
  BY <1>13 DEF LoseConnection, AccountsInv, NothingHeldEarly, Shape, InFlight, sessionVars,
     browserVars
<1>14. ASSUME NEW s \in Sessions, ExpireSession(s)
      PROVE  NothingHeldEarly'
  BY <1>14 DEF ExpireSession, AccountsInv, NothingHeldEarly, Shape, InFlight, browserVars
<1>15. ASSUME NEW s \in Sessions, LoseCsrfCookie(s)
      PROVE  NothingHeldEarly'
  BY <1>15 DEF LoseCsrfCookie, AccountsInv, NothingHeldEarly, Shape, InFlight, sessionVars
<1>16. CASE PurgeExpiredSessions
  BY <1>16 DEF PurgeExpiredSessions, AccountsInv, NothingHeldEarly, Shape, InFlight,
     browserVars
<1>17. CASE UNCHANGED accountsVars
  BY <1>17 DEF accountsVars, AccountsInv, NothingHeldEarly, Shape, InFlight, sessionVars,
     browserVars
<1> QED
  BY <1>1, <1>2, <1>3, <1>4, <1>5, <1>6, <1>7, <1>8, <1>9, <1>10, <1>11, <1>12, <1>13, <1>14, <1>15, <1>16, <1>17
  DEF AccountsNext, ApiStep, RequestStep

\* A session gets to a browser by an attended login only, and new credentials revoke
\* every session that is active.
LEMMA SessionMatchesOwnerStep ==
  ASSUME AccountsInv, [AccountsNext]_accountsVars
  PROVE  SessionMatchesOwner'
<1>1. ASSUME NEW c \in Credentials, StartApi(c)
      PROVE  SessionMatchesOwner'
  BY <1>1 DEF StartApi, AccountsInv, SessionMatchesOwner, LoginsCurrent, NothingHeldEarly,
     Shape, InFlight, sessionVars, browserVars
<1>2. CASE InitializeOwner
  BY <1>2 DEF InitializeOwner, AccountsInv, SessionMatchesOwner, LoginsCurrent,
     NothingHeldEarly, Shape, InFlight, sessionVars, browserVars
<1>3. CASE ConfigureOwner
  BY <1>3 DEF ConfigureOwner, AccountsInv, SessionMatchesOwner, LoginsCurrent,
     NothingHeldEarly, Shape, InFlight
<1>4. CASE StopApi \/ ApiStops
  BY <1>4 DEF StopApi, ApiStops, AccountsInv, SessionMatchesOwner, LoginsCurrent,
     NothingHeldEarly, Shape, InFlight, sessionVars, browserVars
<1>5. CASE KillApi
  BY <1>5 DEF KillApi, AccountsInv, SessionMatchesOwner, LoginsCurrent, NothingHeldEarly,
     Shape, InFlight, sessionVars, browserVars
<1>6. ASSUME NEW r \in Requests, NEW c \in Credentials, BeginLogin(r, c)
      PROVE  SessionMatchesOwner'
  BY <1>6 DEF BeginLogin, AccountsInv, SessionMatchesOwner, LoginsCurrent, NothingHeldEarly,
     Shape, InFlight, accountVars, sessionVars, browserVars
<1>7. ASSUME NEW r \in Requests, NEW s \in Sessions, NEW kind \in {"current", "logout"}, SendRequest(r, s, kind)
      PROVE  SessionMatchesOwner'
  BY <1>7 DEF SendRequest, AccountsInv, SessionMatchesOwner, LoginsCurrent, NothingHeldEarly,
     Shape, InFlight, accountVars, sessionVars, browserVars
<1>8. ASSUME NEW r \in Requests, RequireAuth(r)
      PROVE  SessionMatchesOwner'
  BY <1>8 DEF RequireAuth, Refused, NextStep, AccountsInv, SessionMatchesOwner, LoginsCurrent,
     NothingHeldEarly, Shape, InFlight, accountVars, sessionVars, browserVars
<1>9. ASSUME NEW r \in Requests, NEW s \in Sessions, CreateSession(r, s)
      PROVE  SessionMatchesOwner'
  BY <1>9 DEF CreateSession, Reply, AccountsInv, SessionMatchesOwner, LoginsCurrent,
     NothingHeldEarly, Shape, InFlight, accountVars, browserVars
<1>10. ASSUME NEW r \in Requests, RotateSessionCsrf(r)
      PROVE  SessionMatchesOwner'
  BY <1>10 DEF RotateSessionCsrf, Reply, Refused, AccountsInv, SessionMatchesOwner,
     LoginsCurrent, NothingHeldEarly, Shape, InFlight, accountVars, browserVars
<1>11. ASSUME NEW r \in Requests, RevokeSession(r)
      PROVE  SessionMatchesOwner'
  BY <1>11 DEF RevokeSession, Reply, Refused, AccountsInv, AccountsTypeOK, SessionMatchesOwner,
     LoginsCurrent, NothingHeldEarly, Shape, InFlight, accountVars, browserVars
<1>12. ASSUME NEW r \in Requests, Answer(r)
      PROVE  SessionMatchesOwner'
  BY <1>12 DEF Answer, AccountsInv, SessionMatchesOwner, LoginsCurrent, NothingHeldEarly,
     Shape, InFlight, AtStep, Attended, accountVars, sessionVars
<1>13. ASSUME NEW r \in Requests, LoseConnection(r)
      PROVE  SessionMatchesOwner'
  BY <1>13 DEF LoseConnection, AccountsInv, SessionMatchesOwner, LoginsCurrent,
     NothingHeldEarly, Shape, InFlight, accountVars, sessionVars, browserVars
<1>14. ASSUME NEW s \in Sessions, ExpireSession(s)
      PROVE  SessionMatchesOwner'
  BY <1>14 DEF ExpireSession, AccountsInv, SessionMatchesOwner, LoginsCurrent,
     NothingHeldEarly, Shape, InFlight, accountVars, browserVars
<1>15. ASSUME NEW s \in Sessions, LoseCsrfCookie(s)
      PROVE  SessionMatchesOwner'
  BY <1>15 DEF LoseCsrfCookie, AccountsInv, SessionMatchesOwner, LoginsCurrent,
     NothingHeldEarly, Shape, InFlight, accountVars, sessionVars
<1>16. CASE PurgeExpiredSessions
  BY <1>16 DEF PurgeExpiredSessions, AccountsInv, SessionMatchesOwner, LoginsCurrent,
     NothingHeldEarly, Shape, InFlight, accountVars, browserVars
<1>17. CASE UNCHANGED accountsVars
  BY <1>17 DEF accountsVars, AccountsInv, SessionMatchesOwner, LoginsCurrent, NothingHeldEarly,
     Shape, InFlight, accountVars, sessionVars, browserVars
<1> QED
  BY <1>1, <1>2, <1>3, <1>4, <1>5, <1>6, <1>7, <1>8, <1>9, <1>10, <1>11, <1>12, <1>13, <1>14, <1>15, <1>16, <1>17
  DEF AccountsNext, ApiStep, RequestStep

\* Nobody but the request itself rotates the token of a session it is alone with.
LEMMA AloneIsCurrentStep ==
  ASSUME AccountsInv, [AccountsNext]_accountsVars
  PROVE  AloneIsCurrent'
<1>1. ASSUME NEW c \in Credentials, StartApi(c)
      PROVE  AloneIsCurrent'
  BY <1>1 DEF StartApi, AccountsInv, AloneIsCurrent, Shape, InFlight, requestVars
<1>2. CASE InitializeOwner
  BY <1>2 DEF InitializeOwner, AccountsInv, AloneIsCurrent, Shape, InFlight, requestVars
<1>3. CASE ConfigureOwner
  BY <1>3 DEF ConfigureOwner, AccountsInv, AloneIsCurrent, Shape, InFlight, requestVars
<1>4. CASE StopApi \/ ApiStops
  BY <1>4 DEF StopApi, ApiStops, AccountsInv, AloneIsCurrent, Shape, InFlight, sessionVars,
     requestVars
<1>5. CASE KillApi
  BY <1>5 DEF KillApi, AccountsInv, AloneIsCurrent, Shape, InFlight
<1>6. ASSUME NEW r \in Requests, NEW c \in Credentials, BeginLogin(r, c)
      PROVE  AloneIsCurrent'
  BY <1>6 DEF BeginLogin, AccountsInv, AloneIsCurrent, Shape, InFlight, sessionVars
<1>7. ASSUME NEW r \in Requests, NEW s \in Sessions, NEW kind \in {"current", "logout"}, SendRequest(r, s, kind)
      PROVE  AloneIsCurrent'
  <2> SUFFICES ASSUME NEW x \in Requests, request'[x] # NoRequest,
                      request'[x].kind = "current", request'[x].alone
               PROVE  /\ \A y \in Requests \ {x} : request'[y] # NoRequest /\ request'[y].kind = "current" =>
                           request'[y].session # request'[x].session
                      /\ request'[x].step = "answer" => request'[x].token = csrf'[request'[x].session]
    BY DEF AloneIsCurrent, InFlight
  <2>1. \A y \in Requests : request'[y] # NoRequest => y = r \/ InFlight(y)
    BY <1>7, SendEffect DEF AccountsInv
  <2>2. CASE x = r
    BY <1>7, <2>1, <2>2, SendEffect DEF AccountsInv
  <2>3. CASE x # r
    <3>1. /\ InFlight(x) /\ request[x].kind = "current" /\ request[x].alone
          /\ request'[x].session = request[x].session
          /\ kind = "current" => request[x].session # s
      BY <1>7, <2>1, <2>3, SendEffect DEF AccountsInv
    <3>2. ASSUME NEW y \in Requests \ {x}, request'[y] # NoRequest, request'[y].kind = "current"
          PROVE  request'[y].session # request'[x].session
      <4>1. CASE y = r
        BY <1>7, <3>1, <3>2, <4>1, SendEffect DEF AccountsInv
      <4>2. CASE y # r
        BY <1>7, <2>1, <3>1, <3>2, <4>2, SendEffect DEF AccountsInv, AloneIsCurrent
      <4> QED  BY <4>1, <4>2
    <3>3. request'[x].step = "answer" => request'[x].token = csrf'[request'[x].session]
      BY <1>7, <2>3, <3>1, SendEffect DEF AccountsInv, AloneIsCurrent
    <3> QED  BY <3>2, <3>3
  <2> QED  BY <2>2, <2>3
<1>8. ASSUME NEW r \in Requests, RequireAuth(r)
      PROVE  AloneIsCurrent'
  BY <1>8 DEF RequireAuth, Refused, NextStep, AccountsInv, AccountsTypeOK, Request,
     AloneIsCurrent, Shape, InFlight, AtStep, sessionVars
<1>9. ASSUME NEW r \in Requests, NEW s \in Sessions, CreateSession(r, s)
      PROVE  AloneIsCurrent'
  BY <1>9 DEF CreateSession, Reply, AccountsInv, AccountsTypeOK, AloneIsCurrent, Shape,
     InFlight
<1>10. ASSUME NEW r \in Requests, RotateSessionCsrf(r)
      PROVE  AloneIsCurrent'
  <2> SUFFICES ASSUME NEW x \in Requests, request'[x] # NoRequest,
                      request'[x].kind = "current", request'[x].alone
               PROVE  /\ \A y \in Requests \ {x} : request'[y] # NoRequest /\ request'[y].kind = "current" =>
                           request'[y].session # request'[x].session
                      /\ request'[x].step = "answer" => request'[x].token = csrf'[request'[x].session]
    BY DEF AloneIsCurrent, InFlight
  <2>1. \A y \in Requests : request'[y] # NoRequest =>
          /\ InFlight(y) /\ request'[y].session = request[y].session
          /\ request'[y].kind = request[y].kind /\ request'[y].alone = request[y].alone
    BY <1>10, RotateEffect DEF AccountsInv, InFlight
  <2>2. \A y \in Requests \ {x} : request'[y] # NoRequest /\ request'[y].kind = "current" =>
          request'[y].session # request'[x].session
    BY <2>1 DEF AccountsInv, AloneIsCurrent
  <2>3. CASE x = r
    BY <1>10, <2>2, <2>3, RotateEffect DEF AccountsInv
  <2>4. CASE x # r
    <3>1. request[x].session # request[r].session
      BY <1>10, <2>1, <2>4, RotateEffect DEF AccountsInv, AloneIsCurrent
    <3>2. request'[x] = request[x]
      BY <1>10, <2>4, RotateEffect DEF AccountsInv
    <3>3. request[x].step = "answer" => request[x].session \in Sessions
      BY <2>1 DEF AccountsInv, Shape
    <3>4. request[x].step = "answer" => request[x].token = csrf[request[x].session]
      BY <2>1 DEF AccountsInv, AloneIsCurrent
    <3> QED  BY <1>10, <2>2, <3>1, <3>2, <3>3, <3>4, RotateEffect DEF AccountsInv
  <2> QED  BY <2>3, <2>4
<1>11. ASSUME NEW r \in Requests, RevokeSession(r)
      PROVE  AloneIsCurrent'
  <2> SUFFICES ASSUME NEW x \in Requests, request'[x] # NoRequest,
                      request'[x].kind = "current", request'[x].alone
               PROVE  /\ \A y \in Requests \ {x} : request'[y] # NoRequest /\ request'[y].kind = "current" =>
                           request'[y].session # request'[x].session
                      /\ request'[x].step = "answer" => request'[x].token = csrf'[request'[x].session]
    BY DEF AloneIsCurrent, InFlight
  <2>1. \A y \in Requests : request'[y] # NoRequest /\ request'[y].kind = "current" =>
          request'[y] = request[y]
    BY <1>11 DEF Shape, RevokeSession, Reply, Refused, AtStep, InFlight, AccountsInv,
       AccountsTypeOK, Request
  <2>2. csrf' = csrf
    BY <1>11 DEF RevokeSession
  <2> QED  BY <2>1, <2>2 DEF AccountsInv, AloneIsCurrent, InFlight
<1>12. ASSUME NEW r \in Requests, Answer(r)
      PROVE  AloneIsCurrent'
  BY <1>12 DEF Answer, AccountsInv, AloneIsCurrent, Shape, InFlight, sessionVars
<1>13. ASSUME NEW r \in Requests, LoseConnection(r)
      PROVE  AloneIsCurrent'
  BY <1>13 DEF LoseConnection, AccountsInv, AccountsTypeOK, AloneIsCurrent, Shape, InFlight,
     sessionVars
<1>14. ASSUME NEW s \in Sessions, ExpireSession(s)
      PROVE  AloneIsCurrent'
  BY <1>14 DEF ExpireSession, AccountsInv, AloneIsCurrent, Shape, InFlight, requestVars
<1>15. ASSUME NEW s \in Sessions, LoseCsrfCookie(s)
      PROVE  AloneIsCurrent'
  BY <1>15 DEF LoseCsrfCookie, AccountsInv, AloneIsCurrent, Shape, InFlight, sessionVars,
     requestVars
<1>16. CASE PurgeExpiredSessions
  BY <1>16 DEF PurgeExpiredSessions, AccountsInv, AloneIsCurrent, Shape, InFlight, requestVars
<1>17. CASE UNCHANGED accountsVars
  BY <1>17 DEF accountsVars, AccountsInv, AloneIsCurrent, Shape, InFlight, sessionVars,
     requestVars
<1> QED
  BY <1>1, <1>2, <1>3, <1>4, <1>5, <1>6, <1>7, <1>8, <1>9, <1>10, <1>11, <1>12, <1>13, <1>14, <1>15, <1>16, <1>17
  DEF AccountsNext, ApiStep, RequestStep

-----------------------------------------------------------------------------
(***************************************************************************)
(* Theorems.                                                               *)
(***************************************************************************)

\* The inductive invariant holds through every restart of the API.
THEOREM AccountsInvCorrect == AccountsSpec => []AccountsInv
<1>1. AccountsInit => AccountsInv
  <2> SUFFICES ASSUME AccountsInit PROVE AccountsInv  OBVIOUS
  <2>1. AccountsTypeOK
    BY AccountsAssumption DEF AccountsInit, AccountsTypeOK, Tokens
  <2>2. \A r \in Requests : ~InFlight(r)
    BY DEF AccountsInit, InFlight
  <2>3. Configured /\ OrphansInFlight /\ NothingHeldEarly /\ SessionMatchesOwner
    BY DEF AccountsInit, Configured, OrphansInFlight, NothingHeldEarly, SessionMatchesOwner
  <2> QED  BY <2>1, <2>2, <2>3 DEF AccountsInv, Shape, LoginsCurrent, AloneIsCurrent, Attended
<1>2. AccountsInv /\ [AccountsNext]_accountsVars => AccountsInv'
  <2> SUFFICES ASSUME AccountsInv, [AccountsNext]_accountsVars PROVE AccountsInv'  OBVIOUS
  <2>1. AccountsTypeOK'
    <3>1. AccountsTypeOK /\ Configured /\ Shape
      BY DEF AccountsInv
    <3>2. CASE UNCHANGED accountsVars
      BY <3>1, <3>2 DEF AccountsTypeOK, accountsVars, accountVars, sessionVars, browserVars,
         requestVars
    <3>3. CASE AccountsNext
      BY <3>1, <3>3, ApiTypeStep, RequestTypeStep, TimeTypeStep DEF AccountsNext
    <3> QED  BY <3>2, <3>3
  <2> QED
    BY <2>1, ConfiguredStep, ShapeStep, OrphansInFlightStep, LoginsCurrentStep, NothingHeldEarlyStep,
       SessionMatchesOwnerStep, AloneIsCurrentStep DEF AccountsInv
<1> QED  BY <1>1, <1>2, PTL DEF AccountsSpec

\* No browser uses a session that was opened with other credentials than the owner's
\* present ones.
THEOREM SessionsMatch == AccountsSpec => []SessionMatchesOwner
<1>1. AccountsInv => SessionMatchesOwner
  BY DEF AccountsInv
<1> QED  BY <1>1, AccountsInvCorrect, PTL

\* A GET /session by itself leaves the browser with the token the database accepts.
THEOREM CsrfIsRepaired == AccountsSpec => CsrfRepaired
<1> DEFINE Repair == \A r \in Requests :
             Attended(r) /\ request[r].kind = "current" /\ request[r].alone
               /\ request[r].step = "answer" /\ Answer(r)
             => jar'[request[r].session] = csrf'[request[r].session]
<1>1. AccountsInv => Repair
  <2> SUFFICES ASSUME AccountsInv, NEW r \in Requests, InFlight(r), request[r].kind = "current",
                      request[r].alone, request[r].step = "answer", Answer(r)
               PROVE  jar'[request[r].session] = csrf'[request[r].session]
    BY DEF Attended
  <2>1. request[r].token = csrf[request[r].session] /\ request[r].session \in Sessions
    BY DEF AccountsInv, AloneIsCurrent, Shape
  <2>2. csrf' = csrf
    BY DEF Answer, sessionVars
  <2>3. jar' = [jar EXCEPT ![request[r].session] = request[r].token]
    BY DEF Answer
  <2> QED  BY <2>1, <2>2, <2>3 DEF AccountsInv, AccountsTypeOK
<1> QED  BY <1>1, AccountsInvCorrect, PTL DEF CsrfRepaired

=============================================================================
