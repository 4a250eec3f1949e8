------------------------------ MODULE Submissions ------------------------------
(***************************************************************************)
(* What POST /jobs promises the clients that repeat a request with its     *)
(* Idempotency-Key, without guard, locks, files or transactions: a key     *)
(* stands for one job, which is accepted once; a repetition is answered    *)
(* with that job or refused because of it; what a client was told stays    *)
(* true.  A client that lost its connection is told nothing, but its       *)
(* request may still be accepted.                                          *)
(***************************************************************************)
CONSTANTS UploadRequests, IdempotencyKeys, Bodies, NoKey, NoUpload  \* as in ImageUploads

VARIABLES
  key, body,  \* what a request asks for
  job,        \* "none", "active" or "terminal", for the request that was accepted
  reply,      \* "unasked", "awaited", "lost", or "job", "conflict" or "refused"
  told        \* the request whose job is meant by the reply "job"

vars == <<key, body, job, reply, told>>

SameKey(u) == {v \in UploadRequests : job[v] # "none" /\ key[v] = key[u] /\ key[u] # NoKey}

Reply(u, from, to) ==
  /\ reply[u] = from
  /\ reply' = [reply EXCEPT ![u] = to]

-----------------------------------------------------------------------------
Ask(u, k, b) ==
  /\ key' = [key EXCEPT ![u] = k]
  /\ body' = [body EXCEPT ![u] = b]
  /\ Reply(u, "unasked", "awaited")
  /\ UNCHANGED <<job, told>>

\* The first with its key; its client may be gone.
Accept(u) ==
  /\ job[u] = "none" /\ SameKey(u) = {}
  /\ job' = [job EXCEPT ![u] = "active"]
  /\ \/ Reply(u, "awaited", "job") /\ told' = [told EXCEPT ![u] = u]
     \/ Reply(u, "lost", "lost") /\ UNCHANGED told
  /\ UNCHANGED <<key, body>>

\* A repetition.
Repeat(u) ==
  /\ \E v \in SameKey(u) :
       \/ body[v] = body[u] /\ Reply(u, "awaited", "job") /\ told' = [told EXCEPT ![u] = v]
       \/ body[v] # body[u] /\ Reply(u, "awaited", "conflict") /\ UNCHANGED told
  /\ UNCHANGED <<key, body, job>>

RefuseOrLose(u) ==
  /\ Reply(u, "awaited", "refused") \/ Reply(u, "awaited", "lost")
  /\ UNCHANGED <<key, body, job, told>>

Terminate(u) ==
  /\ job[u] = "active"
  /\ job' = [job EXCEPT ![u] = "terminal"]
  /\ UNCHANGED <<key, body, reply, told>>

-----------------------------------------------------------------------------
Init ==
  /\ key = [u \in UploadRequests |-> NoKey]
  /\ body \in [UploadRequests -> Bodies]
  /\ job = [u \in UploadRequests |-> "none"]
  /\ reply = [u \in UploadRequests |-> "unasked"]
  /\ told = [u \in UploadRequests |-> NoUpload]

Next ==
  \E u \in UploadRequests :
    \/ \E k \in IdempotencyKeys \cup {NoKey}, b \in Bodies : Ask(u, k, b)
    \/ Accept(u) \/ Repeat(u) \/ RefuseOrLose(u) \/ Terminate(u)

Spec == Init /\ [][Next]_vars

=============================================================================
