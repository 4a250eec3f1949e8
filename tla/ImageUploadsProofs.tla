-------------------------- MODULE ImageUploadsProofs --------------------------
(***************************************************************************)
(* Proofs about ImageUploads, for any number of requests, keys and bodies, *)
(* any sizes and limits.                                                   *)
(*                                                                         *)
(* The lookup, the advisory lock and the insert are three statements, and  *)
(* the request may be gone at any of them.  KeyFree says what the lock is  *)
(* for: while a transaction has it, also one whose COMMIT nobody waits for *)
(* any more, no job carries its key and no other transaction is about to   *)
(* insert one.  Staged says when a request's files are all there.          *)
(***************************************************************************)
EXTENDS ImageUploads, Sums

\* The part of the type invariant that the keys and the files need.
SubmissionTypes ==
  /\ submission \in [UploadRequests -> Stages]
  /\ key \in [UploadRequests -> IdempotencyKeys \cup {NoKey}]
  /\ body \in [UploadRequests -> Bodies]
  /\ chunks \in [UploadRequests -> Nat]
  /\ created \in [UploadRequests -> {"none", "active", "terminal"}]
  /\ answer \in [UploadRequests -> UploadRequests \cup {NoUpload}]

Uncommitted == {"idle", "writing", "staging", "found_none", "counted", "creating", "sent"}

\* A request that is not over has no job, one that is beyond staging all its files.
Staged ==
  \A u \in UploadRequests :
    /\ submission[u] \in Uncommitted => created[u] = "none"
    /\ submission[u] \in {"found_none", "counted", "creating", "sent"} =>
         chunks[u] = BodySize[body[u]]

\* v's job carries the idempotency key of u.
Carries(v, u) == created[v] # "none" /\ key[v] = key[u] /\ key[u] # NoKey

Inserting(u) == submission[u] \in {"creating", "sent"}

\* What the advisory lock of a key keeps.
KeyFree ==
  \A u \in UploadRequests : Inserting(u) =>
    \A v \in UploadRequests :
      /\ ~Carries(v, u)
      /\ v # u /\ Inserting(v) /\ key[v] = key[u] => key[u] = NoKey

OneJobPerKey ==
  \A u, v \in UploadRequests : created[u] # "none" /\ Carries(v, u) => u = v

\* What a client was told.
AnswersRight ==
  \A u \in UploadRequests :
    /\ submission[u] # "duplicate"
    /\ submission[u] = "answered" =>
         /\ answer[u] \in UploadRequests
         /\ created[answer[u]] # "none"
         /\ answer[u] # u => Carries(answer[u], u)
         /\ body[answer[u]] = body[u]
    /\ submission[u] = "conflict" =>
         \E v \in UploadRequests : Carries(v, u) /\ body[v] # body[u]

UploadsInv ==
  SubmissionTypes /\ Staged /\ CommittedInputsKept /\ KeyFree /\ OneJobPerKey /\ AnswersRight

-----------------------------------------------------------------------------
\* Membership in SameKey.
LEMMA SameKeyCarries ==
  ASSUME NEW u \in UploadRequests, NEW v
  PROVE  v \in SameKey(u) <=> v \in UploadRequests /\ Carries(v, u)
  BY DEF SameKey, Carries

\* Without a job on its key no job carries it.
LEMMA NoSameKey ==
  ASSUME NEW u \in UploadRequests
  PROVE  SameKey(u) = {} <=> \A v \in UploadRequests : ~Carries(v, u)
  BY DEF SameKey, Carries

\* Stages by group.
LEMMA StageFacts ==
  /\ UnderGuard \subseteq Uncommitted /\ UnderGuard \subseteq Stages
  /\ Uncommitted \subseteq Stages /\ Ended \subseteq Stages
  /\ Ended \cap Uncommitted = {}
  BY DEF UnderGuard, Uncommitted, Stages, Ended

-----------------------------------------------------------------------------
(***************************************************************************)
(* Two kinds of steps.                                                     *)
(***************************************************************************)

\* Steps of u that create no job: its stage, its answer and its files may change, but
\* not what it asks for.  Removing files takes a stage that has none to lose.
LEMMA StepWithoutJob ==
  ASSUME UploadsInv, NEW u \in UploadRequests, NEW stage \in Stages,
         submission' = [submission EXCEPT ![u] = stage],
         UNCHANGED <<key, body>>,
         \A v \in UploadRequests : created'[v] = "none" <=> created[v] = "none",
         created' \in [UploadRequests -> {"none", "active", "terminal"}],
         chunks' \in [UploadRequests -> Nat],
         \A v \in UploadRequests \ {u} : chunks'[v] = chunks[v],
         answer' \in [UploadRequests -> UploadRequests \cup {NoUpload}],
         \A v \in UploadRequests \ {u} : answer'[v] = answer[v],
         stage \in Uncommitted => created[u] = "none",
         created[u] # "none" => chunks'[u] = chunks[u],
         stage \in {"found_none", "counted", "creating", "sent"} => chunks'[u] = BodySize[body[u]],
         stage \in {"creating", "sent"} => \A v \in UploadRequests :
           /\ ~Carries(v, u)
           /\ v # u /\ Inserting(v) /\ key[v] = key[u] => key[u] = NoKey,
         stage # "duplicate",
         stage = "answered" => /\ answer'[u] \in UploadRequests
                               /\ created[answer'[u]] # "none"
                               /\ answer'[u] # u => Carries(answer'[u], u)
                               /\ body[answer'[u]] = body[u],
         stage = "conflict" => \E v \in UploadRequests : Carries(v, u) /\ body[v] # body[u]
  PROVE  UploadsInv'
<1>1. /\ submission'[u] = stage
      /\ \A v \in UploadRequests \ {u} : submission'[v] = submission[v]
  BY DEF UploadsInv, SubmissionTypes
<1>2. SubmissionTypes'
  BY DEF UploadsInv, SubmissionTypes
<1>3. \A v, w \in UploadRequests : Carries(v, w)' <=> Carries(v, w)
  BY DEF Carries
<1>4. Staged'
  BY <1>1 DEF UploadsInv, Staged
<1>5. CommittedInputsKept'
  BY DEF UploadsInv, CommittedInputsKept
<1>6. KeyFree'
  <2> SUFFICES ASSUME NEW x \in UploadRequests, Inserting(x)', NEW v \in UploadRequests
               PROVE  /\ ~Carries(v, x)
                      /\ v # x /\ Inserting(v)' /\ key[v] = key[x] => key[x] = NoKey
    BY <1>3 DEF KeyFree
  <2>1. CASE x = u
    BY <1>1, <2>1 DEF Inserting
  <2>2. CASE x # u
    BY <1>1, <2>2 DEF UploadsInv, KeyFree, Inserting
  <2> QED  BY <2>1, <2>2
<1>7. OneJobPerKey'
  BY <1>3 DEF UploadsInv, OneJobPerKey
<1>8. AnswersRight'
  <2> SUFFICES ASSUME NEW x \in UploadRequests
               PROVE  /\ submission'[x] # "duplicate"
                      /\ submission'[x] = "answered" =>
                           /\ answer'[x] \in UploadRequests
                           /\ created'[answer'[x]] # "none"
                           /\ answer'[x] # x => Carries(answer'[x], x)
                           /\ body[answer'[x]] = body[x]
                      /\ submission'[x] = "conflict" =>
                           \E v \in UploadRequests : Carries(v, x) /\ body[v] # body[x]
    BY <1>3 DEF AnswersRight
  <2>1. CASE x = u
    BY <1>1, <2>1
  <2>2. CASE x # u
    BY <1>1, <2>2 DEF UploadsInv, AnswersRight
  <2> QED  BY <2>1, <2>2
<1> QED  BY <1>2, <1>4, <1>5, <1>6, <1>7, <1>8 DEF UploadsInv

\* The insert of u takes effect, whether anybody is left to be answered or not.
LEMMA StepWithJob ==
  ASSUME UploadsInv, NEW u \in UploadRequests, Inserting(u), NEW stage \in {"answered", "dropped"},
         submission' = [submission EXCEPT ![u] = stage],
         created' = [created EXCEPT ![u] = "active"],
         answer' = [answer EXCEPT ![u] = IF stage = "answered" THEN u ELSE answer[u]],
         UNCHANGED <<key, body, chunks>>
  PROVE  UploadsInv'
<1>1. /\ submission'[u] = stage /\ created'[u] = "active" /\ created[u] = "none"
      /\ stage = "answered" => answer'[u] = u
      /\ \A v \in UploadRequests \ {u} :
           submission'[v] = submission[v] /\ created'[v] = created[v] /\ answer'[v] = answer[v]
  BY DEF UploadsInv, SubmissionTypes, Staged, Inserting, Uncommitted
<1>2. SubmissionTypes'
  BY StageFacts DEF UploadsInv, SubmissionTypes, Ended
<1>3. \A v, w \in UploadRequests : v # u => (Carries(v, w)' <=> Carries(v, w))
  BY <1>1 DEF Carries
<1>4. \A w \in UploadRequests : Carries(u, w)' <=> key[u] = key[w] /\ key[w] # NoKey
  BY <1>1 DEF Carries
<1>5. Staged' /\ CommittedInputsKept'
  BY <1>1 DEF UploadsInv, Staged, CommittedInputsKept, Inserting, Uncommitted
<1>6. KeyFree'
  <2> SUFFICES ASSUME NEW x \in UploadRequests, Inserting(x)', NEW v \in UploadRequests
               PROVE  /\ ~Carries(v, x)'
                      /\ v # x /\ Inserting(v)' /\ key[v] = key[x] => key[x] = NoKey
    BY DEF KeyFree
  <2>1. x # u /\ Inserting(x)
    BY <1>1 DEF Inserting
  <2>2. key[u] = key[x] => key[x] = NoKey
    BY <2>1 DEF UploadsInv, KeyFree
  <2>3. ~Carries(v, x)'
    BY <1>3, <1>4, <2>1, <2>2 DEF UploadsInv, KeyFree
  <2>4. Inserting(v)' => Inserting(v)
    BY <1>1 DEF Inserting
  <2> QED  BY <2>1, <2>3, <2>4 DEF UploadsInv, KeyFree
<1>7. OneJobPerKey'
  <2> SUFFICES ASSUME NEW x \in UploadRequests, NEW v \in UploadRequests,
                      created'[x] # "none", Carries(v, x)'
               PROVE  x = v
    BY DEF OneJobPerKey
  <2>1. \A w \in UploadRequests : ~Carries(w, u)
    BY DEF UploadsInv, KeyFree
  <2>2. CASE x = u
    <3>1. ~Carries(v, x)
      BY <2>1, <2>2
    <3> QED  BY <1>3, <2>2, <3>1
  <2>3. CASE x # u
    <3>1. CASE v = u
      <4>1. key[u] = key[x] /\ key[x] # NoKey /\ created[x] # "none"
        BY <1>1, <1>4, <2>3, <3>1
      <4>2. Carries(x, u)
        BY <4>1 DEF Carries
      <4> QED  BY <2>1, <4>2
    <3>2. CASE v # u
      BY <1>1, <1>3, <2>3, <3>2 DEF UploadsInv, OneJobPerKey
    <3> QED  BY <3>1, <3>2
  <2> QED  BY <2>2, <2>3
<1>8. AnswersRight'
  <2> SUFFICES ASSUME NEW x \in UploadRequests
               PROVE  /\ submission'[x] # "duplicate"
                      /\ submission'[x] = "answered" =>
                           /\ answer'[x] \in UploadRequests
                           /\ created'[answer'[x]] # "none"
                           /\ answer'[x] # x => Carries(answer[x], x)'
                           /\ body[answer'[x]] = body[x]
                      /\ submission'[x] = "conflict" =>
                           \E v \in UploadRequests : Carries(v, x)' /\ body[v] # body[x]
    BY DEF AnswersRight
  <2>1. CASE x = u
    BY <1>1, <2>1
  <2>2. CASE x # u
    <3>1. submission'[x] = submission[x] /\ answer'[x] = answer[x]
      BY <1>1, <2>2
    <3>2. \A v \in UploadRequests : Carries(v, x) => Carries(v, x)'
      BY <1>1 DEF Carries
    <3>3. \A v \in UploadRequests : created[v] # "none" => created'[v] # "none"
      BY <1>1
    <3>4. answer[x] \in UploadRequests /\ Carries(answer[x], x) => Carries(answer[x], x)'
      BY <3>1, <3>2 DEF Carries
    <3> QED  BY <3>1, <3>2, <3>3, <3>4 DEF UploadsInv, AnswersRight
  <2> QED  BY <2>1, <2>2
<1> QED  BY <1>2, <1>5, <1>6, <1>7, <1>8 DEF UploadsInv

-----------------------------------------------------------------------------
(***************************************************************************)
(* Every step.                                                             *)
(***************************************************************************)

\* A new request takes an identity nobody refers to.
LEMMA BeginStep ==
  ASSUME UploadsInv, NEW u \in UploadRequests, NEW k \in IdempotencyKeys \cup {NoKey},
         NEW b \in Bodies, BeginSubmission(u, k, b)
  PROVE  UploadsInv'
<1>1. /\ submission[u] = "idle" /\ created[u] = "none"
      /\ submission' = [submission EXCEPT ![u] = "staging"]
      /\ key' = [key EXCEPT ![u] = k] /\ body' = [body EXCEPT ![u] = b]
      /\ UNCHANGED <<chunks, created, answer>>
  BY DEF BeginSubmission, UploadsInv, Staged, Uncommitted
<1>2. SubmissionTypes'
  BY <1>1 DEF UploadsInv, SubmissionTypes, Stages, UnderGuard
<1>3. /\ submission'[u] = "staging"
      /\ \A v \in UploadRequests \ {u} :
           submission'[v] = submission[v] /\ key'[v] = key[v] /\ body'[v] = body[v]
  BY <1>1 DEF UploadsInv, SubmissionTypes
<1>4. \A v \in UploadRequests : ~Carries(u, v) /\ ~Carries(u, v)'
  BY <1>1 DEF Carries
<1>5. \A v \in UploadRequests \ {u}, w \in UploadRequests \ {u} : Carries(v, w)' <=> Carries(v, w)
  BY <1>1, <1>3 DEF Carries
<1>6. Staged' /\ CommittedInputsKept'
  BY <1>1, <1>3 DEF UploadsInv, Staged, CommittedInputsKept, Uncommitted
<1>7. KeyFree'
  <2>1. \A v \in UploadRequests : Inserting(v)' => v # u /\ Inserting(v)
    BY <1>3 DEF Inserting
  <2>2. \A v, w \in UploadRequests : w # u /\ Carries(v, w)' => Carries(v, w)
    BY <1>4, <1>5
  <2> QED  BY <1>3, <2>1, <2>2 DEF UploadsInv, KeyFree
<1>8. OneJobPerKey'
  BY <1>1, <1>4, <1>5 DEF UploadsInv, OneJobPerKey
<1>9. AnswersRight'
  <2> SUFFICES ASSUME NEW x \in UploadRequests
               PROVE  /\ submission'[x] # "duplicate"
                      /\ submission'[x] = "answered" =>
                           /\ answer'[x] \in UploadRequests
                           /\ created'[answer'[x]] # "none"
                           /\ answer'[x] # x => Carries(answer[x], x)'
                           /\ body'[answer'[x]] = body'[x]
                      /\ submission'[x] = "conflict" =>
                           \E v \in UploadRequests : Carries(v, x)' /\ body'[v] # body'[x]
    BY DEF AnswersRight
  <2>1. CASE x = u
    BY <1>3, <2>1
  <2>2. CASE x # u /\ submission[x] = "answered"
    <3>1. /\ answer[x] \in UploadRequests \ {u}
          /\ answer[x] # x => Carries(answer[x], x)
          /\ created[answer[x]] # "none" /\ body[answer[x]] = body[x]
      BY <1>1, <2>2 DEF UploadsInv, AnswersRight
    <3>2. answer[x] # x => Carries(answer[x], x)'
      BY <1>1, <1>3, <2>2, <3>1 DEF Carries
    <3> QED  BY <1>1, <1>3, <2>2, <3>1, <3>2
  <2>3. CASE x # u /\ submission[x] = "conflict"
    <3>1. PICK v \in UploadRequests : Carries(v, x) /\ body[v] # body[x]
      BY <2>3 DEF UploadsInv, AnswersRight
    <3>2. v # u
      BY <1>4, <3>1
    <3> QED  BY <1>3, <1>5, <2>3, <3>1, <3>2
  <2>4. CASE x # u /\ submission[x] \notin {"answered", "conflict"}
    BY <1>3, <2>4 DEF UploadsInv, AnswersRight
  <2> QED  BY <2>1, <2>2, <2>3, <2>4
<1> QED  BY <1>2, <1>6, <1>7, <1>8, <1>9 DEF UploadsInv

\* An end without a job: only of a request that has none.
LEMMA EndWithoutStep ==
  ASSUME UploadsInv, NEW u \in UploadRequests, NEW stage \in {"answered", "refused", "conflict"},
         created[u] = "none", EndWithout(u, stage),
         answer' \in [UploadRequests -> UploadRequests \cup {NoUpload}],
         \A v \in UploadRequests \ {u} : answer'[v] = answer[v],
         stage = "answered" => /\ answer'[u] \in UploadRequests
                               /\ Carries(answer'[u], u)
                               /\ body[answer'[u]] = body[u],
         stage = "conflict" => \E v \in UploadRequests : Carries(v, u) /\ body[v] # body[u]
  PROVE  UploadsInv'
<1>1. /\ submission' = [submission EXCEPT ![u] = stage]
      /\ UNCHANGED <<key, body, created>>
      /\ chunks' = [chunks EXCEPT ![u] = 0] \/ UNCHANGED chunks
  BY DEF EndWithout
<1>2. chunks' \in [UploadRequests -> Nat] /\ \A v \in UploadRequests \ {u} : chunks'[v] = chunks[v]
  BY <1>1 DEF UploadsInv, SubmissionTypes
<1>3. stage \in Stages /\ stage \notin Uncommitted
  BY DEF Stages, Ended, Uncommitted
<1>4. stage = "answered" => created[answer'[u]] # "none"
  BY DEF Carries
<1>5. created' \in [UploadRequests -> {"none", "active", "terminal"}]
  BY <1>1 DEF UploadsInv, SubmissionTypes
<1> HIDE DEF EndWithout
<1> QED  BY <1>1, <1>2, <1>3, <1>4, <1>5, StepWithoutJob

\* Nothing but the stage of a request without a job changes.
LEMMA StageStep ==
  ASSUME UploadsInv, NEW u \in UploadRequests, created[u] = "none",
         NEW stage \in {"writing", "staging", "found_none", "counted", "creating", "sent", "dropped", "conflict"},
         submission' = [submission EXCEPT ![u] = stage],
         UNCHANGED <<key, body, chunks, created, answer>>,
         stage \in {"found_none", "counted", "creating", "sent"} => chunks[u] = BodySize[body[u]],
         stage \in {"creating", "sent"} => \A v \in UploadRequests :
           /\ ~Carries(v, u)
           /\ v # u /\ Inserting(v) /\ key[v] = key[u] => key[u] = NoKey,
         stage = "conflict" => \E v \in UploadRequests : Carries(v, u) /\ body[v] # body[u]
  PROVE  UploadsInv'
<1>1. stage \in Stages /\ stage # "duplicate" /\ stage # "answered"
  BY DEF Stages, Ended, UnderGuard
<1>2. /\ created' \in [UploadRequests -> {"none", "active", "terminal"}]
      /\ chunks' \in [UploadRequests -> Nat]
      /\ answer' \in [UploadRequests -> UploadRequests \cup {NoUpload}]
  BY DEF UploadsInv, SubmissionTypes
<1> QED  BY <1>1, <1>2, StepWithoutJob

\* Staging, and the lookup and the count before the transaction.
LEMMA BeforeTransaction ==
  ASSUME UploadsInv, NEW u \in UploadRequests,
         WriteChunk(u) \/ RefuseSubmission(u) \/ FindIdempotentImageJob(u) \/ CountActiveJobs(u)
  PROVE  UploadsInv'
<1>0. submission[u] \in {"staging", "found_none"} => created[u] = "none"
  BY DEF UploadsInv, Staged, Uncommitted
<1>1. CASE WriteChunk(u)
  <2>1. /\ submission[u] = "staging" /\ submission' = [submission EXCEPT ![u] = "staging"]
        /\ chunks' = [chunks EXCEPT ![u] = chunks[u] + 1]
        /\ UNCHANGED <<key, body, created, answer>>
    BY <1>1 DEF WriteChunk, UploadsInv, SubmissionTypes
  <2>2. chunks' \in [UploadRequests -> Nat] /\ \A v \in UploadRequests \ {u} : chunks'[v] = chunks[v]
    BY <2>1 DEF UploadsInv, SubmissionTypes
  <2>3. /\ created' \in [UploadRequests -> {"none", "active", "terminal"}]
        /\ answer' \in [UploadRequests -> UploadRequests \cup {NoUpload}]
    BY <2>1 DEF UploadsInv, SubmissionTypes
  <2>4. "staging" \in Stages
    BY DEF Stages, UnderGuard
  <2> QED  BY <1>0, <2>1, <2>2, <2>3, <2>4, StepWithoutJob
<1>2. CASE RefuseSubmission(u)
  <2>1. submission[u] \in {"staging", "found_none"} /\ EndWithout(u, "refused") /\ answer' = answer
    BY <1>2 DEF RefuseSubmission
  <2>2. answer' \in [UploadRequests -> UploadRequests \cup {NoUpload}]
    BY <2>1 DEF UploadsInv, SubmissionTypes
  <2> QED  BY <1>0, <2>1, <2>2, EndWithoutStep
<1>3. CASE FindIdempotentImageJob(u)
  <2>1. submission[u] = "staging" /\ chunks[u] = BodySize[body[u]]
    BY <1>3 DEF FindIdempotentImageJob
  <2>2. CASE submission' = [submission EXCEPT ![u] = "found_none"] /\ UNCHANGED <<key, body, chunks, created, answer>>
    BY <1>0, <2>1, <2>2, StageStep
  <2>3. ASSUME NEW v \in SameKey(u), body[v] = body[u], answer' = [answer EXCEPT ![u] = v], EndWithout(u, "answered")
        PROVE  UploadsInv'
    <3>1. v \in UploadRequests /\ Carries(v, u)
      BY <2>3, SameKeyCarries
    <3>2. /\ answer' \in [UploadRequests -> UploadRequests \cup {NoUpload}]
          /\ answer'[u] = v /\ \A x \in UploadRequests \ {u} : answer'[x] = answer[x]
      BY <2>3, <3>1 DEF UploadsInv, SubmissionTypes
    <3> QED  BY <1>0, <2>1, <2>3, <3>1, <3>2, EndWithoutStep
  <2>4. ASSUME NEW v \in SameKey(u), body[v] # body[u], EndWithout(u, "conflict"), answer' = answer
        PROVE  UploadsInv'
    <3>1. v \in UploadRequests /\ Carries(v, u)
      BY <2>4, SameKeyCarries
    <3>2. answer' \in [UploadRequests -> UploadRequests \cup {NoUpload}]
      BY <2>4 DEF UploadsInv, SubmissionTypes
    <3> QED  BY <1>0, <2>1, <2>4, <3>1, <3>2, EndWithoutStep
  <2> QED  BY <1>3, <2>2, <2>3, <2>4 DEF FindIdempotentImageJob
<1>4. CASE CountActiveJobs(u)
  <2>1. submission[u] = "found_none" /\ answer' = answer
    BY <1>4 DEF CountActiveJobs
  <2>2. chunks[u] = BodySize[body[u]]
    BY <2>1 DEF UploadsInv, Staged
  <2>3. CASE submission' = [submission EXCEPT ![u] = "counted"] /\ UNCHANGED <<key, body, chunks, created>>
    BY <1>0, <2>1, <2>2, <2>3, StageStep
  <2>4. CASE EndWithout(u, "refused")
    <3>1. answer' \in [UploadRequests -> UploadRequests \cup {NoUpload}]
      BY <2>1 DEF UploadsInv, SubmissionTypes
    <3> QED  BY <1>0, <2>1, <2>4, <3>1, EndWithoutStep
  <2> QED  BY <1>4, <2>3, <2>4 DEF CountActiveJobs
<1> QED  BY <1>1, <1>2, <1>3, <1>4

\* The advisory lock and the lookup under it.
LEMMA OpenCreateStep ==
  ASSUME UploadsInv, NEW u \in UploadRequests, OpenCreate(u)
  PROVE  UploadsInv'
<1>1. submission[u] = "counted" /\ ~KeyLocked(u)
  BY DEF OpenCreate
<1>2. created[u] = "none" /\ chunks[u] = BodySize[body[u]]
  BY <1>1 DEF UploadsInv, Staged, Uncommitted
<1>3. CASE /\ SameKey(u) = {}
           /\ submission' = [submission EXCEPT ![u] = "creating"]
           /\ UNCHANGED <<key, body, chunks, created, answer>>
  <2>1. \A v \in UploadRequests : ~Carries(v, u)
    BY <1>3, NoSameKey
  <2>2. \A v \in UploadRequests : v # u /\ Inserting(v) /\ key[v] = key[u] => key[u] = NoKey
    BY <1>1 DEF KeyLocked, Inserting
  <2> QED  BY <1>2, <1>3, <2>1, <2>2, StageStep
<1>4. ASSUME NEW v \in SameKey(u), body[v] = body[u], EndTransaction(u, "answered"),
             answer' = [answer EXCEPT ![u] = v], UNCHANGED created
      PROVE  UploadsInv'
  <2>1. v \in UploadRequests /\ Carries(v, u)
    BY <1>4, SameKeyCarries
  <2>2. /\ submission' = [submission EXCEPT ![u] = "answered"] /\ UNCHANGED <<key, body, chunks>>
    BY <1>4 DEF EndTransaction
  <2>3. /\ answer' \in [UploadRequests -> UploadRequests \cup {NoUpload}]
        /\ answer'[u] = v /\ \A x \in UploadRequests \ {u} : answer'[x] = answer[x]
    BY <1>4, <2>1 DEF UploadsInv, SubmissionTypes
  <2>4. /\ created' \in [UploadRequests -> {"none", "active", "terminal"}]
        /\ chunks' \in [UploadRequests -> Nat]
    BY <1>4, <2>2 DEF UploadsInv, SubmissionTypes
  <2>5. "answered" \in Stages /\ "answered" \notin Uncommitted /\ created[v] # "none"
    BY <2>1 DEF Stages, Ended, Uncommitted, Carries
  <2> QED  BY <1>2, <1>4, <2>1, <2>2, <2>3, <2>4, <2>5, StepWithoutJob
<1>5. ASSUME NEW v \in SameKey(u), body[v] # body[u], EndTransaction(u, "conflict"),
             UNCHANGED <<created, answer>>
      PROVE  UploadsInv'
  <2>1. v \in UploadRequests /\ Carries(v, u)
    BY <1>5, SameKeyCarries
  <2>2. /\ submission' = [submission EXCEPT ![u] = "conflict"] /\ UNCHANGED <<key, body, chunks>>
    BY <1>5 DEF EndTransaction
  <2> QED  BY <1>2, <1>5, <2>1, <2>2, StageStep
<1> QED  BY <1>3, <1>4, <1>5 DEF OpenCreate

\* The insert, answered or not.
LEMMA CommitStep ==
  ASSUME UploadsInv, NEW u \in UploadRequests, CommitCreate(u) \/ LateCommit(u)
  PROVE  UploadsInv'
<1>1. Inserting(u) /\ created[u] = "none"
  BY DEF CommitCreate, LateCommit, Inserting, UploadsInv, Staged, Uncommitted
<1>2. SameKey(u) = {}
  BY <1>1, NoSameKey DEF UploadsInv, KeyFree
<1>3. CASE CommitCreate(u)
  <2>1. /\ submission' = [submission EXCEPT ![u] = "answered"]
        /\ created' = [created EXCEPT ![u] = "active"]
        /\ answer' = [answer EXCEPT ![u] = u]
        /\ UNCHANGED <<key, body, chunks>>
    BY <1>2, <1>3 DEF CommitCreate, Insert, EndTransaction
  <2> QED  BY <1>1, <2>1, StepWithJob
<1>4. CASE LateCommit(u)
  <2>1. /\ submission' = [submission EXCEPT ![u] = "dropped"] /\ UNCHANGED <<key, body, chunks, answer>>
        /\ created' = [created EXCEPT ![u] = "active"] \/ UNCHANGED created
    BY <1>2, <1>4 DEF LateCommit
  <2>2. CASE UNCHANGED created
    BY <1>1, <2>1, <2>2, StageStep
  <2>3. CASE created' = [created EXCEPT ![u] = "active"]
    <3>1. answer' = [answer EXCEPT ![u] = answer[u]]
      BY <2>1 DEF UploadsInv, SubmissionTypes
    <3> QED  BY <1>1, <2>1, <2>3, <3>1, StepWithJob
  <2> QED  BY <2>1, <2>2, <2>3
<1> QED  BY <1>3, <1>4

\* What happens to requests and files outside the handler.
LEMMA OutsideStep ==
  ASSUME UploadsInv, NEW u \in UploadRequests,
         DropSubmission(u) \/ LateChunk(u) \/ RemoveUnreferenced(u) \/ JobTerminates(u)
  PROVE  UploadsInv'
<1>1. CASE DropSubmission(u)
  <2>1. /\ submission[u] \in UnderGuard
        /\ UNCHANGED <<key, body, chunks, created, answer>>
    BY <1>1 DEF DropSubmission
  <2>2. created[u] = "none"
    BY <2>1, StageFacts DEF UploadsInv, Staged
  <2>3. CASE \E stage \in {"dropped", "writing"} : submission' = [submission EXCEPT ![u] = stage]
    BY <2>1, <2>2, <2>3, StageStep
  <2>4. CASE submission[u] = "creating" /\ submission' = [submission EXCEPT ![u] = "sent"]
    <3>1. chunks[u] = BodySize[body[u]]
      BY <2>4 DEF UploadsInv, Staged
    <3>2. \A v \in UploadRequests :
            /\ ~Carries(v, u)
            /\ v # u /\ Inserting(v) /\ key[v] = key[u] => key[u] = NoKey
      BY <2>4 DEF UploadsInv, KeyFree, Inserting
    <3> QED  BY <2>1, <2>2, <2>4, <3>1, <3>2, StageStep
  <2> QED  BY <1>1, <2>3, <2>4 DEF DropSubmission
<1>2. CASE LateChunk(u)
  <2>1. /\ submission[u] = "writing" /\ submission' = [submission EXCEPT ![u] = "dropped"]
        /\ chunks' = [chunks EXCEPT ![u] = chunks[u] + 1] \/ UNCHANGED chunks
        /\ UNCHANGED <<key, body, created, answer>>
    BY <1>2 DEF LateChunk
  <2>2. created[u] = "none"
    BY <2>1 DEF UploadsInv, Staged, Uncommitted
  <2>3. chunks' \in [UploadRequests -> Nat] /\ \A v \in UploadRequests \ {u} : chunks'[v] = chunks[v]
    BY <2>1 DEF UploadsInv, SubmissionTypes
  <2>4. /\ created' \in [UploadRequests -> {"none", "active", "terminal"}]
        /\ answer' \in [UploadRequests -> UploadRequests \cup {NoUpload}]
    BY <2>1 DEF UploadsInv, SubmissionTypes
  <2>5. "dropped" \in Stages /\ "dropped" \notin Uncommitted
    BY DEF Stages, Ended, Uncommitted
  <2> QED  BY <2>1, <2>2, <2>3, <2>4, <2>5, StepWithoutJob
<1>3. CASE RemoveUnreferenced(u) \/ JobTerminates(u)
  <2>1. UNCHANGED <<submission, key, body, answer>>
    BY <1>3 DEF RemoveUnreferenced, JobTerminates
  <2>2. /\ chunks' \in [UploadRequests -> Nat]
        /\ \A v \in UploadRequests : created[v] # "none" => chunks'[v] = chunks[v]
        /\ \A v \in UploadRequests : submission[v] \in Uncommitted => chunks'[v] = chunks[v]
    BY <1>3, StageFacts DEF RemoveUnreferenced, JobTerminates, UploadsInv, SubmissionTypes
  <2>3. /\ created' \in [UploadRequests -> {"none", "active", "terminal"}]
        /\ \A v \in UploadRequests : created'[v] = "none" <=> created[v] = "none"
    BY <1>3 DEF RemoveUnreferenced, JobTerminates, UploadsInv, SubmissionTypes
  <2>4. \A v, w \in UploadRequests : Carries(v, w)' <=> Carries(v, w)
    BY <2>1, <2>3 DEF Carries
  <2>5. SubmissionTypes'
    BY <2>1, <2>2, <2>3 DEF UploadsInv, SubmissionTypes
  <2>6. Staged' /\ CommittedInputsKept'
    BY <2>1, <2>2, <2>3 DEF UploadsInv, Staged, CommittedInputsKept, Uncommitted
  <2>7. KeyFree' /\ OneJobPerKey'
    BY <2>1, <2>3, <2>4 DEF UploadsInv, KeyFree, OneJobPerKey, Inserting
  <2>8. AnswersRight'
    BY <2>1, <2>3, <2>4 DEF UploadsInv, AnswersRight
  <2> QED  BY <2>5, <2>6, <2>7, <2>8 DEF UploadsInv
<1> QED  BY <1>1, <1>2, <1>3

-----------------------------------------------------------------------------
(***************************************************************************)
(* Theorems.                                                               *)
(***************************************************************************)

\* The inductive invariant: KeyFree and Staged carry the other parts.
THEOREM UploadsInvCorrect == UploadsSpec => []UploadsInv
<1>1. UploadsInit => UploadsInv
  <2> SUFFICES ASSUME UploadsInit PROVE UploadsInv  OBVIOUS
  <2>1. SubmissionTypes
    <3>1. (CHOOSE b \in Bodies : TRUE) \in Bodies
      BY UploadsAssumption
    <3> QED  BY <3>1 DEF UploadsInit, SubmissionTypes, Stages
  <2>2. \A u \in UploadRequests : submission[u] = "idle" /\ created[u] = "none"
    BY DEF UploadsInit
  <2> QED
    BY <2>1, <2>2
    DEF UploadsInv, Staged, CommittedInputsKept, KeyFree, OneJobPerKey, AnswersRight, Inserting, Carries
<1>2. UploadsInv /\ [UploadsNext]_uploadsVars => UploadsInv'
  <2> SUFFICES ASSUME UploadsInv, [UploadsNext]_uploadsVars PROVE UploadsInv'  OBVIOUS
  <2>1. CASE UNCHANGED uploadVars
    <3>1. UNCHANGED <<submission, key, body, chunks, created, answer>>
      BY <2>1 DEF uploadVars
    <3>2. \A v, w \in UploadRequests : Carries(v, w)' <=> Carries(v, w)
      BY <3>1 DEF Carries
    <3>3. SubmissionTypes' /\ Staged' /\ CommittedInputsKept'
      BY <3>1 DEF UploadsInv, SubmissionTypes, Staged, CommittedInputsKept
    <3>4. KeyFree' /\ OneJobPerKey'
      BY <3>1, <3>2 DEF UploadsInv, KeyFree, OneJobPerKey, Inserting
    <3>5. AnswersRight'
      BY <3>1, <3>2 DEF UploadsInv, AnswersRight
    <3> QED  BY <3>3, <3>4, <3>5 DEF UploadsInv
  <2>2. CASE UNCHANGED uploadsVars \/ BypassingJobs \/ WriteOutputFile \/ MeasureOutput \/ RemoveOutput
    <3>1. UNCHANGED uploadVars
      BY <2>2 DEF uploadsVars, BypassingJobs, WriteOutputFile, MeasureOutput, RemoveOutput
    <3> QED  BY <2>1, <3>1
  <2>3. ASSUME NEW u \in UploadRequests, SubmissionStep(u)
        PROVE  UploadsInv'
    BY <2>3, BeginStep, BeforeTransaction, OpenCreateStep, CommitStep, OutsideStep DEF SubmissionStep
  <2> QED  BY <2>2, <2>3 DEF UploadsNext
<1> QED  BY <1>1, <1>2, PTL DEF UploadsSpec

\* No committed job ever misses a part of its input.
THEOREM CommittedInputsStay == UploadsSpec => []CommittedInputsKept
<1>1. UploadsInv => CommittedInputsKept
  BY DEF UploadsInv
<1> QED  BY <1>1, UploadsInvCorrect, PTL

\* One job per key, and the right answer to every repetition.
THEOREM AnswersAgree == UploadsSpec => []OneAnswerPerKey
<1>1. ASSUME UploadsInv, NEW u \in UploadRequests
      PROVE  Cardinality(SameKey(u)) <= 1
  <2>1. \A v, w \in SameKey(u) : v = w
    <3> SUFFICES ASSUME NEW v \in SameKey(u), NEW w \in SameKey(u) PROVE v = w  OBVIOUS
    <3>1. /\ v \in UploadRequests /\ Carries(v, u)
          /\ w \in UploadRequests /\ Carries(w, u)
      BY SameKeyCarries
    <3>2. Carries(w, v)
      BY <3>1 DEF Carries
    <3> QED  BY <1>1, <3>1, <3>2 DEF UploadsInv, OneJobPerKey, Carries
  <2>2. CASE SameKey(u) = {}
    BY <2>2, FS_EmptySet
  <2>3. ASSUME NEW v \in SameKey(u) PROVE Cardinality(SameKey(u)) = 1
    <3>1. SameKey(u) = {v}
      BY <2>1
    <3> QED  BY <3>1, FS_Singleton
  <2> QED  BY <2>2, <2>3
<1>2. UploadsInv => OneAnswerPerKey
  <2> SUFFICES ASSUME UploadsInv, NEW u \in UploadRequests
               PROVE  /\ submission[u] # "duplicate"
                      /\ Cardinality(SameKey(u)) <= 1
                      /\ submission[u] = "answered" =>
                           /\ created[answer[u]] # "none"
                           /\ answer[u] # u => answer[u] \in SameKey(u)
                           /\ body[answer[u]] = body[u]
                      /\ submission[u] = "conflict" => \E v \in SameKey(u) : body[v] # body[u]
    BY DEF OneAnswerPerKey
  <2>1. Cardinality(SameKey(u)) <= 1
    BY <1>1
  <2>2. submission[u] = "conflict" => \E v \in SameKey(u) : body[v] # body[u]
    BY SameKeyCarries DEF UploadsInv, AnswersRight
  <2>3. /\ submission[u] # "duplicate"
        /\ submission[u] = "answered" =>
             /\ created[answer[u]] # "none"
             /\ answer[u] # u => answer[u] \in SameKey(u)
             /\ body[answer[u]] = body[u]
    BY SameKeyCarries DEF UploadsInv, AnswersRight
  <2> QED  BY <2>1, <2>2, <2>3
<1> QED  BY <1>2, UploadsInvCorrect, PTL

-----------------------------------------------------------------------------
(***************************************************************************)
(* Admission limits.                                                       *)
(***************************************************************************)

\* Requests that are gone with what they had on its way.
Dropped == {u \in UploadRequests : submission[u] = "dropped"}

\* Active jobs that were counted before they were committed.
Admitted == {u \in ActiveJobs : submission[u] # "dropped"}

GuardHeld == \A u \in UploadRequests : submission[u] \in UnderGuard <=> guard = u

\* Whoever has counted finds the room still there when it commits.
RoomKept ==
  \A u \in UploadRequests :
    submission[u] \in {"counted", "creating"} => Cardinality(Admitted) < MaxActiveJobs

\* What a request measured at the start and wrote since is all there is, but for chunks
\* that arrived late.
StagingCounted ==
  \A u \in UploadRequests : submission[u] = "staging" =>
    InputChunks <= snapshot[u] + chunks[u] + Cardinality(Dropped)

AdmissionInv == UploadsTypeOK /\ GuardHeld /\ RoomKept /\ StagingCounted /\ AdmissionLimits

\* What a step of request u may do to the guard, the jobs, the stages and the files.
OnlyOf(u) ==
  \A v \in UploadRequests \ {u} :
    /\ submission'[v] = submission[v] /\ chunks'[v] = chunks[v]
    /\ created'[v] = created[v] /\ snapshot'[v] = snapshot[v]

GuardEffect(u) ==
  /\ submission'[u] \in UnderGuard <=> guard' = u
  /\ guard' = guard \/ {guard, guard'} \subseteq {u, NoUpload}

JobEffect(u) ==
  /\ \/ created'[u] = created[u] \/ created'[u] # "active" \/ submission'[u] = "dropped"
     \/ submission[u] = "creating" /\ submission'[u] \in Ended
  /\ submission'[u] \in {"counted", "creating"} =>
       submission[u] \in {"counted", "creating"} \/ (HasRoom /\ created' = created)
  /\ submission[u] = "dropped" => submission'[u] = "dropped"

FileEffect(u) ==
  /\ \/ chunks'[u] <= chunks[u]
     \/ /\ chunks'[u] = chunks[u] + 1
        /\ \/ submission[u] = "staging" /\ submission'[u] = "staging" /\ ChunkFits(u)
           \/ submission[u] # "dropped" /\ submission'[u] = "dropped"
  /\ submission'[u] = "staging" =>
       \/ snapshot'[u] = Usage /\ chunks'[u] = chunks[u]
       \/ submission[u] = "staging" /\ snapshot'[u] = snapshot[u]

RequestEffect(u) ==
  UploadsTypeOK' /\ OnlyOf(u) /\ GuardEffect(u) /\ JobEffect(u) /\ FileEffect(u)

LEMMA ChunksCounted ==
  ASSUME UploadsTypeOK
  PROVE  InputChunks \in Nat /\ Usage \in Nat
<1>1. IsFiniteSet(UploadRequests) /\ \A u \in UploadRequests : chunks[u] \in Nat
  BY UploadsAssumption DEF UploadsTypeOK
<1>2. InputChunks \in Nat
  BY <1>1, SumOfNaturals DEF InputChunks
<1> QED  BY <1>2 DEF Usage, UploadsTypeOK

LEMMA EndWithoutEffect ==
  ASSUME UploadsTypeOK, GuardHeld, NEW u \in UploadRequests, submission[u] \in UnderGuard,
         NEW stage \in Ended \ {"dropped"}, EndWithout(u, stage),
         answer' \in [UploadRequests -> UploadRequests \cup {NoUpload}]
  PROVE  RequestEffect(u)
<1>1. stage \in Stages /\ stage \notin UnderGuard /\ stage \notin {"counted", "creating", "staging"}
  BY DEF Stages, UnderGuard, Ended
<1>2. guard = u /\ u # NoUpload
  BY UploadsAssumption DEF GuardHeld
<1>3. UploadsTypeOK'
  <2>1. /\ submission' = [submission EXCEPT ![u] = stage] /\ guard' = NoUpload
        /\ chunks' = [chunks EXCEPT ![u] = 0] \/ chunks' = chunks
        /\ UNCHANGED <<key, body, snapshot, created, bypassing, written, measured>>
    BY DEF EndWithout, outputVars
  <2>2. chunks' \in [UploadRequests -> Nat]
    BY <2>1 DEF UploadsTypeOK
  <2> QED  BY <1>1, <2>1, <2>2 DEF UploadsTypeOK
<1>4. /\ submission'[u] = stage /\ guard' = NoUpload
      /\ chunks'[u] \in {chunks[u], 0} /\ chunks[u] \in Nat
      /\ \A v \in UploadRequests \ {u} : submission'[v] = submission[v] /\ chunks'[v] = chunks[v]
      /\ \A v \in UploadRequests \ {u} : created'[v] = created[v] /\ snapshot'[v] = snapshot[v]
  BY DEF EndWithout, UploadsTypeOK
<1>5. created'[u] = created[u] \/ submission[u] = "creating"
  BY DEF EndWithout
<1>6. stage \in Ended /\ submission[u] # "dropped"
  BY DEF UnderGuard
<1> QED
  BY <1>1, <1>2, <1>3, <1>4, <1>5, <1>6 DEF RequestEffect, OnlyOf, GuardEffect, JobEffect, FileEffect

LEMMA EndTransactionEffect ==
  ASSUME UploadsTypeOK, GuardHeld, NEW u \in UploadRequests, submission[u] \in UnderGuard,
         NEW stage \in Ended \ {"dropped"}, EndTransaction(u, stage),
         \/ created' = created
         \/ submission[u] = "creating" /\ created' = [created EXCEPT ![u] = "active"],
         answer' \in [UploadRequests -> UploadRequests \cup {NoUpload}]
  PROVE  RequestEffect(u)
<1>1. stage \in Stages /\ stage \notin UnderGuard /\ stage \notin {"counted", "creating", "staging"}
  BY DEF Stages, UnderGuard, Ended
<1>2. guard = u /\ u # NoUpload
  BY UploadsAssumption DEF GuardHeld
<1>3. UploadsTypeOK'
  BY <1>1 DEF EndTransaction, UploadsTypeOK, outputVars
<1>4. /\ submission'[u] = stage /\ guard' = NoUpload
      /\ chunks'[u] \in {chunks[u], 0} /\ chunks[u] \in Nat
      /\ \A v \in UploadRequests \ {u} : submission'[v] = submission[v] /\ chunks'[v] = chunks[v]
      /\ \A v \in UploadRequests \ {u} : created'[v] = created[v] /\ snapshot'[v] = snapshot[v]
  BY DEF EndTransaction, UploadsTypeOK
<1>5. created'[u] = created[u] \/ submission[u] = "creating"
  BY DEF EndTransaction
<1>6. stage \in Ended /\ submission[u] # "dropped"
  BY DEF UnderGuard
<1> QED
  BY <1>1, <1>2, <1>3, <1>4, <1>5, <1>6 DEF RequestEffect, OnlyOf, GuardEffect, JobEffect, FileEffect

LEMMA StageEffect ==
  ASSUME UploadsTypeOK, GuardHeld, NEW u \in UploadRequests,
         NEW stage \in UnderGuard \ {"staging"}, submission[u] \in UnderGuard,
         submission' = [submission EXCEPT ![u] = stage],
         stage \in {"counted", "creating"} => submission[u] \in {"counted", "creating"} \/ HasRoom,
         UNCHANGED <<key, body, guard, snapshot, chunks, created, answer, bypassing, outputVars>>
  PROVE  RequestEffect(u)
<1>1. stage \in Stages
  BY DEF Stages
<1>2. guard = u /\ submission[u] # "dropped"
  BY DEF GuardHeld, UnderGuard
<1> QED
  BY <1>1, <1>2 DEF RequestEffect, UploadsTypeOK, OnlyOf, GuardEffect, JobEffect, FileEffect, outputVars

LEMMA HandlerEffect ==
  ASSUME UploadsTypeOK, GuardHeld, NEW u \in UploadRequests,
         \/ \E k \in IdempotencyKeys \cup {NoKey}, b \in Bodies : BeginSubmission(u, k, b)
         \/ WriteChunk(u) \/ RefuseSubmission(u)
         \/ FindIdempotentImageJob(u) \/ CountActiveJobs(u)
         \/ OpenCreate(u) \/ CommitCreate(u)
  PROVE  RequestEffect(u)
<1>1. ASSUME NEW k \in IdempotencyKeys \cup {NoKey}, NEW b \in Bodies, BeginSubmission(u, k, b)
      PROVE  RequestEffect(u)
  <2>1. "staging" \in Stages /\ "staging" \in UnderGuard
    BY DEF Stages, UnderGuard
  <2> QED
    BY <1>1, <2>1, ChunksCounted DEF BeginSubmission, RequestEffect, UploadsTypeOK, OnlyOf, GuardEffect,
       JobEffect, FileEffect, outputVars
<1>2. CASE WriteChunk(u)
  <2>1. guard = u
    BY <1>2 DEF WriteChunk, GuardHeld, UnderGuard
  <2> QED
    BY <1>2, <2>1 DEF WriteChunk, RequestEffect, UploadsTypeOK, OnlyOf, GuardEffect,
       JobEffect, FileEffect, outputVars, GuardHeld
<1>3. CASE RefuseSubmission(u)
  <2>1. submission[u] \in UnderGuard /\ EndWithout(u, "refused") /\ answer' = answer
    BY <1>3 DEF RefuseSubmission, UnderGuard
  <2> QED  BY <2>1, EndWithoutEffect DEF UploadsTypeOK, Ended
<1>4. CASE FindIdempotentImageJob(u)
  <2>1. submission[u] = "staging" /\ submission[u] \in UnderGuard
    BY <1>4 DEF FindIdempotentImageJob, UnderGuard
  <2>2. CASE /\ submission' = [submission EXCEPT ![u] = "found_none"]
             /\ UNCHANGED <<key, body, guard, snapshot, chunks, created, answer, bypassing, outputVars>>
    BY <2>1, <2>2, StageEffect DEF UnderGuard
  <2>3. ASSUME NEW v \in SameKey(u), answer' = [answer EXCEPT ![u] = v] \/ UNCHANGED answer,
               EndWithout(u, "answered") \/ EndWithout(u, "conflict")
        PROVE  RequestEffect(u)
    <3>1. answer' \in [UploadRequests -> UploadRequests \cup {NoUpload}]
      BY <2>3 DEF UploadsTypeOK, SameKey
    <3> QED  BY <2>1, <2>3, <3>1, EndWithoutEffect DEF Ended
  <2> QED  BY <1>4, <2>2, <2>3 DEF FindIdempotentImageJob
<1>5. CASE CountActiveJobs(u)
  <2>1. submission[u] = "found_none" /\ submission[u] \in UnderGuard /\ answer' = answer
    BY <1>5 DEF CountActiveJobs, UnderGuard
  <2>2. CASE HasRoom
    <3>1. /\ submission' = [submission EXCEPT ![u] = "counted"]
          /\ UNCHANGED <<key, body, guard, snapshot, chunks, created, answer, bypassing, outputVars>>
      BY <1>5, <2>2 DEF CountActiveJobs
    <3> QED  BY <2>1, <2>2, <3>1, StageEffect DEF UnderGuard
  <2>3. CASE ~HasRoom
    <3>1. EndWithout(u, "refused")
      BY <1>5, <2>3 DEF CountActiveJobs
    <3> QED  BY <2>1, <3>1, EndWithoutEffect DEF UploadsTypeOK, Ended
  <2> QED  BY <2>2, <2>3
<1>6. CASE OpenCreate(u)
  <2>1. submission[u] = "counted" /\ submission[u] \in UnderGuard
    BY <1>6 DEF OpenCreate, UnderGuard
  <2>2. CASE /\ submission' = [submission EXCEPT ![u] = "creating"]
             /\ UNCHANGED <<key, body, guard, snapshot, chunks, created, answer, bypassing, outputVars>>
    BY <2>1, <2>2, StageEffect DEF UnderGuard
  <2>3. ASSUME NEW v \in SameKey(u), answer' = [answer EXCEPT ![u] = v] \/ UNCHANGED answer,
               EndTransaction(u, "answered") \/ EndTransaction(u, "conflict"), created' = created
        PROVE  RequestEffect(u)
    <3>1. answer' \in [UploadRequests -> UploadRequests \cup {NoUpload}]
      BY <2>3 DEF UploadsTypeOK, SameKey
    <3> QED  BY <2>1, <2>3, <3>1, EndTransactionEffect DEF Ended
  <2> QED  BY <1>6, <2>2, <2>3 DEF OpenCreate
<1>7. CASE CommitCreate(u)
  <2>1. submission[u] = "creating" /\ submission[u] \in UnderGuard /\ Insert(u, "answered")
    BY <1>7 DEF CommitCreate, UnderGuard
  <2>2. /\ EndTransaction(u, "answered") \/ EndTransaction(u, "duplicate")
        /\ answer' \in [UploadRequests -> UploadRequests \cup {NoUpload}]
        /\ created' = created \/ created' = [created EXCEPT ![u] = "active"]
    BY <2>1 DEF Insert, UploadsTypeOK
  <2> QED  BY <2>1, <2>2, EndTransactionEffect DEF Ended
<1> QED  BY <1>1, <1>2, <1>3, <1>4, <1>5, <1>6, <1>7

LEMMA OutsideEffect ==
  ASSUME UploadsTypeOK, GuardHeld, NEW u \in UploadRequests,
         \/ DropSubmission(u) \/ LateChunk(u) \/ LateCommit(u)
         \/ RemoveUnreferenced(u) \/ JobTerminates(u)
  PROVE  RequestEffect(u)
<1> USE DEF RequestEffect, UploadsTypeOK, OnlyOf, GuardEffect, JobEffect, FileEffect, outputVars
<1>0. /\ {"dropped", "writing", "sent", "creating"} \subseteq Stages
      /\ {"dropped", "writing", "sent"} \cap UnderGuard = {}
      /\ Ended \cap UnderGuard = {}
      /\ "staging" \notin Ended /\ "counted" \notin Ended /\ "creating" \notin Ended
      /\ "dropped" \in Ended
  BY DEF Stages, UnderGuard, Ended
<1>1. CASE DropSubmission(u)
  <2>1. guard = u /\ u # NoUpload
    BY <1>1, UploadsAssumption DEF DropSubmission, GuardHeld
  <2>2. PICK stage \in {"dropped", "writing", "sent"} : submission' = [submission EXCEPT ![u] = stage]
    BY <1>1 DEF DropSubmission
  <2>3. submission[u] # "dropped"
    BY <1>0, <1>1 DEF DropSubmission
  <2> QED  BY <1>0, <1>1, <2>1, <2>2, <2>3 DEF DropSubmission
<1>2. CASE LateChunk(u)
  BY <1>0, <1>2, UploadsAssumption DEF LateChunk, GuardHeld
<1>3. CASE LateCommit(u)
  BY <1>0, <1>3, UploadsAssumption DEF LateCommit, GuardHeld
<1>4. CASE RemoveUnreferenced(u)
  BY <1>0, <1>4, UploadsAssumption DEF RemoveUnreferenced, GuardHeld
<1>5. CASE JobTerminates(u)
  <2>1. /\ created' = [created EXCEPT ![u] = "terminal"]
        /\ UNCHANGED <<submission, key, body, guard, snapshot, chunks, answer, bypassing, outputVars>>
    BY <1>5 DEF JobTerminates
  <2> QED  BY <1>0, <2>1, UploadsAssumption DEF GuardHeld
<1> QED  BY <1>1, <1>2, <1>3, <1>4, <1>5

-----------------------------------------------------------------------------
\* The guard, the room and the storage through a step of one request.
LEMMA RoomStep ==
  ASSUME AdmissionInv, NEW u \in UploadRequests, RequestEffect(u)
  PROVE  GuardHeld' /\ RoomKept' /\ Cardinality(Admitted)' <= MaxActiveJobs
<1>1. UploadsTypeOK /\ GuardHeld /\ RoomKept /\ Cardinality(Admitted) <= MaxActiveJobs
  BY DEF AdmissionInv, AdmissionLimits, Admitted
<1>2. GuardHeld'
  BY <1>1, UploadsAssumption DEF GuardHeld, RequestEffect, OnlyOf, GuardEffect
<1>3. IsFiniteSet(UploadRequests) /\ Admitted \subseteq UploadRequests /\ MaxActiveJobs \in Nat
  BY UploadsAssumption DEF Admitted, ActiveJobs
<1>4. IsFiniteSet(Admitted) /\ Cardinality(Admitted) \in Nat
  BY <1>3, FS_Subset, FS_CardinalityType
<1>5. Admitted' \subseteq UploadRequests
  BY DEF Admitted, ActiveJobs
<1>6. IsFiniteSet(Admitted') /\ Cardinality(Admitted') \in Nat
  BY <1>3, <1>5, FS_Subset, FS_CardinalityType
<1>7. CASE submission[u] = "creating" /\ submission'[u] \in Ended
  <2>1. Admitted' \subseteq Admitted \cup {u}
    BY <1>1 DEF Admitted, ActiveJobs, RequestEffect, OnlyOf
  <2>2. Cardinality(Admitted) < MaxActiveJobs
    BY <1>1, <1>7 DEF RoomKept
  <2>3. Cardinality(Admitted') <= MaxActiveJobs
    <3>1. IsFiniteSet(Admitted \cup {u}) /\ Cardinality(Admitted \cup {u}) <= Cardinality(Admitted) + 1
      BY <1>4, FS_AddElement
    <3>2. Cardinality(Admitted') <= Cardinality(Admitted \cup {u}) /\ Cardinality(Admitted \cup {u}) \in Nat
      BY <2>1, <3>1, FS_Subset, FS_CardinalityType
    <3> QED  BY <1>3, <1>4, <1>6, <2>2, <3>1, <3>2
  <2>4. \A v \in UploadRequests : submission'[v] \notin {"counted", "creating"}
    BY <1>1, <1>7 DEF GuardHeld, UnderGuard, Ended, RequestEffect, OnlyOf
  <2> QED  BY <1>2, <2>3, <2>4 DEF RoomKept
<1>8. CASE ~(submission[u] = "creating" /\ submission'[u] \in Ended)
  <2>1. Admitted' \subseteq Admitted
    BY <1>8 DEF Admitted, ActiveJobs, RequestEffect, OnlyOf, JobEffect
  <2>2. Cardinality(Admitted') <= Cardinality(Admitted)
    BY <1>4, <2>1, FS_Subset
  <2>3. ASSUME NEW v \in UploadRequests, submission'[v] \in {"counted", "creating"}
        PROVE  Cardinality(Admitted') < MaxActiveJobs
    <3>1. CASE submission[v] \in {"counted", "creating"}
      <4>1. Cardinality(Admitted) < MaxActiveJobs
        BY <1>1, <3>1 DEF RoomKept
      <4> QED  BY <1>3, <1>4, <1>6, <2>2, <4>1
    <3>2. CASE HasRoom
      <4>1. Admitted \subseteq ActiveJobs /\ IsFiniteSet(ActiveJobs)
        BY <1>3, FS_Subset DEF Admitted, ActiveJobs
      <4>2. Cardinality(Admitted) <= Cardinality(ActiveJobs) /\ Cardinality(ActiveJobs) \in Nat
        BY <4>1, FS_Subset, FS_CardinalityType
      <4>3. bypassing \in Nat
        BY <1>1, UploadsAssumption DEF UploadsTypeOK
      <4> QED  BY <1>3, <1>4, <1>6, <2>2, <3>2, <4>2, <4>3 DEF HasRoom
    <3> QED  BY <2>3, <3>1, <3>2 DEF RequestEffect, OnlyOf, JobEffect
  <2> QED  BY <1>1, <1>2, <1>3, <1>4, <1>6, <2>2, <2>3 DEF RoomKept
<1> QED  BY <1>7, <1>8

LEMMA FilesStep ==
  ASSUME AdmissionInv, NEW u \in UploadRequests, RequestEffect(u)
  PROVE  StagingCounted' /\ InputChunks' <= StorageBudget + Cardinality(Dropped)'
<1>1. /\ UploadsTypeOK /\ UploadsTypeOK' /\ GuardHeld /\ StagingCounted
      /\ InputChunks <= StorageBudget + Cardinality(Dropped)
      /\ OnlyOf(u) /\ FileEffect(u) /\ JobEffect(u)
  BY DEF AdmissionInv, AdmissionLimits, RequestEffect, Dropped
<1>2. IsFiniteSet(UploadRequests) /\ StorageBudget \in Nat
  BY UploadsAssumption
<1>3. InputChunks' = InputChunks + chunks'[u] - chunks[u]
  <2>1. /\ \A v \in UploadRequests : chunks[v] \in Int /\ chunks'[v] \in Int
        /\ \A v \in UploadRequests \ {u} : chunks[v] = chunks'[v]
    BY <1>1 DEF UploadsTypeOK, OnlyOf
  <2> QED  BY <1>2, <2>1, SumOfChange DEF InputChunks
<1>4. InputChunks \in Nat /\ chunks[u] \in Nat /\ chunks'[u] \in Nat
  BY <1>1, ChunksCounted DEF UploadsTypeOK
<1>5. /\ Cardinality(Dropped) \in Nat /\ Cardinality(Dropped') \in Nat
      /\ Cardinality(Dropped) <= Cardinality(Dropped')
      /\ submission[u] # "dropped" /\ submission'[u] = "dropped" =>
           Cardinality(Dropped') = Cardinality(Dropped) + 1
  <2>1. Dropped \subseteq UploadRequests /\ Dropped' \subseteq UploadRequests
    BY DEF Dropped
  <2>2. IsFiniteSet(Dropped) /\ IsFiniteSet(Dropped')
    BY <1>2, <2>1, FS_Subset
  <2>3. Dropped \subseteq Dropped'
    BY <1>1 DEF Dropped, OnlyOf, JobEffect
  <2>4. ASSUME submission[u] # "dropped", submission'[u] = "dropped"
        PROVE  Cardinality(Dropped') = Cardinality(Dropped) + 1
    <3>1. Dropped' = Dropped \cup {u} /\ u \notin Dropped
      BY <1>1, <2>4 DEF Dropped, OnlyOf
    <3> QED  BY <2>2, <3>1, FS_AddElement
  <2> QED  BY <2>2, <2>3, <2>4, FS_Subset, FS_CardinalityType
<1>6. InputChunks' <= StorageBudget + Cardinality(Dropped')
  <2>1. CASE chunks'[u] <= chunks[u]
    BY <1>1, <1>2, <1>3, <1>4, <1>5, <2>1
  <2>2. CASE chunks'[u] = chunks[u] + 1 /\ submission[u] = "staging" /\ ChunkFits(u)
    <3>1. snapshot[u] + chunks[u] + 1 <= StorageBudget /\ snapshot[u] \in Nat
      BY <1>1, <2>2 DEF ChunkFits, UploadsTypeOK
    <3>2. InputChunks <= snapshot[u] + chunks[u] + Cardinality(Dropped)
      BY <1>1, <2>2 DEF StagingCounted
    <3> QED  BY <1>2, <1>3, <1>4, <1>5, <2>2, <3>1, <3>2
  <2>3. CASE chunks'[u] = chunks[u] + 1 /\ submission[u] # "dropped" /\ submission'[u] = "dropped"
    BY <1>1, <1>2, <1>3, <1>4, <1>5, <2>3
  <2> QED  BY <1>1, <2>1, <2>2, <2>3 DEF FileEffect
<1>7. ASSUME NEW v \in UploadRequests, submission'[v] = "staging"
      PROVE  InputChunks' <= snapshot'[v] + chunks'[v] + Cardinality(Dropped')
  <2>1. snapshot'[v] \in Nat /\ snapshot[v] \in Nat /\ chunks'[v] \in Nat /\ chunks[v] \in Nat
    BY <1>1 DEF UploadsTypeOK
  <2>2. CASE v # u
    <3>1. /\ submission[v] = "staging"
          /\ snapshot'[v] = snapshot[v] /\ chunks'[v] = chunks[v]
      BY <1>1, <1>7, <2>2 DEF OnlyOf
    <3>2. submission[u] # "staging"
      BY <1>1, <2>2, <3>1 DEF GuardHeld, UnderGuard
    <3>3. \/ chunks'[u] <= chunks[u]
          \/ chunks'[u] = chunks[u] + 1 /\ submission[u] # "dropped" /\ submission'[u] = "dropped"
      BY <1>1, <3>2 DEF FileEffect
    <3>4. InputChunks <= snapshot[v] + chunks[v] + Cardinality(Dropped)
      BY <1>1, <3>1 DEF StagingCounted
    <3> QED  BY <1>3, <1>4, <1>5, <2>1, <3>1, <3>3, <3>4
  <2>3. CASE v = u /\ snapshot'[u] = Usage /\ chunks'[u] = chunks[u]
    <3>1. InputChunks <= Usage /\ Usage \in Nat
      BY <1>1, UploadsAssumption, ChunksCounted DEF Usage, UploadsTypeOK
    <3> QED  BY <1>3, <1>4, <1>5, <2>1, <2>3, <3>1
  <2>4. CASE v = u /\ submission[u] = "staging" /\ snapshot'[u] = snapshot[u]
    <3>1. InputChunks <= snapshot[u] + chunks[u] + Cardinality(Dropped)
      BY <1>1, <2>4 DEF StagingCounted
    <3> QED  BY <1>3, <1>4, <1>5, <2>1, <2>4, <3>1
  <2> QED  BY <1>1, <1>7, <2>2, <2>3, <2>4 DEF FileEffect
<1> QED  BY <1>6, <1>7 DEF StagingCounted

\* Jobs that are not counted, and outputs: these touch no request.
LEMMA OutputStep ==
  ASSUME AdmissionInv, BypassingJobs \/ WriteOutputFile \/ MeasureOutput \/ RemoveOutput
  PROVE  AdmissionInv'
<1>1. UploadsTypeOK
  BY DEF AdmissionInv
<1>2. UNCHANGED uploadVars
  BY DEF BypassingJobs, WriteOutputFile, MeasureOutput, RemoveOutput
<1>3. UNCHANGED <<submission, key, body, guard, snapshot, chunks, created, answer>>
  BY <1>2 DEF uploadVars
<1>4. written \in Nat /\ measured \in Nat /\ StorageBudget \in Nat
  BY <1>1, UploadsAssumption DEF UploadsTypeOK
<1>5. /\ bypassing' \in 0..MaxBypassing /\ written' \in 0..MaxWriters /\ measured' \in Nat
      /\ measured' <= StorageBudget
  <2>0. measured <= StorageBudget
    BY DEF AdmissionInv, AdmissionLimits
  <2>1. CASE BypassingJobs \/ WriteOutputFile
    BY <1>1, <1>4, <2>0, <2>1, UploadsAssumption DEF BypassingJobs, WriteOutputFile, outputVars, UploadsTypeOK
  <2>2. CASE MeasureOutput
    <3>1. OutputFits => measured + 1 <= StorageBudget
      BY <1>1, <1>4, <2>2, ChunksCounted DEF MeasureOutput, OutputFits, Usage
    <3> QED  BY <1>1, <1>4, <2>0, <2>2, <3>1, UploadsAssumption DEF MeasureOutput, UploadsTypeOK
  <2>3. CASE RemoveOutput
    BY <1>1, <1>4, <2>0, <2>3 DEF RemoveOutput, UploadsTypeOK
  <2> QED  BY <2>1, <2>2, <2>3
<1>6. /\ InputChunks' = InputChunks /\ Dropped' = Dropped
      /\ Admitted' = Admitted
  BY <1>3 DEF InputChunks, Dropped, Admitted, ActiveJobs
<1>7. UploadsTypeOK'
  BY <1>1, <1>3, <1>5 DEF UploadsTypeOK
<1>8. GuardHeld' /\ RoomKept' /\ StagingCounted'
  BY <1>3, <1>6 DEF AdmissionInv, GuardHeld, RoomKept, StagingCounted
<1>9. AdmissionLimits'
  BY <1>3, <1>5, <1>6 DEF AdmissionInv, AdmissionLimits, Dropped, Admitted
<1> QED  BY <1>7, <1>8, <1>9 DEF AdmissionInv

\* The inductive invariant of the limits.
THEOREM AdmissionInvCorrect == UploadsSpec => []AdmissionInv
<1>1. UploadsInit => AdmissionInv
  <2> SUFFICES ASSUME UploadsInit PROVE AdmissionInv  OBVIOUS
  <2>1. UploadsTypeOK
    <3>1. (CHOOSE b \in Bodies : TRUE) \in Bodies
      BY UploadsAssumption
    <3> QED  BY <3>1, UploadsAssumption DEF UploadsInit, UploadsTypeOK, Stages
  <2>2. InputChunks = 0
    <3>1. \A u \in UploadRequests : chunks[u] = 0
      BY DEF UploadsInit
    <3> QED  BY <3>1, UploadsAssumption, SumOfZeros DEF InputChunks
  <2>3. Admitted = {} /\ Dropped = {}
    BY DEF UploadsInit, Admitted, ActiveJobs, Dropped
  <2>4. AdmissionLimits
    <3>1. Cardinality(Admitted) = 0 /\ Cardinality(Dropped) = 0
      BY <2>3, FS_EmptySet
    <3>2. measured = 0 /\ StorageBudget \in Nat /\ MaxActiveJobs \in Nat
      BY UploadsAssumption DEF UploadsInit
    <3> QED  BY <2>2, <3>1, <3>2 DEF AdmissionLimits, Admitted, Dropped
  <2>5. GuardHeld /\ RoomKept /\ StagingCounted
    BY UploadsAssumption DEF UploadsInit, GuardHeld, RoomKept, StagingCounted, UnderGuard
  <2> QED  BY <2>1, <2>4, <2>5 DEF AdmissionInv
<1>2. AdmissionInv /\ [UploadsNext]_uploadsVars => AdmissionInv'
  <2> SUFFICES ASSUME AdmissionInv, [UploadsNext]_uploadsVars PROVE AdmissionInv'  OBVIOUS
  <2>1. ASSUME NEW u \in UploadRequests, SubmissionStep(u)
        PROVE  AdmissionInv'
    <3>1. UploadsTypeOK /\ GuardHeld
      BY DEF AdmissionInv
    <3>2. RequestEffect(u)
      BY <2>1, <3>1, HandlerEffect, OutsideEffect DEF SubmissionStep
    <3>3. measured' = measured
      BY <2>1 DEF SubmissionStep, BeginSubmission, WriteChunk, RefuseSubmission, FindIdempotentImageJob,
         CountActiveJobs, OpenCreate, CommitCreate, Insert, EndWithout, EndTransaction, DropSubmission,
         LateChunk, LateCommit, RemoveUnreferenced, JobTerminates, outputVars
    <3>4. GuardHeld' /\ RoomKept' /\ Cardinality(Admitted)' <= MaxActiveJobs
      BY <3>2, RoomStep
    <3>5. StagingCounted' /\ InputChunks' <= StorageBudget + Cardinality(Dropped)'
      BY <3>2, FilesStep
    <3>6. AdmissionLimits'
      BY <3>3, <3>4, <3>5 DEF AdmissionInv, AdmissionLimits, Admitted, Dropped
    <3> QED  BY <3>2, <3>4, <3>5, <3>6 DEF AdmissionInv, RequestEffect
  <2>2. CASE UNCHANGED uploadsVars
    <3>1. UNCHANGED <<submission, key, body, guard, snapshot, chunks, created, answer>>
          /\ UNCHANGED <<bypassing, written, measured>>
      BY <2>2 DEF uploadsVars, uploadVars, outputVars
    <3> QED
      BY <3>1 DEF AdmissionInv, UploadsTypeOK, GuardHeld, RoomKept, StagingCounted, AdmissionLimits,
         Admitted, Dropped, ActiveJobs, InputChunks
  <2> QED  BY <2>1, <2>2, OutputStep DEF UploadsNext
<1> QED  BY <1>1, <1>2, PTL DEF UploadsSpec

\* Every variable keeps its type.
THEOREM UploadsTypeCorrect == UploadsSpec => []UploadsTypeOK
<1>1. AdmissionInv => UploadsTypeOK
  BY DEF AdmissionInv
<1> QED  BY <1>1, AdmissionInvCorrect, PTL

\* Committed jobs, inputs and outputs stay within their limits, but for what a dropped
\* request had on its way.
THEOREM LimitsAreKept == UploadsSpec => []AdmissionLimits
<1>1. AdmissionInv => AdmissionLimits
  BY DEF AdmissionInv
<1> QED  BY <1>1, AdmissionInvCorrect, PTL

-----------------------------------------------------------------------------
(***************************************************************************)
(* The uploads implement Submissions.  A key that the advisory lock keeps  *)
(* free has no job when the insert takes effect, and a hit of either       *)
(* lookup is a repetition.                                                 *)
(***************************************************************************)

\* What a client can tell of a stage.
LEMMA RepliesByStage ==
  /\ ReplyAt("idle") = "unasked"
  /\ \A stage \in UnderGuard : ReplyAt(stage) = "awaited"
  /\ \A stage \in {"writing", "sent", "dropped"} : ReplyAt(stage) = "lost"
  /\ ReplyAt("answered") = "job" /\ ReplyAt("refused") = "refused" /\ ReplyAt("conflict") = "conflict"
<1>1. UnderGuard = {"staging", "found_none", "counted", "creating"}
  BY DEF UnderGuard
<1> QED  BY <1>1 DEF ReplyAt

\* The reply to u changes with its stage, and no other reply.
LEMMA ReplyStep ==
  ASSUME SubmissionTypes, NEW u \in UploadRequests, NEW stage,
         submission' = [submission EXCEPT ![u] = stage]
  PROVE  Contract!Reply(u, ReplyAt(submission[u]), ReplyAt(stage))
<1>1. Replies[u] = ReplyAt(submission[u])
  BY DEF Replies
<1>2. Replies' = [Replies EXCEPT ![u] = ReplyAt(stage)]
  BY DEF Replies, SubmissionTypes
<1> QED  BY <1>1, <1>2 DEF Contract!Reply

\* A stage with the same reply is nothing to the client.
LEMMA SameReply ==
  ASSUME SubmissionTypes, NEW u \in UploadRequests, NEW stage,
         submission' = [submission EXCEPT ![u] = stage],
         ReplyAt(stage) = ReplyAt(submission[u]),
         UNCHANGED <<key, body, created, answer>>
  PROVE  UNCHANGED Contract!vars
<1>1. Replies' = Replies
  BY DEF Replies, SubmissionTypes
<1> QED  BY <1>1 DEF Contract!vars

\* Refused, or gone.
LEMMA RefusedOrLost ==
  ASSUME SubmissionTypes, NEW u \in UploadRequests, submission[u] \in UnderGuard,
         NEW stage \in {"refused", "writing", "sent", "dropped"},
         submission' = [submission EXCEPT ![u] = stage],
         UNCHANGED <<key, body, created, answer>>
  PROVE  Contract!RefuseOrLose(u)
<1>1. Contract!Reply(u, "awaited", ReplyAt(stage))
  BY ReplyStep, RepliesByStage
<1>2. ReplyAt(stage) \in {"refused", "lost"}
  BY RepliesByStage
<1> QED  BY <1>1, <1>2 DEF Contract!RefuseOrLose

\* A lookup that finds the key.
LEMMA RepeatFound ==
  ASSUME SubmissionTypes, NEW u \in UploadRequests, submission[u] \in UnderGuard, NEW v \in SameKey(u),
         UNCHANGED <<key, body, created>>,
         \/ /\ body[v] = body[u] /\ answer' = [answer EXCEPT ![u] = v]
            /\ submission' = [submission EXCEPT ![u] = "answered"]
         \/ /\ body[v] # body[u] /\ UNCHANGED answer
            /\ submission' = [submission EXCEPT ![u] = "conflict"]
  PROVE  Contract!Repeat(u)
<1>1. v \in Contract!SameKey(u)
  BY DEF SameKey, Contract!SameKey
<1>2. CASE submission' = [submission EXCEPT ![u] = "answered"] /\ body[v] = body[u]
           /\ answer' = [answer EXCEPT ![u] = v]
  <2>1. Contract!Reply(u, "awaited", "job")
    BY <1>2, ReplyStep, RepliesByStage
  <2> QED  BY <1>1, <1>2, <2>1 DEF Contract!Repeat
<1>3. CASE submission' = [submission EXCEPT ![u] = "conflict"] /\ body[v] # body[u] /\ UNCHANGED answer
  <2>1. Contract!Reply(u, "awaited", "conflict")
    BY <1>3, ReplyStep, RepliesByStage
  <2> QED  BY <1>1, <1>3, <2>1 DEF Contract!Repeat
<1> QED  BY <1>2, <1>3

\* The steps of the handler.
LEMMA HandlerServes ==
  ASSUME UploadsInv, NEW u \in UploadRequests,
         \/ WriteChunk(u) \/ RefuseSubmission(u) \/ FindIdempotentImageJob(u)
         \/ CountActiveJobs(u) \/ OpenCreate(u) \/ CommitCreate(u)
  PROVE  Contract!Next \/ UNCHANGED Contract!vars
<1>0. SubmissionTypes /\ {"staging", "found_none", "counted", "creating"} = UnderGuard
  BY DEF UploadsInv, UnderGuard
<1>1. CASE WriteChunk(u)
  BY <1>1 DEF WriteChunk, Contract!vars, Replies
<1>2. CASE RefuseSubmission(u)
  <2>1. Contract!RefuseOrLose(u)
    BY <1>0, <1>2, RefusedOrLost DEF RefuseSubmission, EndWithout
  <2> QED  BY <2>1 DEF Contract!Next
<1>3. CASE FindIdempotentImageJob(u)
  <2>1. submission[u] = "staging" /\ submission[u] \in UnderGuard
    BY <1>0, <1>3 DEF FindIdempotentImageJob
  <2>2. CASE /\ submission' = [submission EXCEPT ![u] = "found_none"]
             /\ UNCHANGED <<key, body, created, answer>>
    BY <1>0, <2>1, <2>2, SameReply, RepliesByStage
  <2>3. ASSUME NEW v \in SameKey(u),
               \/ body[v] = body[u] /\ answer' = [answer EXCEPT ![u] = v] /\ EndWithout(u, "answered")
               \/ body[v] # body[u] /\ EndWithout(u, "conflict") /\ UNCHANGED answer
        PROVE  Contract!Repeat(u)
    BY <1>0, <2>1, <2>3, RepeatFound DEF EndWithout
  <2> QED  BY <1>3, <2>2, <2>3 DEF FindIdempotentImageJob, Contract!Next
<1>4. CASE CountActiveJobs(u)
  <2>1. submission[u] = "found_none" /\ submission[u] \in UnderGuard /\ UNCHANGED answer
    BY <1>0, <1>4 DEF CountActiveJobs
  <2>2. CASE /\ submission' = [submission EXCEPT ![u] = "counted"]
             /\ UNCHANGED <<key, body, created>>
    BY <1>0, <2>1, <2>2, SameReply, RepliesByStage
  <2>3. CASE EndWithout(u, "refused")
    <3>1. Contract!RefuseOrLose(u)
      BY <1>0, <2>1, <2>3, RefusedOrLost DEF EndWithout
    <3> QED  BY <3>1 DEF Contract!Next
  <2> QED  BY <1>4, <2>2, <2>3 DEF CountActiveJobs
<1>5. CASE OpenCreate(u)
  <2>1. submission[u] = "counted" /\ submission[u] \in UnderGuard
    BY <1>0, <1>5 DEF OpenCreate
  <2>2. CASE /\ submission' = [submission EXCEPT ![u] = "creating"]
             /\ UNCHANGED <<key, body, created, answer>>
    BY <1>0, <2>1, <2>2, SameReply, RepliesByStage
  <2>3. ASSUME NEW v \in SameKey(u), UNCHANGED created,
               \/ body[v] = body[u] /\ answer' = [answer EXCEPT ![u] = v] /\ EndTransaction(u, "answered")
               \/ body[v] # body[u] /\ EndTransaction(u, "conflict") /\ UNCHANGED answer
        PROVE  Contract!Repeat(u)
    BY <1>0, <2>1, <2>3, RepeatFound DEF EndTransaction
  <2> QED  BY <1>5, <2>2, <2>3 DEF OpenCreate, Contract!Next
<1>6. CASE CommitCreate(u)
  <2>1. submission[u] = "creating" /\ submission[u] \in UnderGuard /\ created[u] = "none"
    BY <1>0, <1>6 DEF CommitCreate, UploadsInv, Staged, Uncommitted
  <2>2. SameKey(u) = {}
    BY <2>1, NoSameKey DEF UploadsInv, KeyFree, Inserting
  <2>3. /\ submission' = [submission EXCEPT ![u] = "answered"]
        /\ created' = [created EXCEPT ![u] = "active"]
        /\ answer' = [answer EXCEPT ![u] = u]
        /\ UNCHANGED <<key, body>>
    BY <1>6, <2>2 DEF CommitCreate, Insert, EndTransaction
  <2>4. Contract!Reply(u, "awaited", "job")
    BY <1>0, <2>1, <2>3, ReplyStep, RepliesByStage
  <2>5. Contract!SameKey(u) = {}
    BY <2>2 DEF SameKey, Contract!SameKey
  <2> QED  BY <2>1, <2>3, <2>4, <2>5 DEF Contract!Accept, Contract!Next
<1> QED  BY <1>1, <1>2, <1>3, <1>4, <1>5, <1>6

\* What happens to requests whose client is gone, to files and to jobs.
LEMMA OutsideServes ==
  ASSUME UploadsInv, NEW u \in UploadRequests,
         \/ DropSubmission(u) \/ LateChunk(u) \/ LateCommit(u)
         \/ RemoveUnreferenced(u) \/ JobTerminates(u)
  PROVE  Contract!Next \/ UNCHANGED Contract!vars
<1>0. SubmissionTypes
  BY DEF UploadsInv
<1>1. CASE DropSubmission(u)
  <2>1. submission[u] \in UnderGuard /\ UNCHANGED <<key, body, created, answer>>
    BY <1>1 DEF DropSubmission
  <2>2. PICK stage \in {"dropped", "writing", "sent"} : submission' = [submission EXCEPT ![u] = stage]
    BY <1>1 DEF DropSubmission
  <2>3. Contract!RefuseOrLose(u)
    BY <1>0, <2>1, <2>2, RefusedOrLost
  <2> QED  BY <2>3 DEF Contract!Next
<1>2. CASE LateChunk(u)
  <2>1. /\ submission[u] = "writing" /\ submission' = [submission EXCEPT ![u] = "dropped"]
        /\ UNCHANGED <<key, body, created, answer>>
    BY <1>2 DEF LateChunk
  <2> QED  BY <1>0, <2>1, SameReply, RepliesByStage
<1>3. CASE LateCommit(u)
  <2>1. /\ submission[u] = "sent" /\ submission' = [submission EXCEPT ![u] = "dropped"]
        /\ UNCHANGED <<key, body, answer>>
    BY <1>3 DEF LateCommit
  <2>2. created[u] = "none" /\ SameKey(u) = {}
    BY <2>1, NoSameKey DEF UploadsInv, Staged, Uncommitted, KeyFree, Inserting
  <2>3. CASE UNCHANGED created
    BY <1>0, <2>1, <2>3, SameReply, RepliesByStage
  <2>4. CASE created' = [created EXCEPT ![u] = "active"]
    <3>1. Contract!Reply(u, "lost", "lost")
      BY <1>0, <2>1, ReplyStep, RepliesByStage
    <3>2. Contract!SameKey(u) = {}
      BY <2>2 DEF SameKey, Contract!SameKey
    <3> QED  BY <2>1, <2>2, <2>4, <3>1, <3>2 DEF Contract!Accept, Contract!Next
  <2> QED  BY <1>3, <2>2, <2>3, <2>4 DEF LateCommit
<1>4. CASE RemoveUnreferenced(u)
  BY <1>4 DEF RemoveUnreferenced, Contract!vars, Replies
<1>5. CASE JobTerminates(u)
  <2>1. Contract!Terminate(u)
    BY <1>5 DEF JobTerminates, Contract!Terminate, Replies
  <2> QED  BY <2>1 DEF Contract!Next
<1> QED  BY <1>1, <1>2, <1>3, <1>4, <1>5

\* Submissions with idempotency keys are served as if one after the other: a key has one
\* job, a repetition is answered with it or refused because of another body, and an
\* insert whose client is gone still counts as the first.
THEOREM SubmissionsAreServed == UploadsSpec => ImplementsSubmissions
<1>1. UploadsInit => Contract!Init
  <2> SUFFICES ASSUME UploadsInit PROVE Contract!Init  OBVIOUS
  <2>1. (CHOOSE b \in Bodies : TRUE) \in Bodies
    BY UploadsAssumption
  <2>2. Replies = [u \in UploadRequests |-> "unasked"]
    BY RepliesByStage DEF UploadsInit, Replies
  <2> QED  BY <2>1, <2>2 DEF UploadsInit, Contract!Init
<1>2. UploadsInv /\ [UploadsNext]_uploadsVars => [Contract!Next]_Contract!vars
  <2> SUFFICES ASSUME UploadsInv, [UploadsNext]_uploadsVars
               PROVE  Contract!Next \/ UNCHANGED Contract!vars
    OBVIOUS
  <2>1. CASE UNCHANGED uploadVars
    BY <2>1 DEF uploadVars, Contract!vars, Replies
  <2>2. CASE UNCHANGED uploadsVars \/ BypassingJobs \/ WriteOutputFile \/ MeasureOutput \/ RemoveOutput
    <3>1. UNCHANGED uploadVars
      BY <2>2 DEF uploadsVars, BypassingJobs, WriteOutputFile, MeasureOutput, RemoveOutput
    <3> QED  BY <2>1, <3>1
  <2>3. ASSUME NEW u \in UploadRequests, NEW k \in IdempotencyKeys \cup {NoKey}, NEW b \in Bodies,
               BeginSubmission(u, k, b)
        PROVE  Contract!Ask(u, k, b)
    <3>1. Contract!Reply(u, "unasked", "awaited")
      BY <2>3, ReplyStep, RepliesByStage DEF BeginSubmission, UnderGuard, UploadsInv
    <3> QED  BY <2>3, <3>1 DEF BeginSubmission, Contract!Ask
  <2>4. ASSUME NEW u \in UploadRequests, SubmissionStep(u)
        PROVE  Contract!Next \/ UNCHANGED Contract!vars
    BY <2>3, <2>4, HandlerServes, OutsideServes DEF SubmissionStep, Contract!Next
  <2> QED  BY <2>2, <2>4 DEF UploadsNext
<1> QED
  BY <1>1, <1>2, UploadsInvCorrect, PTL DEF UploadsSpec, ImplementsSubmissions, Contract!Spec

=============================================================================
