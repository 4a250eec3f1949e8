------------------------------ MODULE ImageUploads ------------------------------
(***************************************************************************)
(* upload.rs with create_image_job of image_repository.rs: requests that   *)
(* stage files, look up their idempotency key, count active jobs and       *)
(* commit a job.  One API process serializes them by its upload_guard; but *)
(* a request whose client disconnects is dropped at any await and lets go  *)
(* of the guard, while a write or a COMMIT it had sent still lands.        *)
(*                                                                         *)
(* A request creates at most one job, which is named like it.  Its body is *)
(* what the fingerprint covers.  Sizes count chunks.  Outputs of workers   *)
(* are there for the storage they use.  Requests of create_schedule stage  *)
(* and commit as requests without a key do, and count no active job.       *)
(***************************************************************************)
EXTENDS Naturals, FiniteSets, Functions

CONSTANTS
  UploadRequests, IdempotencyKeys, Bodies,
  BodySize,       \* chunks of a body
  StorageBudget,  \* storage_budget_bytes
  MaxActiveJobs,  \* max_active_jobs
  MaxWriters,     \* items being encoded at the same time, in all workers
  MaxBypassing,   \* bound: active jobs made by retries and schedules
  NoKey, NoUpload

ASSUME UploadsAssumption ==
  /\ IsFiniteSet(UploadRequests) /\ Bodies # {}
  /\ BodySize \in [Bodies -> Nat \ {0}]
  /\ <<StorageBudget, MaxActiveJobs>> \in (Nat \ {0}) \X (Nat \ {0})
  /\ <<MaxWriters, MaxBypassing>> \in Nat \X Nat
  /\ NoKey \notin IdempotencyKeys /\ NoUpload \notin UploadRequests

VARIABLES
  submission, \* progress of a request, see Stages
  key, body,  \* what it asks for
  guard,      \* the request that holds upload_guard
  snapshot,   \* storage usage it measured when it got the guard
  chunks,     \* chunks of its files on the storage
  created,    \* jobs row it created: "none", "active" or "terminal"
  answer,     \* the request whose job the client was answered with
  bypassing,  \* active jobs made by manual retries and schedules
  written,    \* output files whose writers have not measured the storage yet
  measured    \* output files that passed

uploadVars == <<submission, key, body, guard, snapshot, chunks, created, answer>>
outputVars == <<written, measured>>
uploadsVars == <<uploadVars, bypassing, outputVars>>

\* "writing": dropped with a chunk on its way; "creating": has the advisory lock of its
\* key; "sent": gone or failed with its COMMIT on its way.
UnderGuard == {"staging", "found_none", "counted", "creating"}
Ended == {"answered", "refused", "conflict", "duplicate", "dropped"}
Stages == {"idle", "writing", "sent"} \cup UnderGuard \cup Ended

UploadsTypeOK ==
  /\ submission \in [UploadRequests -> Stages]
  /\ key \in [UploadRequests -> IdempotencyKeys \cup {NoKey}]
  /\ body \in [UploadRequests -> Bodies]
  /\ guard \in UploadRequests \cup {NoUpload}
  /\ snapshot \in [UploadRequests -> Nat]
  /\ chunks \in [UploadRequests -> Nat]
  /\ created \in [UploadRequests -> {"none", "active", "terminal"}]
  /\ answer \in [UploadRequests -> UploadRequests \cup {NoUpload}]
  /\ bypassing \in 0..MaxBypassing
  /\ written \in 0..MaxWriters
  /\ measured \in Nat

InputChunks == SumFunctionOnSet(chunks, UploadRequests)
Usage == InputChunks + written + measured
ActiveJobs == {u \in UploadRequests : created[u] = "active"}

\* Jobs that carry the idempotency key of u.
SameKey(u) == {v \in UploadRequests : created[v] # "none" /\ key[v] = key[u] /\ key[u] # NoKey}

\* A transaction that has the advisory lock of u's key.
KeyLocked(u) ==
  \E v \in UploadRequests \ {u} :
    submission[v] \in {"creating", "sent"} /\ key[v] = key[u] /\ key[u] # NoKey

\* <Definition>_<Slip> is the definition with one slip in it, there to check that a
\* property notices.

-----------------------------------------------------------------------------
\* Under the guard.

\* The guard is taken and the storage has room.
BeginSubmission(u, k, b) ==
  /\ submission[u] = "idle"
  /\ guard = NoUpload
  /\ Usage < StorageBudget
  /\ submission' = [submission EXCEPT ![u] = "staging"]
  /\ key' = [key EXCEPT ![u] = k]
  /\ body' = [body EXCEPT ![u] = b]
  /\ guard' = u
  /\ snapshot' = [snapshot EXCEPT ![u] = Usage]
  /\ UNCHANGED <<chunks, created, answer, bypassing, outputVars>>

\* A chunk is looked at by itself.
ChunkFits_Alone(u) == snapshot[u] + 1 <= StorageBudget

ChunkFits(u) == snapshot[u] + chunks[u] + 1 <= StorageBudget

WriteChunk(u) ==
  /\ submission[u] = "staging"
  /\ chunks[u] < BodySize[body[u]]
  /\ ChunkFits(u)
  /\ chunks' = [chunks EXCEPT ![u] = @ + 1]
  /\ UNCHANGED <<submission, key, body, guard, snapshot, created, answer, bypassing, outputVars>>

\* The request ends without a job of its own: the batch is removed, an error of the
\* removal is ignored.
EndWithout(u, stage) ==
  /\ submission' = [submission EXCEPT ![u] = stage]
  /\ guard' = NoUpload
  /\ chunks' = [chunks EXCEPT ![u] = 0] \/ UNCHANGED chunks
  /\ UNCHANGED <<key, body, snapshot, created, bypassing, outputVars>>

\* A chunk too many, an invalid field or image, a storage or database error.
RefuseSubmission(u) ==
  /\ submission[u] \in {"staging", "found_none"}
  /\ EndWithout(u, "refused")
  /\ UNCHANGED answer

\* find_idempotent_image_job, once every field is staged.
FindIdempotentImageJob(u) ==
  /\ submission[u] = "staging"
  /\ chunks[u] = BodySize[body[u]]
  /\ \/ /\ SameKey(u) = {}
        /\ submission' = [submission EXCEPT ![u] = "found_none"]
        /\ UNCHANGED <<key, body, guard, snapshot, chunks, created, answer, bypassing, outputVars>>
     \/ \E v \in SameKey(u) :
          \/ body[v] = body[u] /\ answer' = [answer EXCEPT ![u] = v] /\ EndWithout(u, "answered")
          \/ body[v] # body[u] /\ EndWithout(u, "conflict") /\ UNCHANGED answer

\* active_jobs < max_active_jobs
HasRoom == Cardinality(ActiveJobs) + bypassing < MaxActiveJobs

CountActiveJobs(u) ==
  /\ submission[u] = "found_none"
  /\ IF HasRoom
     THEN /\ submission' = [submission EXCEPT ![u] = "counted"]
          /\ UNCHANGED <<key, body, guard, snapshot, chunks, created, bypassing, outputVars>>
     ELSE EndWithout(u, "refused")
  /\ UNCHANGED answer

\* The transaction ends: a database error before the insert keeps the files.
EndTransaction(u, stage) ==
  /\ submission' = [submission EXCEPT ![u] = stage]
  /\ guard' = NoUpload
  /\ UNCHANGED <<key, body, snapshot, chunks, bypassing, outputVars>>

\* The lookup before the transaction is taken to be enough.
OpenCreate_Unchecked(u) ==
  /\ submission[u] = "counted"
  /\ submission' = [submission EXCEPT ![u] = "creating"]
  /\ UNCHANGED <<key, body, guard, snapshot, chunks, created, answer, bypassing, outputVars>>

\* create_image_job: the advisory lock of the key, and the lookup again.
OpenCreate(u) ==
  /\ submission[u] = "counted"
  /\ ~KeyLocked(u)
  /\ \/ /\ SameKey(u) = {}
        /\ submission' = [submission EXCEPT ![u] = "creating"]
        /\ UNCHANGED <<key, body, guard, snapshot, chunks, created, answer, bypassing, outputVars>>
     \/ \E v \in SameKey(u) :
          \/ /\ body[v] = body[u]
             /\ EndTransaction(u, "answered")
             /\ answer' = [answer EXCEPT ![u] = v]
             /\ UNCHANGED created
          \/ body[v] # body[u] /\ EndTransaction(u, "conflict") /\ UNCHANGED <<created, answer>>

\* The insert, which jobs_owner_idempotency_unique may reject, and the commit.
Insert(u, stage) ==
  /\ EndTransaction(u, IF SameKey(u) = {} THEN stage ELSE "duplicate")
  /\ created' = [created EXCEPT ![u] = IF SameKey(u) = {} THEN "active" ELSE @]
  /\ answer' = [answer EXCEPT ![u] = IF SameKey(u) = {} /\ stage = "answered" THEN u ELSE @]

CommitCreate(u) ==
  /\ submission[u] = "creating"
  /\ Insert(u, "answered")

-----------------------------------------------------------------------------
\* Requests that end early.

\* The files go with the request, whatever became of its transaction.
DropSubmission_Cleanup(u) ==
  /\ submission[u] \in UnderGuard
  /\ guard' = NoUpload
  /\ submission' = [submission EXCEPT ![u] = IF @ = "creating" THEN "sent" ELSE "dropped"]
  /\ chunks' = [chunks EXCEPT ![u] = 0]
  /\ UNCHANGED <<key, body, snapshot, created, answer, bypassing, outputVars>>

\* The client disconnects, the process dies or the database connection fails: the
\* guard is free, the staged files stay.  A write or a COMMIT may be on its way.
DropSubmission(u) ==
  /\ submission[u] \in UnderGuard
  /\ guard' = NoUpload
  /\ \/ submission' = [submission EXCEPT ![u] = "dropped"]
     \/ /\ submission[u] = "staging" /\ ChunkFits(u) /\ chunks[u] < BodySize[body[u]]
        /\ submission' = [submission EXCEPT ![u] = "writing"]
     \/ /\ submission[u] = "creating"
        /\ submission' = [submission EXCEPT ![u] = "sent"]
  /\ UNCHANGED <<key, body, snapshot, chunks, created, answer, bypassing, outputVars>>

LateChunk(u) ==
  /\ submission[u] = "writing"
  /\ submission' = [submission EXCEPT ![u] = "dropped"]
  /\ chunks' = [chunks EXCEPT ![u] = @ + 1] \/ UNCHANGED chunks
  /\ UNCHANGED <<key, body, guard, snapshot, created, answer, bypassing, outputVars>>

\* The database commits what it received, or rolls back.
LateCommit(u) ==
  /\ submission[u] = "sent"
  /\ submission' = [submission EXCEPT ![u] = "dropped"]
  /\ created' = [created EXCEPT ![u] = IF SameKey(u) = {} THEN "active" ELSE @] \/ UNCHANGED created
  /\ UNCHANGED <<key, body, guard, snapshot, chunks, answer, bypassing, outputVars>>

\* A later maintenance pass; Maintenance has the details.
RemoveUnreferenced(u) ==
  /\ submission[u] \in Ended
  /\ created[u] = "none"
  /\ chunks[u] > 0
  /\ chunks' = [chunks EXCEPT ![u] = 0]
  /\ UNCHANGED <<submission, key, body, guard, snapshot, created, answer, bypassing, outputVars>>

-----------------------------------------------------------------------------
\* Jobs and outputs beside the requests.

JobTerminates(u) ==
  /\ created[u] = "active"
  /\ created' = [created EXCEPT ![u] = "terminal"]
  /\ UNCHANGED <<submission, key, body, guard, snapshot, chunks, answer, bypassing, outputVars>>

\* A manual retry or a schedule creates a job without counting, or one of them ends.
BypassingJobs ==
  /\ bypassing' \in {n \in 0..MaxBypassing : n = bypassing + 1 \/ n + 1 = bypassing}
  /\ UNCHANGED <<uploadVars, outputVars>>

WriteOutputFile ==
  /\ written < MaxWriters
  /\ written' = written + 1
  /\ UNCHANGED <<uploadVars, bypassing, measured>>

OutputFits == Usage <= StorageBudget

\* process_images measures after writing; the file of a failed attempt is removed.
MeasureOutput ==
  /\ written > 0
  /\ written' = written - 1
  /\ measured' = IF OutputFits THEN measured + 1 ELSE measured
  /\ UNCHANGED <<uploadVars, bypassing>>

\* Retention, or an attempt that is given up later.
RemoveOutput ==
  /\ measured > 0
  /\ measured' = measured - 1
  /\ UNCHANGED <<uploadVars, bypassing, written>>

-----------------------------------------------------------------------------
UploadsInit ==
  /\ submission = [u \in UploadRequests |-> "idle"]
  /\ key = [u \in UploadRequests |-> NoKey]
  /\ body = [u \in UploadRequests |-> CHOOSE b \in Bodies : TRUE]
  /\ guard = NoUpload
  /\ snapshot = [u \in UploadRequests |-> 0]
  /\ chunks = [u \in UploadRequests |-> 0]
  /\ created = [u \in UploadRequests |-> "none"]
  /\ answer = [u \in UploadRequests |-> NoUpload]
  /\ bypassing = 0 /\ written = 0 /\ measured = 0

SubmissionStep(u) ==
  \/ \E k \in IdempotencyKeys \cup {NoKey}, b \in Bodies : BeginSubmission(u, k, b)
  \/ WriteChunk(u) \/ RefuseSubmission(u)
  \/ FindIdempotentImageJob(u) \/ CountActiveJobs(u)
  \/ OpenCreate(u) \/ CommitCreate(u)
  \/ DropSubmission(u) \/ LateChunk(u) \/ LateCommit(u)
  \/ RemoveUnreferenced(u) \/ JobTerminates(u)

UploadsNext ==
  \/ \E u \in UploadRequests : SubmissionStep(u)
  \/ BypassingJobs \/ WriteOutputFile \/ MeasureOutput \/ RemoveOutput

UploadsSpec == UploadsInit /\ [][UploadsNext]_uploadsVars

-----------------------------------------------------------------------------
\* Safety.

\* However often a request is repeated with its key, beside a first one that was
\* dropped in the middle of its commit: one job per key, every repetition with the
\* same body is answered with it, one with another body is refused because of it, and
\* the unique index never has to step in.
OneAnswerPerKey ==
  \A u \in UploadRequests :
    /\ submission[u] # "duplicate"
    /\ Cardinality(SameKey(u)) <= 1
    /\ submission[u] = "answered" =>
         /\ created[answer[u]] # "none"
         /\ answer[u] # u => answer[u] \in SameKey(u)
         /\ body[answer[u]] = body[u]
    /\ submission[u] = "conflict" => \E v \in SameKey(u) : body[v] # body[u]

\* "Keep the staged inputs so a job that did commit never points at files we
\* deleted": every job has all of its input, whenever its COMMIT took effect.
CommittedInputsKept ==
  \A u \in UploadRequests : created[u] # "none" => chunks[u] = BodySize[body[u]]

\* Jobs committed under the guard never exceed the limit, inputs and measured outputs
\* each the budget; what a dropped request still had on its way comes on top of it.
AdmissionLimits ==
  /\ Cardinality({u \in ActiveJobs : submission[u] # "dropped"}) <= MaxActiveJobs
  /\ InputChunks <= StorageBudget + Cardinality({u \in UploadRequests : submission[u] = "dropped"})
  /\ measured <= StorageBudget

-----------------------------------------------------------------------------
(***************************************************************************)
(* The contract with the clients.                                          *)
(***************************************************************************)
ReplyAt(stage) ==
  CASE stage = "idle" -> "unasked"
    [] stage \in UnderGuard -> "awaited"
    [] stage \in {"writing", "sent", "dropped"} -> "lost"
    [] stage = "answered" -> "job"
    [] OTHER -> stage

Replies == [u \in UploadRequests |-> ReplyAt(submission[u])]

Contract == INSTANCE Submissions WITH job <- created, reply <- Replies, told <- answer

\* "replaying the same key and body returns the original job, while different data
\* returns 409 Conflict": guard, lookups, advisory lock and commits that nobody waits
\* for any more look to the clients like requests served one after the other, and the
\* unique index never has to step in.
ImplementsSubmissions == Contract!Spec

=============================================================================
