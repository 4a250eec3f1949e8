------------------------------ MODULE Maintenance ------------------------------
(***************************************************************************)
(* Files on the shared storage and the rows that refer to them.  Uploads   *)
(* stage input files before a job or schedule exists, attempts write their *)
(* outputs before the manifest is published, and every worker runs a       *)
(* maintenance pass that expires outputs, reads the database twice and     *)
(* then walks the storage.  No lock spans a pass; several may overlap.     *)
(*                                                                         *)
(* An upload and an attempt have one file each, named like them.  A file   *)
(* is old once it has been there for longer than the orphan grace period.  *)
(* That upload requests are short is assumed, see UploadWithinGrace.       *)
(***************************************************************************)
EXTENDS Naturals

CONSTANTS
  Attempts, Uploads, Workers,
  Steady  \* the workers whose passes are not always cut short

ASSUME MaintenanceAssumption == Attempts \cap Uploads = {} /\ Steady \subseteq Workers

VARIABLES
  attempt,   \* "none", "running", "published", "expired", "closed", or "late": closed while its encoder thread goes on
  upload,    \* "none", "staged", "accepted" or "ended" without a row
  files,     \* files on the storage
  old,       \* the ones older than the grace period
  rows,      \* storage keys in artifacts and schedule_inputs
  phase,     \* the next statement of the worker's pass
  unlink,    \* files of the rows the pass has expired
  kept,      \* storage_references as the pass read them
  doomed     \* files the walk of the pass is going to remove

passVars == <<phase, unlink, kept, doomed>>
maintenanceVars == <<attempt, upload, files, old, rows, passVars>>

Paths == Attempts \cup Uploads
Phases == {"idle", "references", "prefixes", "walk"}

MaintenanceTypeOK ==
  /\ attempt \in [Attempts -> {"none", "running", "published", "expired", "closed", "late"}]
  /\ upload \in [Uploads -> {"none", "staged", "accepted", "ended"}]
  /\ files \subseteq Paths
  /\ old \subseteq files
  /\ rows \subseteq Paths
  /\ phase \in [Workers -> Phases]
  /\ unlink \in [Workers -> SUBSET Attempts]
  /\ kept \in [Workers -> SUBSET Paths]
  /\ doomed \in [Workers -> SUBSET Paths]

\* <Definition>_<Slip> is the definition with one slip in it, there to check that a
\* property notices.

\* The age outlives the file.
RemoveFiles_KeepAge(gone) == files' = files \ gone /\ UNCHANGED old

\* A file is gone, its age with it.
RemoveFiles(gone) == files' = files \ gone /\ old' = old \ gone

-----------------------------------------------------------------------------
\* Uploads.

StageUpload(u) ==
  /\ upload[u] = "none"
  /\ upload' = [upload EXCEPT ![u] = "staged"]
  /\ files' = files \cup {u}
  /\ UNCHANGED <<attempt, old, rows, passVars>>

\* The job or the schedule is committed.
AcceptUpload(u) ==
  /\ upload[u] = "staged"
  /\ upload' = [upload EXCEPT ![u] = "accepted"]
  /\ rows' = rows \cup {u}
  /\ UNCHANGED <<attempt, files, old, passVars>>

\* Rejected before the insert: the batch is cleaned up.
RefuseUpload(u) ==
  /\ upload[u] = "staged"
  /\ upload' = [upload EXCEPT ![u] = "ended"]
  /\ RemoveFiles({u})
  /\ UNCHANGED <<attempt, rows, passVars>>

\* A crash, a failed cleanup, or an insert whose commit may have happened: the
\* file is kept.
AbandonUpload(u) ==
  /\ upload[u] = "staged"
  /\ upload' = [upload EXCEPT ![u] = "ended"]
  /\ UNCHANGED <<attempt, files, old, rows, passVars>>

-----------------------------------------------------------------------------
\* Attempts.

ClaimAttempt(a) ==
  /\ attempt[a] = "none"
  /\ attempt' = [attempt EXCEPT ![a] = "running"]
  /\ UNCHANGED <<upload, files, old, rows, passVars>>

WriteOutput(a) ==
  /\ attempt[a] = "running" \/ attempt[a] = "late"
  /\ a \notin files
  /\ files' = files \cup {a}
  /\ attempt' = [attempt EXCEPT ![a] = IF @ = "late" THEN "closed" ELSE @]
  /\ UNCHANGED <<upload, old, rows, passVars>>

\* complete_image_job
Publish(a) ==
  /\ attempt[a] = "running"
  /\ a \in files
  /\ attempt' = [attempt EXCEPT ![a] = "published"]
  /\ rows' = rows \cup {a}
  /\ UNCHANGED <<upload, files, old, passVars>>

\* Failure, cancellation or recovery: the directory of the attempt is removed,
\* unless its worker died.
CloseAttempt(a) ==
  /\ attempt[a] = "running"
  /\ \/ attempt' = [attempt EXCEPT ![a] = "closed"]
     \/ attempt' = [attempt EXCEPT ![a] = "late"] /\ a \notin files
  /\ RemoveFiles({a}) \/ UNCHANGED <<files, old>>
  /\ UNCHANGED <<upload, rows, passVars>>

\* An upload is accepted or refused well within the grace period: its file does not
\* become old before a pass that reads the references would find it there.
UploadWithinGrace(f) ==
  f \in Uploads =>
    /\ upload[f] # "staged"
    /\ \A w \in Workers : phase[w] = "prefixes" /\ f \in rows => f \in kept[w]

FileAges(f) ==
  /\ f \in files \ old
  /\ UploadWithinGrace(f)
  /\ old' = old \cup {f}
  /\ UNCHANGED <<attempt, upload, files, rows, passVars>>

-----------------------------------------------------------------------------
\* run_maintenance of worker w.

\* expire_output_artifacts: rows of outputs finished long enough ago, here any of
\* them.
ExpireOutputs(w, expired) ==
  /\ phase[w] = "idle"
  /\ \A a \in expired : attempt[a] = "published"
  /\ rows' = rows \ expired
  /\ attempt' = [a \in Attempts |-> IF a \in expired THEN "expired" ELSE attempt[a]]
  /\ unlink' = [unlink EXCEPT ![w] = expired]
  /\ phase' = [phase EXCEPT ![w] = "references"]
  /\ UNCHANGED <<upload, files, old, kept, doomed>>

\* remove_file of an expired key; an error is only logged.
UnlinkExpired(w, a) ==
  /\ a \in unlink[w]
  /\ unlink' = [unlink EXCEPT ![w] = @ \ {a}]
  /\ RemoveFiles({a}) \/ UNCHANGED <<files, old>>
  /\ UNCHANGED <<attempt, upload, rows, phase, kept, doomed>>

\* Only the outputs are looked up.
ReadReferences_OutputsOnly(w) ==
  /\ phase[w] = "references"
  /\ unlink[w] = {}
  /\ kept' = [kept EXCEPT ![w] = rows \cap Attempts]
  /\ phase' = [phase EXCEPT ![w] = "prefixes"]
  /\ UNCHANGED <<attempt, upload, files, old, rows, unlink, doomed>>

\* storage_references
ReadReferences(w) ==
  /\ phase[w] = "references"
  /\ unlink[w] = {}
  /\ kept' = [kept EXCEPT ![w] = rows]
  /\ phase' = [phase EXCEPT ![w] = "prefixes"]
  /\ UNCHANGED <<attempt, upload, files, old, rows, unlink, doomed>>

\* Attempts in progress are not looked up.
ReadPrefixes_None(w) ==
  /\ phase[w] = "prefixes"
  /\ doomed' = [doomed EXCEPT ![w] = old \ kept[w]]
  /\ phase' = [phase EXCEPT ![w] = "walk"]
  /\ UNCHANGED <<attempt, upload, files, old, rows, unlink, kept>>

\* All attempts are spared, not only the running ones.
ReadPrefixes_Every(w) ==
  /\ phase[w] = "prefixes"
  /\ doomed' = [doomed EXCEPT ![w] = old \ (kept[w] \cup Attempts)]
  /\ phase' = [phase EXCEPT ![w] = "walk"]
  /\ UNCHANGED <<attempt, upload, files, old, rows, unlink, kept>>

\* active_attempt_output_prefixes and the cutoff that says which files are old:
\* what the walk will remove is settled, whatever is written or committed later.
ReadPrefixes(w) ==
  /\ phase[w] = "prefixes"
  /\ doomed' = [doomed EXCEPT ![w] = old \ (kept[w] \cup {a \in Attempts : attempt[a] = "running"})]
  /\ phase' = [phase EXCEPT ![w] = "walk"]
  /\ UNCHANGED <<attempt, upload, files, old, rows, unlink, kept>>

\* cleanup_directory: the next file of the walk.
RemoveOrphan(w, f) ==
  /\ f \in doomed[w]
  /\ RemoveFiles({f})
  /\ doomed' = [doomed EXCEPT ![w] = @ \ {f}]
  /\ UNCHANGED <<attempt, upload, rows, phase, unlink, kept>>

ForgetPass(w) ==
  /\ phase' = [phase EXCEPT ![w] = "idle"]
  /\ unlink' = [unlink EXCEPT ![w] = {}]
  /\ kept' = [kept EXCEPT ![w] = {}]
  /\ doomed' = [doomed EXCEPT ![w] = {}]
  /\ UNCHANGED <<attempt, upload, files, old, rows>>

EndPass(w) ==
  /\ phase[w] = "walk"
  /\ doomed[w] = {}
  /\ ForgetPass(w)

\* A database error, a crash, or a file another pass has just removed: the error
\* is logged and the next interval starts over.
AbortPass(w) ==
  /\ phase[w] # "idle"
  /\ ForgetPass(w)

-----------------------------------------------------------------------------
MaintenanceInit ==
  /\ attempt = [a \in Attempts |-> "none"]
  /\ upload = [u \in Uploads |-> "none"]
  /\ files = {} /\ old = {} /\ rows = {}
  /\ phase = [w \in Workers |-> "idle"]
  /\ unlink = [w \in Workers |-> {}]
  /\ kept = [w \in Workers |-> {}]
  /\ doomed = [w \in Workers |-> {}]

UploadStep(u) == StageUpload(u) \/ AcceptUpload(u) \/ RefuseUpload(u) \/ AbandonUpload(u)

AttemptStep(a) == ClaimAttempt(a) \/ WriteOutput(a) \/ Publish(a) \/ CloseAttempt(a)

PassStep(w) ==
  \/ \E expired \in SUBSET Attempts : ExpireOutputs(w, expired)
  \/ \E a \in Attempts : UnlinkExpired(w, a)
  \/ ReadReferences(w)
  \/ ReadPrefixes(w)
  \/ \E f \in Paths : RemoveOrphan(w, f)
  \/ EndPass(w)

MaintenanceNext ==
  \/ \E u \in Uploads : UploadStep(u)
  \/ \E a \in Attempts : AttemptStep(a)
  \/ \E f \in Paths : FileAges(f)
  \/ \E w \in Workers : PassStep(w) \/ AbortPass(w)

MaintenanceSpec == MaintenanceInit /\ [][MaintenanceNext]_maintenanceVars

\* The maintenance interval comes round, files age, and of the passes of a steady
\* worker not every one is cut short at the same point.
MaintenanceFairness ==
  /\ \A f \in Paths : WF_maintenanceVars(FileAges(f))
  /\ \A w \in Steady :
       /\ WF_maintenanceVars(PassStep(w))
       /\ SF_maintenanceVars(ReadReferences(w))
       /\ SF_maintenanceVars(ReadPrefixes(w))
       /\ SF_maintenanceVars(EndPass(w))
       /\ \A a \in Attempts : SF_maintenanceVars(UnlinkExpired(w, a))
       /\ \A f \in Paths : SF_maintenanceVars(RemoveOrphan(w, f))

FairMaintenanceSpec == MaintenanceSpec /\ MaintenanceFairness

-----------------------------------------------------------------------------
\* Safety.

\* An input that a job or a schedule refers to is never removed, whatever passes
\* read before its row was committed.
InputsKept == \A u \in Uploads : u \in rows => u \in files

\* A published output stays until retention removes its row: a pass "removes
\* unreferenced files only".
OutputsKept == \A a \in Attempts : a \in rows => a \in files

\* No pass removes the file of an attempt that is still running, however long the
\* attempt has run and however old the file is.
ActiveOutputsKept ==
  [][\A a \in Attempts : a \in files /\ a \notin files' => attempt'[a] # "running"]_maintenanceVars

-----------------------------------------------------------------------------
\* Liveness.

\* A file that no row will ever refer to does not stay: what a crash left between
\* a commit and its clean-up is found by a later pass.
Orphan(f) ==
  /\ f \in files \ rows
  /\ f \in Attempts => attempt[f] \in {"closed", "expired"}
  /\ f \in Uploads => upload[f] = "ended"
OrphansGo == \A f \in Paths : Orphan(f) ~> f \notin files

=============================================================================
