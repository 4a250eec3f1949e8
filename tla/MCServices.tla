------------------------------- MODULE MCServices -------------------------------
(***************************************************************************)
(* Small instances of what requests to the API meet around the queue: the  *)
(* limiter, accounts and sessions, uploads, and edits of schedules beside  *)
(* ticks.  They share no state, so that a behaviour of one beside a        *)
(* behaviour of another shows nothing new: an initial state picks one, and *)
(* the others rest.                                                        *)
(***************************************************************************)
EXTENDS RateLimiter, Accounts, ImageUploads, Scheduler, TLC

CONSTANTS shortBody, longBody

VARIABLE part \* the one that moves

\* One body is a chunk longer than the other.
TwoSizes == [b \in Bodies |-> IF b = shortBody THEN 1 ELSE 2]

\* Callers of the limiter, which are also the names of the schedulers, and requests are
\* alike.
Alike == Permutations(Callers) \cup Permutations(UploadRequests)

ServicesTypeOK == LimiterTypeOK /\ AccountsTypeOK /\ UploadsTypeOK /\ SchedulerTypeOK

ServicesInit ==
  /\ LimiterInit /\ AccountsInit /\ UploadsInit /\ Init
  /\ part \in {"limiter", "accounts", "uploads", "schedules"}
  /\ part # "schedules" => \A s \in Schedules : interval[s] = 1 /\ anchor[s] = 0

ServicesNext ==
  \/ part = "limiter" /\ LimiterNext /\ UNCHANGED <<accountsVars, uploadsVars, vars, part>>
  \/ part = "accounts" /\ AccountsNext /\ UNCHANGED <<limiterVars, uploadsVars, vars, part>>
  \/ part = "uploads" /\ UploadsNext /\ UNCHANGED <<limiterVars, accountsVars, vars, part>>
  \/ part = "schedules" /\ Next /\ UNCHANGED <<limiterVars, accountsVars, uploadsVars, part>>

ServicesSpec ==
  ServicesInit /\ [][ServicesNext]_<<limiterVars, accountsVars, uploadsVars, vars, part>>

=============================================================================
