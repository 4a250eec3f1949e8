----------------------------- MODULE MCJobQueue -----------------------------
(***************************************************************************)
(* Small instances of JobQueue for TLC.                                    *)
(***************************************************************************)
EXTENDS JobQueue, TLC

\* Every job has the default priority, so a retry may take any free identifier.
AllNormal == [j \in Jobs |-> 1]

WorkerSymmetry == Permutations(Workers)
=============================================================================
