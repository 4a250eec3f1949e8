---------------------------- MODULE MCWorkerTask ----------------------------
(***************************************************************************)
(* Small instances of WorkerTask for TLC.                                  *)
(***************************************************************************)
EXTENDS WorkerTask, FiniteSets

AllNormal == [j \in Jobs |-> 1]

\* One job of the instance is ever created: either of the two kinds, by itself.
OneJob == Cardinality({j \in Jobs : jobState[j] # "absent"}) <= 1
=============================================================================
