-------------------------------- MODULE MCRounds --------------------------------
(***************************************************************************)
(* Small instances of what a worker does beside its tasks: its loop with   *)
(* its limit and its drain, and the ticks of schedules that nobody edits.  *)
(* They share no state: an initial state picks one of them, and the other  *)
(* rests.                                                                  *)
(***************************************************************************)
EXTENDS WorkerLoop, Scheduler

VARIABLE part \* the one that moves

RoundsInit ==
  /\ LoopInit /\ Init
  /\ part \in {"loop", "schedules"}
  /\ part = "loop" => \A s \in Schedules : interval[s] = 1 /\ anchor[s] = 0

RoundsNext ==
  \/ part = "loop" /\ LoopNext /\ UNCHANGED <<vars, part>>
  \/ part = "schedules" /\ Next /\ UNCHANGED <<loopVars, part>>

\* LoopFairness and Fairness, each of the part that moves.
RoundsFairness ==
  /\ WF_loopVars(part = "loop" /\ LoopStep)
  /\ WF_loopVars(part = "loop" /\ DeadlinePasses)
  /\ SF_loopVars(part = "loop" /\ CutOff)
  /\ \A c \in Schedulers :
       /\ WF_vars(part = "schedules" /\ RestartWorker(c))
       /\ SF_vars(part = "schedules" /\ BeginTick(c))
       /\ SF_vars(part = "schedules" /\ SelectDueSchedule(c))
       /\ SF_vars(part = "schedules" /\ \E s \in Schedules : RecordOccurrence(c, s))

RoundsSpec == RoundsInit /\ [][RoundsNext]_<<loopVars, vars, part>> /\ RoundsFairness

=============================================================================
