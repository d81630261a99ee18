----------------------------- MODULE PipelineRun -----------------------------
(***************************************************************************)
(* What a run of a pipeline promises its user, without goroutines,         *)
(* channels or polling: jobs start after their dependencies, at most       *)
(* Parallelism at a time, and the run is over once every step has ended.   *)
(* WorkflowRefinement shows that the engine implements this.               *)
(***************************************************************************)
EXTENDS Naturals, FiniteSets

CONSTANTS Steps, Deps, Parallelism

VARIABLES
  job,    \* job[s]: idle, live, how its job ended, or why it has none
  over    \* the run is recorded as finished

pipelineVars == <<job, over>>

Satisfied(s) == \A d \in Deps[s] : job[d] \in {"Succeeded", "Cached"}

Init == job = [s \in Steps |-> "idle"] /\ over = FALSE

Launch(s) ==
  /\ job[s] = "idle" /\ Satisfied(s)
  /\ Cardinality({t \in Steps : job[t] = "live"}) < Parallelism
  /\ job' = [job EXCEPT ![s] = "live"]
  /\ UNCHANGED over

Finish(s) ==
  /\ job[s] = "live"
  /\ \E v \in {"Succeeded", "Failed", "Terminated"} : job' = [job EXCEPT ![s] = v]
  /\ UNCHANGED over

\* A step that could have been launched is found in the cache or cannot be
\* submitted; any step may be cancelled before it has a job.
Skip(s) ==
  /\ job[s] = "idle"
  /\ \/ job' = [job EXCEPT ![s] = "Cancelled"]
     \/ Satisfied(s) /\ \E v \in {"Cached", "Failed"} : job' = [job EXCEPT ![s] = v]
  /\ UNCHANGED over

Complete ==
  /\ ~over /\ \A s \in Steps : job[s] \notin {"idle", "live"}
  /\ over' = TRUE
  /\ UNCHANGED job

Next == Complete \/ \E s \in Steps : Launch(s) \/ Finish(s) \/ Skip(s)

Spec == Init /\ [][Next]_pipelineVars
=============================================================================
