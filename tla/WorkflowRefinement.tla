------------------------- MODULE WorkflowRefinement --------------------------
(***************************************************************************)
(* The engine implements PipelineRun: a step's abstract state is read off  *)
(* the job subsystem if it has a job there, else off Execute(), and the    *)
(* run is over once the database says so.                                  *)
(***************************************************************************)
EXTENDS WorkflowRuntime

AbstractJob(s) == IF ext[s] = "none"
                    THEN IF exec[s] \in Unstarted THEN "idle" ELSE jobStatus[s]
                    ELSE IF Alive(s) THEN "live" ELSE ext[s]

Promise == INSTANCE PipelineRun WITH
             job <- [s \in Steps |-> AbstractJob(s)],
             over <- db.status \in Final

\* The engine, with its goroutines, races, retries and lost callbacks, is a
\* correct implementation of the abstract run.
ImplementsPipelineRun == Promise!Spec

\* Once the database has a final status, only the one user's Stop() that was
\* already past its test can make Listen() go on, and then it decides again
\* before it stores anything: a recorded end is never taken back.
FinalInv ==
  db.status \in Final =>
    /\ listen \notin {"new", "boot"}
    /\ \A s \in Steps : seen[s] # "open"
    /\ status \in Final \/ stopPc = "done"
    /\ listen \in {"check", "returned"} \/ stopPc = "done"
    /\ listen = "callback" => status \in Final
=============================================================================
