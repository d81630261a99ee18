----------------------------- MODULE RunRecovery -----------------------------
(***************************************************************************)
(* The engine together with the server around it: the run is started by    *)
(* handleImageAndStartWf(), the server may die at any moment, and on the   *)
(* next start resumeActiveRuns() rebuilds the engine from the database     *)
(* (SetWorkflowRuntime) and restarts it (Restart).                         *)
(*                                                                         *)
(* A crash ends every goroutine and forgets every variable of the engine;  *)
(* the jobs and the database live on.  A job whose id had not been stored  *)
(* yet is an orphan: nobody watches or stops it any more.                  *)
(***************************************************************************)
EXTENDS WorkflowRuntime

CONSTANT MaxCrashes   \* bound on the number of crashes

ASSUME MaxCrashesAssumption == MaxCrashes \in Nat

VARIABLES
  crashes,   \* how often the server died
  orphans,   \* steps with a live job nobody knows of
  asked,     \* steps whose job was stopped by an earlier server
  pend       \* the write of status Pending that follows Start() / Restart()

recoveryVars == <<vars, crashes, orphans, asked, pend>>

RecoveryInit ==
  Init /\ crashes = 0 /\ orphans = {} /\ asked = {} /\ pend = "none"

\* A step of the engine.  handleImageAndStartWf() goes on to its last
\* statement when Start() or Restart() returns.
Engine ==
  /\ listen # "down" /\ Next
  /\ pend' = IF listen = "boot" /\ listen' = "recv" THEN "due" ELSE pend
  /\ UNCHANGED <<crashes, orphans, asked>>

\* Mutant: the whole record is written, with no runtime in it.
WritePendingRecord ==
  /\ pend = "due"
  /\ db' = [status |-> "Pending",
            runtime |-> [s \in Steps |-> [id |-> FALSE, status |-> ""]]]
  /\ pend' = "none"
  /\ UNCHANGED <<status, cancelled, events, slots, listen, seen, verdict,
                 stepVars, watchVars, stopper, ext, stopPc, crashes, orphans, asked>>

\* models.UpdateRun(.., Run{ImageUrl: .., Status: StatusRunPending})
WritePending ==
  /\ pend = "due"
  /\ db' = [db EXCEPT !.status = "Pending"]
  /\ pend' = "none"
  /\ UNCHANGED <<status, cancelled, events, slots, listen, seen, verdict,
                 stepVars, watchVars, stopper, ext, stopPc, crashes, orphans, asked>>

\* The process dies.
Crash ==
  /\ listen # "down" /\ crashes < MaxCrashes
  /\ crashes' = crashes + 1
  /\ listen' = "down" /\ status' = "" /\ cancelled' = FALSE /\ verdict' = ""
  /\ events' = 0 /\ slots' = 0 /\ seen' = Blank
  /\ exec' = [s \in Steps |-> "none"]
  /\ done' = [s \in Steps |-> FALSE]
  /\ submitted' = [s \in Steps |-> FALSE]
  /\ ready' = [s \in Steps |-> FALSE]
  /\ jobStatus' = [s \in Steps |-> ""]
  /\ jw' = [s \in Steps |-> "none"]
  /\ got' = [s \in Steps |-> ""]
  /\ ch' = [s \in Steps |-> "empty"]
  /\ stopper' = [s \in Steps |-> "none"]
  /\ stopPc' = "idle" /\ pend' = "none"
  /\ asked' = asked \cup {s \in Steps : stopper[s] = "returned"}
  /\ orphans' = orphans \cup {s \in Steps : Alive(s) /\ ~db.runtime[s].id}
  /\ ext' = [s \in Steps |-> IF db.runtime[s].id THEN ext[s] ELSE "none"]
  /\ UNCHANGED db

\* While the server is down, and for jobs it no longer knows, life goes on.
Cluster ==
  \/ /\ listen = "down" /\ \E s \in Steps : External(s)
     /\ UNCHANGED <<crashes, orphans, asked, pend>>
  \/ /\ \E s \in asked : Alive(s) /\ ExtSet(s, "Terminated")
     /\ UNCHANGED <<crashes, orphans, asked, pend>>
  \/ /\ \E s \in orphans : orphans' = orphans \ {s}
     /\ UNCHANGED <<vars, crashes, asked, pend>>

NotEnded(st) == st \in {"", "Running"}

\* Mutant: a job is only taken for submitted once its status is known to be
\* an active one.
ResumeByStatus ==
  /\ listen = "down" /\ db.status \notin Final
  /\ jobStatus' = [s \in Steps |-> db.runtime[s].status]
  /\ done' = [s \in Steps |-> ~NotEnded(db.runtime[s].status)]
  /\ submitted' = [s \in Steps |-> db.runtime[s].status # ""]
  /\ exec' = [s \in Steps |->
                IF NotEnded(db.runtime[s].status) THEN "none" ELSE "returned"]
  /\ listen' = "renew"
  /\ UNCHANGED <<runVars, events, slots, seen, ready, watchVars, stopper, ext,
                 stopPc, db, crashes, orphans, asked, pend>>

\* Mutant: a job that was running when the server died is taken for finished.
ResumeEndsRunning ==
  /\ listen = "down" /\ db.status \notin Final
  /\ jobStatus' = [s \in Steps |-> IF db.runtime[s].status = "Running"
                                   THEN "Succeeded" ELSE db.runtime[s].status]
  /\ done' = [s \in Steps |-> db.runtime[s].status # ""]
  /\ submitted' = [s \in Steps |-> db.runtime[s].id]
  /\ exec' = [s \in Steps |->
                IF db.runtime[s].status = "" THEN "none" ELSE "returned"]
  /\ listen' = "renew"
  /\ UNCHANGED <<runVars, events, slots, seen, ready, watchVars, stopper, ext,
                 stopPc, db, crashes, orphans, asked, pend>>

\* resumeRun(): a new engine, filled by SetWorkflowRuntime() from the record.
\* A step that is done is skipped by Restart(): its Execute() never runs.
Resume ==
  /\ listen = "down" /\ db.status \notin Final
  /\ jobStatus' = [s \in Steps |-> db.runtime[s].status]
  /\ done' = [s \in Steps |-> ~NotEnded(db.runtime[s].status)]
  /\ submitted' = [s \in Steps |-> db.runtime[s].id]
  /\ exec' = [s \in Steps |->
                IF NotEnded(db.runtime[s].status) THEN "none" ELSE "returned"]
  /\ listen' = "renew"
  /\ UNCHANGED <<runVars, events, slots, seen, ready, watchVars, stopper, ext,
                 stopPc, db, crashes, orphans, asked, pend>>

-----------------------------------------------------------------------------
(* Restart() *)

RestartBegin ==
  /\ listen = "renew"
  /\ status' = "Running" /\ listen' = "reboot"
  /\ UNCHANGED <<cancelled, verdict, events, slots, seen, stepVars, watchVars,
                 stopper, ext, stopPc, db, crashes, orphans, asked, pend>>

\* First loop: `go step.Execute()', which recovers a started job.
RestartStep(s) ==
  /\ listen = "reboot" /\ exec[s] = "none"
  /\ exec' = [exec EXCEPT ![s] = IF jobStatus[s] = "" THEN "select" ELSE "recover"]
  /\ UNCHANGED <<runVars, events, slots, listen, seen, done, submitted, ready,
                 jobStatus, watchVars, stopper, ext, stopPc, db,
                 crashes, orphans, asked, pend>>

RestartLoop ==
  /\ listen = "reboot" /\ \A s \in Steps : exec[s] # "none"
  /\ listen' = "reready"
  /\ UNCHANGED <<runVars, events, slots, seen, stepVars, watchVars, stopper, ext,
                 stopPc, db, crashes, orphans, asked, pend>>

\* Mutant: the second loop does not look at the dependencies.
RestartVisitAll(s) ==
  /\ listen = "reready" /\ seen[s] = "unseen" /\ NoneReadying
  /\ seen' = [seen EXCEPT ![s] =
                IF ~done[s] /\ ~submitted[s] THEN "readying" ELSE "open"]
  /\ UNCHANGED <<runVars, events, slots, listen, stepVars, watchVars, stopper,
                 ext, stopPc, db, crashes, orphans, asked, pend>>

\* Second loop: a step that is not submitted and can start gets its signal
\* (SendReady).
RestartVisit(s) ==
  /\ listen = "reready" /\ seen[s] = "unseen" /\ NoneReadying
  /\ seen' = [seen EXCEPT ![s] =
                IF ~done[s] /\ ~submitted[s] /\ isDepsReady(s)
                  THEN "readying" ELSE "open"]
  /\ UNCHANGED <<runVars, events, slots, listen, stepVars, watchVars, stopper,
                 ext, stopPc, db, crashes, orphans, asked, pend>>

RestartListen ==
  /\ listen = "reready" /\ ~Saw("unseen") /\ NoneReadying
  /\ listen' = "recv" /\ seen' = Blank /\ pend' = "due"
  /\ UNCHANGED <<runVars, events, slots, stepVars, watchVars, stopper, ext,
                 stopPc, db, crashes, orphans, asked>>

\* Execute() of a started job: take a slot, however many the new steps took
\* first, and watch.
RecoverAcquire(s) ==
  /\ exec[s] = "recover" /\ slots < Parallelism
  /\ slots' = slots + 1
  /\ exec' = [exec EXCEPT ![s] = "watch"]
  /\ jw' = [jw EXCEPT ![s] = "poll"]
  /\ stopper' = [stopper EXCEPT ![s] = "wait"]
  /\ UNCHANGED <<runVars, events, listen, seen, done, submitted, ready,
                 jobStatus, got, ch, ext, stopPc, db, crashes, orphans, asked, pend>>

Restart ==
  \/ RestartBegin \/ RestartLoop \/ RestartListen
  \/ \E s \in Steps : RestartStep(s) \/ RestartVisit(s)

RecoveryNext ==
  \/ Engine \/ WritePending \/ Crash \/ Cluster \/ Resume \/ Restart
  \/ \E s \in Steps : RecoverAcquire(s)

RecoverySpec == RecoveryInit /\ [][RecoveryNext]_recoveryVars

\* The engine as before; a server that died comes back and finishes Restart().
RecoveryFairness ==
  /\ WF_recoveryVars(Engine /\ Scheduler)
  /\ WF_recoveryVars(WritePending \/ Resume \/ Restart)
  /\ \A s \in Steps :
       /\ WF_recoveryVars(Engine /\ Execute(s))
       /\ WF_recoveryVars(Engine /\ (JobPoll(s) \/ JobAssign(s)))
       /\ WF_recoveryVars(RecoverAcquire(s))
       /\ WF_recoveryVars((Engine \/ Cluster) /\ (ExtSucceed(s) \/ ExtFail(s)))

FairRecoverySpec == RecoverySpec /\ RecoveryFairness

-----------------------------------------------------------------------------
(* Properties *)

\* The order of jobs survives crashes: a step that has a job has only
\* dependencies that Succeeded in the cluster or were, in memory or on record,
\* Cached, although what a crash forgets is not the same for each step.
OrderSurvivesCrashes ==
  \A s \in Steps : ext[s] # "none" =>
    \A d \in Deps[s] :
      \/ ext[d] = "Succeeded"
      \/ ext[d] = "none" /\ "Cached" \in {jobStatus[d], db.runtime[d].status}

\* A step whose job id the database holds is never on its way to a second
\* submission, whatever crashes happen: jobs are not duplicated once recorded.
RecordedJobNotResubmitted ==
  \A s \in Steps :
    db.runtime[s].id => exec[s] \notin {"slot", "check", "cache", "submit"}

\* A job the database calls ended has ended that way in the cluster, and its
\* record stays: neither polling, nor recovery, nor the Pending written after
\* Start() or Restart() ever invents, revises or loses an outcome.
RecordedEndIsReal ==
  /\ [](\A s \in Steps :
          db.runtime[s].id /\ db.runtime[s].status \in Ended =>
            ext[s] = db.runtime[s].status)
  /\ RecordedEndIsStable

-----------------------------------------------------------------------------
(* The inductive invariant behind the proofs. IInv is not one here: a job of   *)
(* an earlier server has no stopper, no slot, and perhaps no watcher yet, and  *)
(* a recorded step without status waits although it is submitted.              *)

RecoveryTypeOK ==
  /\ status \in RunStatus /\ verdict \in {""} \cup Final
  /\ listen \in ListenPc \cup {"down", "renew", "reboot", "reready"}
  /\ seen \in [Steps -> Tally]
  /\ exec \in [Steps -> ExecPc \cup {"recover"}]
  /\ submitted \in [Steps -> BOOLEAN] /\ ready \in [Steps -> BOOLEAN]
  /\ jobStatus \in [Steps -> JobStatus]
  /\ jw \in [Steps -> JobWatchPc] /\ got \in [Steps -> PolledStatus]
  /\ ext \in [Steps -> {"none"} \cup PolledStatus]
  /\ db \in [status : RunStatus, runtime : RuntimeViews]

Submitting == {"slot", "check", "cache", "submit"}

\* Where a step is, in an engine that was started or resumed; with a job it can
\* only be recovered, watched, stuck or over.
PlaceInv(s) ==
  /\ exec[s] \in {"select"} \cup Submitting => jobStatus[s] = ""
  /\ exec[s] = "none" =>
       jobStatus[s] \in IF listen \in {"new", "boot"} THEN {""} ELSE {"", "Running"}
  /\ exec[s] = "recover" => ext[s] # "none" /\ jobStatus[s] = "Running"
  /\ exec[s] \in Submitting \/ ready[s] => submitted[s] /\ ext[s] = "none"
  /\ exec[s] \in Submitting => ~ready[s]
  /\ ext[s] # "none" /\ listen # "down" => submitted[s]
  /\ submitted[s] => isDepsReady(s)
  /\ seen[s] = "readying" => ~submitted[s] /\ isDepsReady(s) /\ listen # "down"

\* What the engine believes of a job is what the job subsystem says.
BeliefInv(s) ==
  /\ jw[s] # "none" => ext[s] # "none" /\ exec[s] \in {"watch", "forward", "returned"}
  /\ jw[s] \in {"poll", "assign"} => jobStatus[s] \notin Lasting
  /\ got[s] # "" => jw[s] = "assign"
  /\ jobStatus[s] \in {"Running", "Succeeded", "Terminated"} => ext[s] # "none"
  /\ jobStatus[s] = "Cached" => ext[s] = "none"
  /\ \A v \in {jobStatus[s], got[s]} : v \in Ended /\ ext[s] # "none" => ext[s] = v

\* What a crash leaves of a step.
DownInv(s) ==
  listen = "down" =>
    /\ exec[s] = "none" /\ ~submitted[s] /\ jobStatus[s] = ""
    /\ ext[s] # "none" => db.runtime[s].id

\* What the record says of a step is true, and enough to resume it: its job
\* came after those of its dependencies, which are on record as well.
StoredInv(s) ==
  LET r == db.runtime[s]
  IN  /\ r.id => ext[s] # "none"
      /\ r.id => \A d \in Deps[s] : db.runtime[d].status \in {"Succeeded", "Cached"}
      /\ r.status \in {"Running", "Succeeded", "Terminated"} => r.id
      /\ r.status = "Cached" => ~r.id
      /\ r.status \in Ended /\ r.id => ext[s] = r.status
      /\ r.status \in Lasting /\ listen # "down" =>
           jobStatus[s] = r.status /\ r.id = (ext[s] # "none")

RInv ==
  \A s \in Steps : PlaceInv(s) /\ BeliefInv(s) /\ DownInv(s) /\ StoredInv(s)

-----------------------------------------------------------------------------
(* Statements of the repository that the code does not keep *)

\* run.go:89: steps already submitted get their slots first, so that the bound
\* on concurrent jobs is right (after a restart, orphans apart).
RestartedWithinParallelism ==
  crashes > 0 => Cardinality({s \in Steps : Alive(s)}) <= Parallelism

\* step.go:36, on Step.submitted: it says that the ready signal was sent; so a
\* step that waits although it is submitted has its signal.
SubmittedMeansSignalled ==
  \A s \in Steps : exec[s] = "select" /\ submitted[s] => ready[s]

\* run.go:88: jobs may have finished while the server was down, and Restart()
\* takes care that the scheduler does not wait for events that never come.
RestartedFinishedRunEnds ==
  (listen = "recv" /\ crashes > 0 /\ \A s \in Steps : done[s]) ~> listen = "returned"

\* callbacks.go:67: "run[%s] has reached final status[%s]".
FinalStatusIsFinal ==
  [][db.status \in Final => db'.status \in Final]_recoveryVars
=============================================================================
