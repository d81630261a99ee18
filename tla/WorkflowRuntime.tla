--------------------------- MODULE WorkflowRuntime ---------------------------
(***************************************************************************)
(* The pipeline engine of one run: pkg/pipeline run.go, step.go, job.go.   *)
(*                                                                         *)
(* Goroutines and their program counters:                                  *)
(*   listen     Start() and then Listen(), the only scheduler              *)
(*   exec[s]    Step.Execute() and the Step.Watch() it calls               *)
(*   jw[s]      PaddleFlowJob.Watch(), which polls the job subsystem       *)
(*   stopper[s] Step.stopJob()                                             *)
(*   stopPc     a user's Stop() call                                       *)
(*                                                                         *)
(* Channels: `events' is the number of events in wfr.event (capacity       *)
(* Parallelism; an event only wakes the scheduler, its text goes to the    *)
(* run's message and is left out), `slots' the number of tokens in         *)
(* wfr.concurrentJobs, ready[s] the content of Step.ready (capacity 1),    *)
(* ch[s] the content of the channel of Step.Watch (capacity 1).            *)
(*                                                                         *)
(* The job subsystem is external: ext[s] is the status a poll would read.  *)
(* db is what UpdateRunCb last stored of the run.                          *)
(***************************************************************************)
EXTENDS Naturals, FiniteSets

CONSTANTS
  Steps,          \* names of the steps of the workflow
  Deps,           \* Deps[s]: the steps named by s.info.Deps
  Parallelism,    \* capacity of wfr.event and wfr.concurrentJobs
  CacheEnabled,   \* wf.Source.Cache.Enable
  Env             \* what the environment may do (a subset of EnvEvents)

\* submitErr, stopErr, watchErr, cacheErr, dbErr: the call may return an error;
\* userStop: Stop() may be called; jobFail: a job may fail; jobKill: a job may
\* be deleted behind the engine's back; message: a job's message may change.
EnvEvents == {"submitErr", "stopErr", "watchErr", "cacheErr", "dbErr",
              "userStop", "jobFail", "jobKill", "message"}

ASSUME StepsAssumption == IsFiniteSet(Steps)
ASSUME DepsAssumption == Deps \in [Steps -> SUBSET Steps]
ASSUME ParallelismAssumption == Parallelism \in Nat \ {0}
ASSUME CacheAssumption == CacheEnabled \in BOOLEAN
ASSUME EnvAssumption == Env \subseteq EnvEvents

VARIABLES
  status,      \* wfr.status
  cancelled,   \* wfr.ctx.Err() # nil
  events, slots,
  listen,      \* pc of Start() / Listen()
  seen,        \* what the pass of updateStatus under way saw of each step
  verdict,     \* the final status computed and not yet assigned
  exec, done, submitted, ready, jobStatus,
  jw, got,     \* got[s]: the polled status still to be assigned
  ch, stopper, ext, stopPc, db

runVars == <<status, cancelled, verdict>>
stepVars == <<exec, done, submitted, ready, jobStatus>>
watchVars == <<jw, got, ch>>
vars == <<status, cancelled, events, slots, listen, seen, verdict,
          exec, done, submitted, ready, jobStatus, jw, got, ch,
          stopper, ext, stopPc, db>>

Ended == {"Succeeded", "Failed", "Terminated"}
\* "" is a job without status yet; "Running" stands for Pending, Running and
\* Terminating, which the engine treats alike (NotEnded).
JobStatus == {"", "Running", "Cancelled", "Cached"} \cup Ended
\* What no goroutine assigns over.
Lasting == Ended \cup {"Cached", "Cancelled"}
Final == {"Succeeded", "Failed", "Terminated"}
RunStatus == {"", "Initiating", "Pending", "Running", "Terminating"} \cup Final
Tally == {"unseen", "open", "readying", "ended"} \cup Ended

IsCompleted == status \in Final

\* Mutants: a dependency that is over, or one that is satisfied, is enough.
DepsDone(s) == \A d \in Deps[s] : done[d]
SomeDepReady(s) ==
  Deps[s] = {} \/ \E d \in Deps[s] : jobStatus[d] \in {"Succeeded", "Cached"}

isDepsReady(s) == \A d \in Deps[s] : jobStatus[d] \in {"Succeeded", "Cached"}

Blank == [s \in Steps |-> "unseen"]

\* The runtime view that callback() builds, reduced to what a restart uses.
RuntimeView == [s \in Steps |-> [id |-> ext[s] # "none", status |-> jobStatus[s]]]

Init ==
  /\ status = "" /\ cancelled = FALSE
  /\ events = 0 /\ slots = 0
  /\ listen = "new" /\ seen = Blank /\ verdict = ""
  /\ exec = [s \in Steps |-> "none"]
  /\ done = [s \in Steps |-> FALSE]
  /\ submitted = [s \in Steps |-> FALSE]
  /\ ready = [s \in Steps |-> FALSE]
  /\ jobStatus = [s \in Steps |-> ""]
  /\ jw = [s \in Steps |-> "none"]
  /\ got = [s \in Steps |-> ""]
  /\ ch = [s \in Steps |-> "empty"]
  /\ stopper = [s \in Steps |-> "none"]
  /\ ext = [s \in Steps |-> "none"]
  /\ stopPc = "idle"
  /\ db = [status |-> "Initiating",
           runtime |-> [s \in Steps |-> [id |-> FALSE, status |-> ""]]]

-----------------------------------------------------------------------------
(* Start() *)

StartBegin ==
  /\ listen = "new"
  /\ status' = "Running"
  /\ listen' = "boot"
  /\ UNCHANGED <<cancelled, verdict, events, slots, seen, stepVars, watchVars,
                 stopper, ext, stopPc, db>>

NoneReadying == \A s \in Steps : seen[s] # "readying"

\* `go st.Execute()', then the test that precedes st.update(st.done, true, ..).
StartStep(s) ==
  /\ listen = "boot" /\ exec[s] = "none" /\ NoneReadying
  /\ exec' = [exec EXCEPT ![s] = "select"]
  /\ seen' = IF isDepsReady(s) /\ ~submitted[s]
               THEN [seen EXCEPT ![s] = "readying"] ELSE seen
  /\ UNCHANGED <<runVars, events, slots, listen, done, submitted, ready,
                 jobStatus, watchVars, stopper, ext, stopPc, db>>

\* Mutant: st.submitted is not set.
SendReadyForgotten(s) ==
  /\ seen[s] = "readying" /\ ~ready[s]
  /\ ready' = [ready EXCEPT ![s] = TRUE]
  /\ seen' = [seen EXCEPT ![s] = IF listen = "boot" THEN "unseen" ELSE "open"]
  /\ UNCHANGED <<runVars, events, slots, listen, exec, done, submitted, jobStatus,
                 watchVars, stopper, ext, stopPc, db>>

\* st.update(st.done, true, st.job); st.ready <- true. The value written back
\* to st.done is the one read before (FALSE), whatever Execute() did since.
SendReady(s) ==
  /\ seen[s] = "readying" /\ ~ready[s]
  /\ done' = [done EXCEPT ![s] = FALSE]
  /\ submitted' = [submitted EXCEPT ![s] = TRUE]
  /\ ready' = [ready EXCEPT ![s] = TRUE]
  /\ seen' = [seen EXCEPT ![s] = IF listen = "boot" THEN "unseen" ELSE "open"]
  /\ UNCHANGED <<runVars, events, slots, listen, exec, jobStatus, watchVars,
                 stopper, ext, stopPc, db>>

StartListen ==
  /\ listen = "boot" /\ NoneReadying
  /\ \A s \in Steps : exec[s] # "none"
  /\ listen' = "recv"
  /\ UNCHANGED <<runVars, events, slots, seen, stepVars, watchVars,
                 stopper, ext, stopPc, db>>

-----------------------------------------------------------------------------
(* Listen() and processEvent() *)

ListenRecv ==
  /\ listen = "recv" /\ events > 0
  /\ events' = events - 1
  /\ listen' = IF IsCompleted THEN "returned" ELSE "scan"
  /\ UNCHANGED <<runVars, slots, seen, stepVars, watchVars,
                 stopper, ext, stopPc, db>>

\* Mutant: a cancelled run counts every step as over.
LookCancelled(s) == IF jobStatus[s] \in Ended THEN jobStatus[s]
                    ELSE IF done[s] \/ cancelled THEN "ended"
                    ELSE IF isDepsReady(s) /\ ~submitted[s] THEN "readying"
                    ELSE "open"

\* One iteration of the loop of updateStatus(); the map's order is arbitrary.
Look(s) == IF jobStatus[s] \in Ended THEN jobStatus[s]
           ELSE IF done[s] THEN "ended"
           ELSE IF isDepsReady(s) /\ ~submitted[s] THEN "readying"
           ELSE "open"

ListenScan(s) ==
  /\ listen = "scan" /\ seen[s] = "unseen" /\ NoneReadying
  /\ seen' = [seen EXCEPT ![s] = Look(s)]
  /\ UNCHANGED <<runVars, events, slots, listen, stepVars, watchVars,
                 stopper, ext, stopPc, db>>

Saw(v) == \E s \in Steps : seen[s] = v

\* Mutant: the test for a terminated step is missing.
VerdictByStatus == IF Saw("Failed") THEN "Failed"
                   ELSE IF status = "Terminating" THEN "Terminated"
                   ELSE "Succeeded"

\* The status updateStatus() chooses once stepDone == len(wfr.steps).
Verdict == IF Saw("Failed") THEN "Failed"
           ELSE IF Saw("Terminated")
             THEN IF status = "Terminating" THEN "Terminated" ELSE "Failed"
           ELSE "Succeeded"

ScanOver == listen = "scan" /\ ~Saw("unseen") /\ NoneReadying

\* Every step is counted: the verdict is computed here, assigned in the next
\* step, since Stop() writes wfr.status without synchronisation.
ListenDecide ==
  /\ ScanOver /\ ~Saw("open")
  /\ verdict' = Verdict
  /\ listen' = "assign" /\ seen' = Blank
  /\ UNCHANGED <<status, cancelled, events, slots, stepVars, watchVars,
                 stopper, ext, stopPc, db>>

ListenAssign ==
  /\ listen = "assign"
  /\ status' = verdict /\ verdict' = ""
  /\ listen' = "callback"
  /\ UNCHANGED <<cancelled, events, slots, seen, stepVars, watchVars,
                 stopper, ext, stopPc, db>>

\* Mutant: a failed step does not cancel the run.
ListenContinueUncancelled ==
  /\ ScanOver /\ Saw("open")
  /\ listen' = "callback" /\ seen' = Blank
  /\ UNCHANGED <<status, cancelled, verdict, events, slots, stepVars, watchVars,
                 stopper, ext, stopPc, db>>

\* Some step is not: a failed or terminated one cancels the others.
ListenContinue ==
  /\ ScanOver /\ Saw("open")
  /\ cancelled' = (cancelled \/ Saw("Failed") \/ Saw("Terminated"))
  /\ listen' = "callback" /\ seen' = Blank
  /\ UNCHANGED <<status, verdict, events, slots, stepVars, watchVars,
                 stopper, ext, stopPc, db>>

ListenCallback ==
  /\ listen = "callback"
  /\ db' = [status |-> status, runtime |-> RuntimeView]
  /\ listen' = "check"
  /\ UNCHANGED <<runVars, events, slots, seen, stepVars, watchVars,
                 stopper, ext, stopPc>>

\* Three failed attempts to store the run; nothing is done about it.
ListenCallbackLost ==
  /\ listen = "callback" /\ "dbErr" \in Env
  /\ listen' = "check"
  /\ UNCHANGED <<runVars, events, slots, seen, stepVars, watchVars,
                 stopper, ext, stopPc, db>>

ListenCheck ==
  /\ listen = "check"
  /\ listen' = IF IsCompleted THEN "returned" ELSE "recv"
  /\ UNCHANGED <<runVars, events, slots, seen, stepVars, watchVars,
                 stopper, ext, stopPc, db>>

Listen ==
  \/ ListenRecv
  \/ ListenDecide
  \/ ListenAssign
  \/ ListenContinue
  \/ ListenCallback
  \/ ListenCallbackLost
  \/ ListenCheck

-----------------------------------------------------------------------------
(* Step.Execute() *)

\* The ways Execute() ends without a job: the status, done, then one event.
EndStep(s, st) ==
  /\ jobStatus' = [jobStatus EXCEPT ![s] = st]
  /\ done' = [done EXCEPT ![s] = TRUE]
  /\ exec' = [exec EXCEPT ![s] = "send"]
  /\ UNCHANGED <<submitted, ready>>

\* DecConcurrentJobs(1): a receive, which would block on an empty channel.
Release == slots > 0 /\ slots' = slots - 1

\* Mutant: the step of a running job is marked Cancelled as well.
ExecCancelledWatching(s) ==
  /\ exec[s] \in {"select", "watch"} /\ cancelled
  /\ jobStatus' = [jobStatus EXCEPT ![s] = "Cancelled"]
  /\ exec' = [exec EXCEPT ![s] = IF @ = "select" THEN "send" ELSE "forward"]
  /\ done' = [done EXCEPT ![s] = exec[s] = "select"]
  /\ UNCHANGED <<submitted, ready, runVars, events, slots, listen, seen,
                 watchVars, stopper, ext, stopPc, db>>

\* select: case <-st.wfr.ctx.Done()
ExecCancelled(s) ==
  /\ exec[s] = "select" /\ cancelled
  /\ EndStep(s, "Cancelled")
  /\ UNCHANGED <<runVars, events, slots, listen, seen, watchVars,
                 stopper, ext, stopPc, db>>

\* select: case <-st.ready
ExecReady(s) ==
  /\ exec[s] = "select" /\ ready[s]
  /\ ready' = [ready EXCEPT ![s] = FALSE]
  /\ exec' = [exec EXCEPT ![s] = "slot"]
  /\ UNCHANGED <<runVars, events, slots, listen, seen, done, submitted,
                 jobStatus, watchVars, stopper, ext, stopPc, db>>

\* Mutant: the channel of slots is one too large.
ExecAcquireOneMore(s) ==
  /\ exec[s] = "slot" /\ slots <= Parallelism
  /\ slots' = slots + 1
  /\ exec' = [exec EXCEPT ![s] = "check"]
  /\ UNCHANGED <<runVars, events, listen, seen, done, submitted, ready,
                 jobStatus, watchVars, stopper, ext, stopPc, db>>

\* IncConcurrentJobs(1), blocked while all the slots are taken.
ExecAcquire(s) ==
  /\ exec[s] = "slot" /\ slots < Parallelism
  /\ slots' = slots + 1
  /\ exec' = [exec EXCEPT ![s] = "check"]
  /\ UNCHANGED <<runVars, events, listen, seen, done, submitted, ready,
                 jobStatus, watchVars, stopper, ext, stopPc, db>>

\* The run was cancelled while the step waited for its slot.
ExecAbort(s) ==
  /\ exec[s] = "check" /\ cancelled
  /\ Release /\ EndStep(s, "Cancelled")
  /\ UNCHANGED <<runVars, events, listen, seen, watchVars,
                 stopper, ext, stopPc, db>>

ExecProceed(s) ==
  /\ exec[s] = "check" /\ ~cancelled
  /\ exec' = [exec EXCEPT ![s] = IF CacheEnabled THEN "cache" ELSE "submit"]
  /\ UNCHANGED <<runVars, events, slots, listen, seen, done, submitted, ready,
                 jobStatus, watchVars, stopper, ext, stopPc, db>>

\* checkCached() returned an error, a hit or a miss.
ExecCacheErr(s) ==
  /\ exec[s] = "cache" /\ "cacheErr" \in Env
  /\ Release /\ EndStep(s, "Failed")
  /\ UNCHANGED <<runVars, events, listen, seen, watchVars,
                 stopper, ext, stopPc, db>>

ExecCacheHit(s) ==
  /\ exec[s] = "cache"
  /\ Release /\ EndStep(s, "Cached")
  /\ UNCHANGED <<runVars, events, listen, seen, watchVars,
                 stopper, ext, stopPc, db>>

ExecCacheMiss(s) ==
  /\ exec[s] = "cache"
  /\ exec' = [exec EXCEPT ![s] = "submit"]
  /\ UNCHANGED <<runVars, events, slots, listen, seen, done, submitted, ready,
                 jobStatus, watchVars, stopper, ext, stopPc, db>>

\* job.Start() failed. Unlike the other exits, this one keeps its slot.
ExecSubmitErr(s) ==
  /\ exec[s] = "submit" /\ "submitErr" \in Env
  /\ EndStep(s, "Failed")
  /\ UNCHANGED <<runVars, events, slots, listen, seen, watchVars,
                 stopper, ext, stopPc, db>>

\* job.Start() succeeded; Watch() starts its two goroutines.
ExecSubmit(s) ==
  /\ exec[s] = "submit"
  /\ ext' = [ext EXCEPT ![s] = ""]
  /\ exec' = [exec EXCEPT ![s] = "watch"]
  /\ jw' = [jw EXCEPT ![s] = "poll"]
  /\ stopper' = [stopper EXCEPT ![s] = "wait"]
  /\ UNCHANGED <<runVars, events, slots, listen, seen, done, submitted, ready,
                 jobStatus, got, ch, stopPc, db>>

\* st.wfr.event <- *wfe, blocked while the channel is full.
ExecSend(s) ==
  /\ exec[s] = "send" /\ events < Parallelism
  /\ events' = events + 1
  /\ exec' = [exec EXCEPT ![s] = "returned"]
  /\ UNCHANGED <<runVars, slots, listen, seen, done, submitted, ready,
                 jobStatus, watchVars, stopper, ext, stopPc, db>>

-----------------------------------------------------------------------------
(* Step.Watch() *)

\* Receive from ch; the event of a job that ended marks the step done and
\* gives the slot back.
WatchRecv(s) ==
  /\ exec[s] = "watch" /\ ch[s] # "empty"
  /\ ch' = [ch EXCEPT ![s] = "empty"]
  /\ exec' = [exec EXCEPT ![s] = "forward"]
  /\ IF ch[s] \in Ended
       THEN Release /\ done' = [done EXCEPT ![s] = TRUE]
       ELSE UNCHANGED <<slots, done>>
  /\ UNCHANGED <<runVars, events, listen, seen, submitted, ready, jobStatus,
                 jw, got, stopper, ext, stopPc, db>>

\* Mutants: the event channel has no bound; the loop does not end.
WatchForwardUnbounded(s) ==
  /\ exec[s] = "forward"
  /\ events' = events + 1
  /\ exec' = [exec EXCEPT ![s] = IF done[s] THEN "returned" ELSE "watch"]
  /\ UNCHANGED <<runVars, slots, listen, seen, done, submitted, ready,
                 jobStatus, watchVars, stopper, ext, stopPc, db>>

WatchForwardForever(s) ==
  /\ exec[s] = "forward" /\ events < Parallelism
  /\ events' = events + 1
  /\ exec' = [exec EXCEPT ![s] = "watch"]
  /\ UNCHANGED <<runVars, slots, listen, seen, done, submitted, ready,
                 jobStatus, watchVars, stopper, ext, stopPc, db>>

WatchForward(s) ==
  /\ exec[s] = "forward" /\ events < Parallelism
  /\ events' = events + 1
  /\ exec' = [exec EXCEPT ![s] = IF done[s] THEN "returned" ELSE "watch"]
  /\ UNCHANGED <<runVars, slots, listen, seen, done, submitted, ready,
                 jobStatus, watchVars, stopper, ext, stopPc, db>>

-----------------------------------------------------------------------------
(* PaddleFlowJob.Watch() *)

\* The poll found another status: the event is sent before it is assigned.
JobPoll(s) ==
  /\ jw[s] = "poll" /\ ext[s] # jobStatus[s] /\ ch[s] = "empty"
  /\ ch' = [ch EXCEPT ![s] = ext[s]]
  /\ got' = [got EXCEPT ![s] = ext[s]]
  /\ jw' = [jw EXCEPT ![s] = "assign"]
  /\ UNCHANGED <<runVars, events, slots, listen, seen, stepVars,
                 stopper, ext, stopPc, db>>

\* pfj.Status = jobInstance.Status, then the test that ends the loop.
JobAssign(s) ==
  /\ jw[s] = "assign"
  /\ jobStatus' = [jobStatus EXCEPT ![s] = got[s]]
  /\ got' = [got EXCEPT ![s] = ""]
  /\ jw' = [jw EXCEPT ![s] = IF got[s] \in Ended THEN "closed" ELSE "poll"]
  /\ UNCHANGED <<runVars, events, slots, listen, seen, exec, done, submitted,
                 ready, ch, stopper, ext, stopPc, db>>

\* Only the message changed: an event, and the same status again.
JobPollMessage(s) ==
  /\ "message" \in Env
  /\ jw[s] = "poll" /\ ext[s] = jobStatus[s] /\ ch[s] = "empty"
  /\ ch' = [ch EXCEPT ![s] = ext[s]]
  /\ UNCHANGED <<runVars, events, slots, listen, seen, stepVars, jw, got,
                 stopper, ext, stopPc, db>>

\* Six consecutive failed polls: an error event, and polling goes on.
JobPollErr(s) ==
  /\ "watchErr" \in Env
  /\ jw[s] = "poll" /\ ch[s] = "empty"
  /\ ch' = [ch EXCEPT ![s] = "watchErr"]
  /\ UNCHANGED <<runVars, events, slots, listen, seen, stepVars, jw, got,
                 stopper, ext, stopPc, db>>

-----------------------------------------------------------------------------
(* Step.stopJob(): the done flag is only logged, job.Stop() is called anyway *)

StopJobBegin(s) ==
  /\ stopper[s] = "wait" /\ cancelled
  /\ stopper' = [stopper EXCEPT ![s] = "stop"]
  /\ UNCHANGED <<runVars, events, slots, listen, seen, stepVars, watchVars,
                 ext, stopPc, db>>

StopJobOk(s) ==
  /\ stopper[s] = "stop"
  /\ stopper' = [stopper EXCEPT ![s] = "returned"]
  /\ UNCHANGED <<runVars, events, slots, listen, seen, stepVars, watchVars,
                 ext, stopPc, db>>

StopJobErr(s) ==
  /\ stopper[s] = "stop" /\ "stopErr" \in Env
  /\ stopper' = [stopper EXCEPT ![s] = "report"]
  /\ UNCHANGED <<runVars, events, slots, listen, seen, stepVars, watchVars,
                 ext, stopPc, db>>

\* Mutant: a failed job.Stop() is reported and not tried again.
StopJobReportOnce(s) ==
  /\ stopper[s] = "report" /\ events < Parallelism
  /\ events' = events + 1
  /\ stopper' = [stopper EXCEPT ![s] = "none"]
  /\ UNCHANGED <<runVars, slots, listen, seen, stepVars, watchVars,
                 ext, stopPc, db>>

\* The StopErr event, then sleep and try again.
StopJobReport(s) ==
  /\ stopper[s] = "report" /\ events < Parallelism
  /\ events' = events + 1
  /\ stopper' = [stopper EXCEPT ![s] = "stop"]
  /\ UNCHANGED <<runVars, slots, listen, seen, stepVars, watchVars,
                 ext, stopPc, db>>

-----------------------------------------------------------------------------
(* WorkflowRuntime.Stop(), three unsynchronised steps *)

StopCheck ==
  /\ "userStop" \in Env /\ stopPc = "idle" /\ ~IsCompleted
  /\ stopPc' = "cancel"
  /\ UNCHANGED <<runVars, events, slots, listen, seen, stepVars, watchVars,
                 stopper, ext, db>>

StopCancel ==
  /\ stopPc = "cancel"
  /\ cancelled' = TRUE /\ stopPc' = "mark"
  /\ UNCHANGED <<status, verdict, events, slots, listen, seen, stepVars,
                 watchVars, stopper, ext, db>>

StopMark ==
  /\ stopPc = "mark"
  /\ status' = "Terminating" /\ stopPc' = "done"
  /\ UNCHANGED <<cancelled, verdict, events, slots, listen, seen, stepVars,
                 watchVars, stopper, ext, db>>

-----------------------------------------------------------------------------
(* The job subsystem, external *)

Alive(s) == ext[s] \in {"", "Running"}

ExtSet(s, v) ==
  /\ ext' = [ext EXCEPT ![s] = v]
  /\ UNCHANGED <<runVars, events, slots, listen, seen, stepVars, watchVars,
                 stopper, stopPc, db>>

ExtRun(s) == ext[s] = "" /\ ExtSet(s, "Running")
ExtSucceed(s) == Alive(s) /\ ExtSet(s, "Succeeded")
ExtFail(s) == Alive(s) /\ "jobFail" \in Env /\ ExtSet(s, "Failed")
ExtTerminate(s) == Alive(s) /\ stopper[s] = "returned" /\ ExtSet(s, "Terminated")
ExtKill(s) == Alive(s) /\ "jobKill" \in Env /\ ExtSet(s, "Terminated")

-----------------------------------------------------------------------------
Execute(s) ==
  \/ ExecCancelled(s) \/ ExecReady(s) \/ ExecAcquire(s) \/ ExecAbort(s)
  \/ ExecProceed(s) \/ ExecCacheErr(s) \/ ExecCacheHit(s) \/ ExecCacheMiss(s)
  \/ ExecSubmitErr(s) \/ ExecSubmit(s) \/ ExecSend(s)
  \/ WatchRecv(s) \/ WatchForward(s)

JobWatch(s) == JobPoll(s) \/ JobAssign(s) \/ JobPollMessage(s) \/ JobPollErr(s)

StopJob(s) ==
  StopJobBegin(s) \/ StopJobOk(s) \/ StopJobErr(s) \/ StopJobReport(s)

External(s) ==
  ExtRun(s) \/ ExtSucceed(s) \/ ExtFail(s) \/ ExtTerminate(s) \/ ExtKill(s)

Stop == StopCheck \/ StopCancel \/ StopMark

\* The goroutine of Start() and Listen().
Scheduler ==
  \/ StartBegin \/ StartListen \/ Listen
  \/ \E s \in Steps : StartStep(s) \/ SendReady(s) \/ ListenScan(s)

Next ==
  \/ Scheduler
  \/ Stop
  \/ \E s \in Steps : Execute(s) \/ JobWatch(s) \/ StopJob(s) \/ External(s)

Spec == Init /\ [][Next]_vars

-----------------------------------------------------------------------------
(***************************************************************************)
(* Fairness.  A goroutine that can take a step eventually does (WF).  The  *)
(* environment owes us two things: job.Stop(), retried every 3s for ever,  *)
(* succeeds in the end (SF), and a job whose Stop() succeeded ends.        *)
(***************************************************************************)
Fairness ==
  /\ WF_vars(Scheduler) /\ WF_vars(StopCancel \/ StopMark)
  /\ \A s \in Steps :
       /\ WF_vars(Execute(s))
       /\ WF_vars(JobPoll(s) \/ JobAssign(s))
       /\ WF_vars(StopJobBegin(s) \/ StopJobReport(s)) /\ SF_vars(StopJobOk(s))
       /\ WF_vars(ExtTerminate(s))

FairSpec == Spec /\ Fairness

\* Further assumption of the runs that ask whether a run completes.
JobsEnd == \A s \in Steps : WF_vars(ExtSucceed(s) \/ ExtFail(s))

FairSpecJobsEnd == FairSpec /\ JobsEnd

-----------------------------------------------------------------------------
(* Properties *)

ListenPc == {"new", "boot", "recv", "scan", "assign", "callback", "check",
             "returned"}
ExecPc == {"none", "select", "slot", "check", "cache", "submit", "send",
           "watch", "forward", "returned"}
JobWatchPc == {"none", "poll", "assign", "closed"}
StopperPc == {"none", "wait", "stop", "report", "returned"}
StopPc == {"idle", "cancel", "mark", "done"}
PolledStatus == {"", "Running"} \cup Ended
RuntimeViews == [Steps -> [id : BOOLEAN, status : JobStatus]]

\* Every variable keeps its type and every channel stays within its capacity.
TypeOK ==
  /\ status \in RunStatus
  /\ cancelled \in BOOLEAN
  /\ events \in 0..Parallelism
  /\ slots \in 0..Parallelism
  /\ listen \in ListenPc
  /\ seen \in [Steps -> Tally]
  /\ verdict \in {""} \cup Final
  /\ exec \in [Steps -> ExecPc]
  /\ done \in [Steps -> BOOLEAN]
  /\ submitted \in [Steps -> BOOLEAN]
  /\ ready \in [Steps -> BOOLEAN]
  /\ jobStatus \in [Steps -> JobStatus]
  /\ jw \in [Steps -> JobWatchPc]
  /\ got \in [Steps -> PolledStatus]
  /\ ch \in [Steps -> {"empty", "watchErr"} \cup PolledStatus]
  /\ stopper \in [Steps -> StopperPc]
  /\ ext \in [Steps -> {"none"} \cup PolledStatus]
  /\ stopPc \in StopPc
  /\ db \in [status : RunStatus, runtime : RuntimeViews]

\* The cluster never runs more jobs of the run than its parallelism, although
\* slots are taken before the cache check and given back by another goroutine
\* than the one that notices the end of the job.
JobsWithinParallelism == Cardinality({s \in Steps : Alive(s)}) <= Parallelism

\* A step that has a job has only dependencies that are Cached or whose job
\* really Succeeded in the job subsystem, not merely according to the engine.
DependentsFollowSuccess ==
  \A s \in Steps : ext[s] # "none" =>
    \A d \in Deps[s] :
      \/ ext[d] = "Succeeded"
      \/ ext[d] = "none" /\ jobStatus[d] = "Cached"

\* Once wfr.status is final (as Listen computed it, or as stored), no job of
\* the run is alive and none will be submitted later.
CompletedMeansNoLiveJob ==
  status \in Final \/ db.status \in Final =>
    \A s \in Steps :
      ~Alive(s) /\ exec[s] \in {"send", "watch", "forward", "returned"}

\* `st.ready <- true' never blocks the scheduler, neither in Start() nor in
\* updateStatus(): the capacity-1 channel is empty whenever it is sent to.
ReadyNeverBlocks == \A s \in Steps : seen[s] = "readying" => ~ready[s]

\* Step.Watch() never waits on the channel after PaddleFlowJob.Watch() closed
\* it, where it would spin for ever on zero events.
NoReadFromClosed ==
  \A s \in Steps : exec[s] = "watch" /\ ch[s] = "empty" => jw[s] # "closed"

\* A run is Failed only if some step failed or was terminated, Terminated only
\* if some job was terminated and the user's Stop() took effect.
VerdictJustified ==
  /\ status = "Failed" \/ verdict = "Failed" =>
       \E s \in Steps : jobStatus[s] \in {"Failed", "Terminated"}
  /\ status = "Terminated" \/ verdict = "Terminated" =>
       stopPc = "done" /\ \E s \in Steps : ext[s] = "Terminated"

\* What the DB shows of a finished step never changes again: a late or stale
\* event never makes the stored runtime view go back.
RecordedEndIsStable ==
  [][\A s \in Steps :
       db.runtime[s].status \in Lasting =>
         db'.runtime[s] = db.runtime[s]]_vars

\* Whatever cancels the run (a user, a failed step), with job.Stop() failing
\* now and then, in the end no job of it is alive, and this stays so; even a
\* job submitted after the cancellation is stopped.
CancelStopsJobs ==
  \A s \in Steps : cancelled /\ Alive(s) ~> ~Alive(s)

\* If every job ends and nobody stops the run, it reaches a final status, so
\* does its record if the database answers, and Listen() returns; unless
\* Listen() looks at the steps while the last status of a finished job is still
\* to be assigned, because PaddleFlowJob.Watch() sends the event first.
RunCompletes ==
  JobsEnd /\ [](stopPc = "idle") =>
    <>(\/ listen = "returned" /\ ("dbErr" \in Env \/ db.status \in Final)
       \/ listen = "scan" /\ \E s \in Steps : exec[s] = "returned" /\ jw[s] = "assign")

-----------------------------------------------------------------------------
(* The inductive invariant behind the proofs *)

Unstarted == {"none", "select", "slot", "check", "cache", "submit"}

\* How the goroutines of one step, its flags and its job stand to each other.
StepInv(s) ==
  /\ exec[s] \in Unstarted => jobStatus[s] = "" /\ ~done[s]
  /\ exec[s] \in Unstarted \cup {"send"} => ext[s] = "none"
  /\ exec[s] \in {"watch", "forward"} => ext[s] # "none"
  /\ ext[s] = "none" => jw[s] = "none" /\ ch[s] = "empty" /\ got[s] = ""
  /\ ext[s] # "none" => jw[s] # "none" /\ jobStatus[s] \in {"", "Running"} \cup Ended
  /\ ext[s] = "none" /\ exec[s] \notin Unstarted =>
       jobStatus[s] \in {"Cancelled", "Cached", "Failed"}
  /\ exec[s] = "none" => ~submitted[s]
  /\ ~submitted[s] =>
       /\ ~ready[s] /\ ext[s] = "none"
       /\ \/ exec[s] \in {"none", "select"}
          \/ exec[s] \in {"send", "returned"} /\ jobStatus[s] = "Cancelled"
  /\ submitted[s] => isDepsReady(s)

\* What the poll reported is what the job subsystem says, and its last report
\* is on its way to Watch() until the step is done.
WatchInv(s) ==
  /\ \A v \in {jobStatus[s], got[s], ch[s]} :
       v \in Ended /\ ext[s] # "none" => ext[s] = v
  /\ jw[s] = "closed" <=> jobStatus[s] \in Ended /\ ext[s] # "none"
  /\ jw[s] # "assign" => got[s] = ""
  /\ done[s] => ext[s] \in {"none"} \cup Ended /\ exec[s] # "watch"
  /\ exec[s] = "returned" /\ ext[s] # "none" => done[s]
  /\ exec[s] \in {"watch", "forward"} /\ ~done[s]
       /\ (jw[s] = "closed" \/ got[s] \in Ended) => ch[s] \in Ended

\* What the scheduler saw is still true.
SeenInv(s) ==
  /\ seen[s] \in Ended => jobStatus[s] = seen[s]
  /\ seen[s] = "ended" => done[s]
  /\ seen[s] = "readying" =>
       exec[s] # "none" /\ ~submitted[s] /\ isDepsReady(s)

\* Once a verdict exists every step has settled, and nothing unsettles it.
Settled(s) == done[s] \/ jobStatus[s] \in Ended

OverInv ==
  listen = "assign" \/ status \in Final \/ db.status \in Final =>
    \A s \in Steps : Settled(s) /\ seen[s] # "readying"

\* Where the scheduler is and what its variables hold there.
SchedulerInv ==
  /\ status = "Terminating" => stopPc = "done"
  /\ listen = "assign" => verdict \in Final
  /\ listen \notin {"new", "boot"} => \A s \in Steps : exec[s] # "none"
  /\ listen = "boot" => \A s \in Steps : seen[s] \in {"unseen", "readying"}
  /\ listen \notin {"boot", "scan"} => \A s \in Steps : seen[s] = "unseen"

\* A step that the DB shows as finished has, and keeps, that status.
RecordInv(s) ==
  db.runtime[s].status \in Lasting =>
    /\ jobStatus[s] = db.runtime[s].status
    /\ db.runtime[s].id = (ext[s] # "none")

\* Every step between IncConcurrentJobs and DecConcurrentJobs has a token in
\* the channel; a failed submission leaves one behind, hence not equality.
Holders == {s \in Steps : \/ exec[s] \in {"check", "cache", "submit"}
                          \/ exec[s] \in {"watch", "forward"} /\ ~done[s]}

SlotInv == Cardinality(Holders) <= slots

IInv ==
  /\ \A s \in Steps : StepInv(s) /\ WatchInv(s) /\ SeenInv(s) /\ RecordInv(s)
  /\ SlotInv /\ OverInv /\ SchedulerInv /\ VerdictJustified

-----------------------------------------------------------------------------
(* Statements of the repository that the code does not keep *)

\* run.go:203, on the branch `else if st.done' of updateStatus(): "job has not
\* submitted, but has stopped by ctxCancel".
EndedMeansNeverSubmitted ==
  \A s \in Steps : seen[s] = "ended" => ext[s] = "none"

\* step.go:35, on Step.done: it says whether the step has finished running
\* (and is then skipped); so a finished step never becomes unfinished.
DoneIsStable == [][\A s \in Steps : done[s] => done'[s]]_vars

\* run.go:166, on processEvent(): a job that cannot be submitted is treated as
\* a failed job; so the run ends.
SubmitFailureEndsRun ==
  (\E s \in Steps : exec[s] = "send" /\ jobStatus[s] = "Failed")
    ~> listen = "returned"

\* step.go:364, logged by stopJob() when st.done: the job "has finished, no
\* need to stop"; so an iteration that starts there does not call job.Stop().
NoStopOfFinishedJob ==
  [][\A s \in Steps : stopper[s] = "wait" /\ done[s] => stopper'[s] # "stop"]_vars

\* workflow_test.go:234: a run that Stop() was called on, not all of whose
\* steps succeeded, does not end as if nothing had happened.
StoppedRunNotSucceeded ==
  listen = "returned" /\ stopPc = "done"
    /\ (\E s \in Steps : jobStatus[s] \notin {"Succeeded", "Cached"})
    => status # "Succeeded"
=============================================================================
