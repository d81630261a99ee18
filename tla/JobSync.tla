------------------------------- MODULE JobSync -------------------------------
(***************************************************************************)
(* The job subsystem for one job: pkg/job (CreateJob, StopJobByID,         *)
(* UpdateJob), the JobSync controller that follows the cluster's events    *)
(* and writes the job's record, and the job garbage collector.             *)
(*                                                                         *)
(* The event handlers read nothing but the event, and events arrive in     *)
(* order, so a change in the cluster and the handler's Add() to the        *)
(* workqueue are one step; the delay between them is the queue's.  One     *)
(* worker serves the queue.  Jobs do not share state: one job is enough.   *)
(***************************************************************************)
EXTENDS Naturals, Sequences

CONSTANTS
  Kind,        \* "vcjob" or "spark"
  Faults,      \* what may go wrong: a subset of FaultKinds
  MaxFaults,   \* bound on the number of database errors the worker meets
  MaxChanges,  \* bound on the number of phase changes
  MaxPodEvents \* bound on the number of updatePod() events

\* "startErr", "commitErr": creating the job in the cluster, or committing its
\* record, fails; "slowCommit": the worker may run before the commit; "getErr",
\* "saveErr": GetJobByID() or Save() fails.
FaultKinds == {"startErr", "commitErr", "slowCommit", "getErr", "saveErr"}

ASSUME KindAssumption == Kind \in {"vcjob", "spark"}
ASSUME FaultsAssumption == Faults \subseteq FaultKinds
ASSUME BoundsAssumption ==
  MaxFaults \in Nat /\ MaxChanges \in Nat /\ MaxPodEvents \in Nat

DefaultSyncRetryTimes == 3

VARIABLES
  submit,   \* where CreateJob() is: "new", "tx", "started", "done" or "failed"
  row,      \* the committed record's status, "none" without a record
  phase,    \* phase of the job in the cluster, the last one once it is deleted
  there,    \* the job exists in the cluster
  queue,    \* the JobSync workqueue
  later,    \* items the queue adds after a delay: retries and terminations
  made,     \* number of items made so far: an item is a pointer, hence unique
  gc,       \* the garbage collector's queue holds the job
  faults,   \* number of database errors so far
  changes,  \* number of phase changes so far
  pods      \* number of updatePod() events so far

vars == <<submit, row, phase, there, queue, later, made, gc, faults, changes, pods>>

Immutable == {"succeeded", "failed", "terminated"}
JobStatus == {"", "pending", "running", "terminating"} \cup Immutable
Phases == {"", "Pending", "Running", "Terminating", "Completed", "Aborted", "Failed"}
EndPhases == {"Completed", "Aborted", "Failed"}

Init ==
  /\ submit = "new" /\ row = "none"
  /\ phase = "" /\ there = FALSE
  /\ queue = <<>> /\ later = {} /\ made = 0
  /\ gc = FALSE /\ faults = 0 /\ changes = 0 /\ pods = 0

\* Mutant: a job that is being terminated counts as terminated.
StatusOfTerminating(p) ==
  CASE p = "" -> IF Kind = "spark" THEN "pending" ELSE ""
    [] p = "Pending" -> "pending"
    [] p = "Running" -> "running"
    [] p = "Completed" -> "succeeded"
    [] p \in {"Terminating", "Aborted"} -> "terminated"
    [] p = "Failed" -> "failed"

\* GetVCJobStatus() and GetSparkJobStatus(): "" is an error.  The operator's
\* states stand for the phase they are mapped like.
StatusOf(p) ==
  CASE p = "" -> IF Kind = "spark" THEN "pending" ELSE ""
    [] p = "Pending" -> "pending"
    [] p = "Running" -> "running"
    [] p = "Terminating" -> "terminating"
    [] p = "Completed" -> "succeeded"
    [] p = "Aborted" -> "terminated"
    [] p = "Failed" -> "failed"

Item(n, action, status) ==
  [n |-> n, action |-> action, status |-> status, retries |-> 0]

\* jobQueue.Add() of a new item, when the queue is q.
Enqueue(q, action, status) ==
  /\ queue' = Append(q, Item(made, action, status))
  /\ made' = made + 1

-----------------------------------------------------------------------------
(* CreateJob: persistAndExecuteJob() creates the job within a transaction *)

BeginTx ==
  /\ submit = "new" /\ submit' = "tx"
  /\ UNCHANGED <<row, phase, there, queue, later, made, gc, faults, changes, pods>>

\* StartJob() succeeds; the informer sees the new job (addVCJob), whose empty
\* phase is taken for pending.
StartJob ==
  /\ submit = "tx" /\ submit' = "started"
  /\ there' = TRUE
  /\ Enqueue(queue, "update", "pending")
  /\ UNCHANGED <<row, phase, later, gc, faults, changes, pods>>

StartJobErr ==
  /\ submit = "tx" /\ "startErr" \in Faults
  /\ submit' = "failed"
  /\ UNCHANGED <<row, phase, there, queue, later, made, gc, faults, changes, pods>>

Commit ==
  /\ submit = "started" /\ submit' = "done"
  /\ row' = ""
  /\ UNCHANGED <<phase, there, queue, later, made, gc, faults, changes, pods>>

\* The record is rolled back, the job in the cluster stays.
CommitErr ==
  /\ submit = "started" /\ "commitErr" \in Faults
  /\ submit' = "failed"
  /\ UNCHANGED <<row, phase, there, queue, later, made, gc, faults, changes, pods>>

-----------------------------------------------------------------------------
(* The cluster, and the handlers of its events *)

\* How a job moves; a job that someone terminates may still complete.
NextPhases(p) ==
  CASE p = "" -> {"Pending", "Running", "Failed"}
    [] p = "Pending" -> {"Running", "Terminating", "Failed"}
    [] p = "Running" -> {"Terminating", "Completed", "Failed"}
    [] p = "Terminating" -> {"Aborted", "Failed"}
    [] OTHER -> {}

\* updateVCJob() of JobSync, and updateVCJob() of the garbage collector, which
\* queues a job that has ended (isCleanJob).
ChangePhase ==
  /\ there /\ changes < MaxChanges /\ changes' = changes + 1
  /\ \E p \in NextPhases(phase) :
       /\ phase' = p
       /\ Enqueue(queue, "update", StatusOf(p))
       /\ gc' = (gc \/ StatusOf(p) \in Immutable)
  /\ UNCHANGED <<submit, row, there, later, faults, pods>>

\* The job is deleted in the cluster, when the queue is q.  deleteVCJob() does
\* not report a job without a known phase.
Deleted(q) ==
  /\ there' = FALSE
  /\ IF StatusOf(phase) = "" THEN queue' = q /\ UNCHANGED made
     ELSE Enqueue(q, "delete", StatusOf(phase))

\* updatePod() of a pending pod with a waiting container; unless the reason is
\* a normal one the job is to be terminated after JobPendingTTLSeconds.
UpdatePod ==
  /\ Kind = "vcjob" /\ there /\ phase \in {"", "Pending"}
  /\ pods < MaxPodEvents /\ pods' = pods + 1
  /\ queue' = Append(queue, Item(made, "update", ""))
  /\ \E waiting \in {"valid", "invalid"} :
       later' = IF waiting = "valid" THEN later
                ELSE later \cup {Item(made + 1, "terminate", "")}
  /\ made' = made + 2
  /\ UNCHANGED <<submit, row, phase, there, gc, faults, changes>>

\* processWorkItem() of the garbage collector, JobTTLSeconds after the end.
Clean ==
  /\ gc /\ gc' = FALSE
  /\ IF there THEN Deleted(queue) ELSE UNCHANGED <<there, queue, made>>
  /\ UNCHANGED <<submit, row, phase, later, faults, changes, pods>>

\* StopJobByID(), called by the engine: needs the record and the job.
StopJobByID ==
  /\ row # "none" /\ there
  /\ Deleted(queue)
  /\ UNCHANGED <<submit, row, phase, later, gc, faults, changes, pods>>

-----------------------------------------------------------------------------
(* The JobSync worker *)

Now == Head(queue)
Working == queue # <<>> /\ (submit # "started" \/ "slowCommit" \in Faults)

\* Mutant: an item is given one try fewer.
RetryLess(item) ==
  later' = IF item.retries < DefaultSyncRetryTimes - 1
           THEN later \cup {[item EXCEPT !.retries = @ + 1]} ELSE later

\* processWorkItem() on an error.
Retry(item) ==
  later' = IF item.retries < DefaultSyncRetryTimes
           THEN later \cup {[item EXCEPT !.retries = @ + 1]} ELSE later

\* Mutant: an ended job may be updated.
NewStatusAlways(status) == IF status # "" THEN status ELSE row

\* UpdateJob(): an empty status changes nothing, an ended job keeps its own.
NewStatus(status) == IF status # "" /\ row \notin Immutable THEN status ELSE row

\* doUpdateAction() and doDeleteAction().
Update ==
  /\ Working /\ Now.action \in {"update", "delete"} /\ row # "none"
  /\ row' = NewStatus(IF Now.action = "delete" THEN "terminated" ELSE Now.status)
  /\ queue' = Tail(queue)
  /\ UNCHANGED <<submit, phase, there, later, made, gc, faults, changes, pods>>

\* GetJobByID() finds no record ...
NotFound ==
  /\ Working /\ row = "none"
  /\ IF Now.action = "terminate" THEN UNCHANGED later ELSE Retry(Now)
  /\ queue' = Tail(queue)
  /\ UNCHANGED <<submit, row, phase, there, made, gc, faults, changes, pods>>

\* ... or fails, which is taken for the same.
GetErr ==
  /\ Working /\ row # "none" /\ "getErr" \in Faults
  /\ faults < MaxFaults /\ faults' = faults + 1
  /\ IF Now.action = "terminate" THEN UNCHANGED later ELSE Retry(Now)
  /\ queue' = Tail(queue)
  /\ UNCHANGED <<submit, row, phase, there, made, gc, changes, pods>>

\* Save() fails: UpdateJob() returns the nil error of GetJobByID().
SaveErr ==
  /\ Working /\ row # "none" /\ "saveErr" \in Faults
  /\ Now.action \in {"update", "delete"}
  /\ faults < MaxFaults /\ faults' = faults + 1
  /\ queue' = Tail(queue)
  /\ UNCHANGED <<submit, row, phase, there, later, made, gc, changes, pods>>

\* doTerminateAction(): only a job recorded as pending is stopped.  Stopping
\* fails if the job is gone, or if its record cannot be read again.
TerminateSkip ==
  /\ Working /\ Now.action = "terminate" /\ row \notin {"none", "pending"}
  /\ queue' = Tail(queue)
  /\ UNCHANGED <<submit, row, phase, there, later, made, gc, faults, changes, pods>>

TerminateStop ==
  /\ Working /\ Now.action = "terminate" /\ row = "pending" /\ there
  /\ Deleted(Tail(queue))
  /\ UNCHANGED <<submit, row, phase, later, gc, faults, changes, pods>>

TerminateErr ==
  /\ Working /\ Now.action = "terminate" /\ row = "pending"
  /\ \/ ~there /\ UNCHANGED faults
     \/ "getErr" \in Faults /\ faults < MaxFaults /\ faults' = faults + 1
  /\ Retry(Now)
  /\ queue' = Tail(queue)
  /\ UNCHANGED <<submit, row, phase, there, made, gc, changes, pods>>

\* The delay of an item is over.
Ripe(item) ==
  /\ item \in later
  /\ later' = later \ {item}
  /\ queue' = Append(queue, item)
  /\ UNCHANGED <<submit, row, phase, there, made, gc, faults, changes, pods>>

-----------------------------------------------------------------------------

CreateJob == BeginTx \/ StartJob \/ StartJobErr \/ Commit \/ CommitErr

Worker == \/ Update \/ NotFound \/ GetErr \/ SaveErr
          \/ TerminateSkip \/ TerminateStop \/ TerminateErr

Next ==
  \/ CreateJob \/ ChangePhase \/ UpdatePod \/ Clean \/ StopJobByID \/ Worker
  \/ \E item \in later : Ripe(item)

Spec == Init /\ [][Next]_vars

ItemType == [n : Nat, action : {"update", "delete", "terminate"},
             status : JobStatus, retries : 0..DefaultSyncRetryTimes]

\* The items that the bounds allow to be made.
Items == [n : 0..(1 + MaxChanges + 2 * MaxPodEvents),
          action : {"update", "delete", "terminate"},
          status : JobStatus, retries : 0..DefaultSyncRetryTimes]

\* The transaction ends, the worker runs on and every delay is finite; what
\* the cluster and the users do with the job is up to them.
FairSpec ==
  /\ Spec
  /\ WF_vars(Commit \/ CommitErr) /\ WF_vars(Worker)
  /\ \A item \in Items : WF_vars(Ripe(item))

-----------------------------------------------------------------------------
(* Properties *)

JobSyncTypeOK ==
  /\ submit \in {"new", "tx", "started", "done", "failed"}
  /\ row \in {"none"} \cup JobStatus
  /\ phase \in Phases /\ there \in BOOLEAN
  /\ queue \in Seq(ItemType) /\ later \subseteq ItemType
  /\ made \in Nat /\ gc \in BOOLEAN
  /\ faults \in 0..MaxFaults /\ changes \in 0..MaxChanges /\ pods \in 0..MaxPodEvents

\* Whatever is retried, lost or late, the record never claims an outcome that
\* the job did not have: it says succeeded or failed only if the job did, and
\* terminated only if the job is gone or was aborted.
OutcomeIsReal ==
  /\ row = "succeeded" => phase = "Completed"
  /\ row = "failed" => phase = "Failed"
  /\ row = "terminated" => ~there \/ phase = "Aborted"

\* The inductive invariant behind OutcomeIsReal: what an item waiting in the
\* queue, or for its next try, would write is as real as what the record says.
ItemReal(item) ==
  /\ item.action = "update" =>
       /\ item.status = "succeeded" => phase = "Completed"
       /\ item.status = "failed" => phase = "Failed"
       /\ item.status = "terminated" => phase = "Aborted"
  /\ item.action = "delete" => ~there /\ submit \notin {"new", "tx"}

JobSyncInv ==
  /\ OutcomeIsReal
  /\ \A k \in 1..Len(queue) : ItemReal(queue[k])
  /\ \A item \in later : ItemReal(item)
  /\ row # "none" => submit = "done"
  /\ there => submit \notin {"new", "tx"}

\* An ended record stays as it is, and a job known to run is never taken for
\* pending again (and then stopped by the pending timeout), except by an item
\* that had to be tried again.  As long as the database answers, and the worker
\* does not overtake the commit, a job that completed is not recorded as
\* terminated, although the collector or a user's stop deletes it while its last
\* update is still queued.
RecordOnlyAdvances ==
  [][/\ row \in Immutable => row' = row
     /\ row \in {"running", "terminating"} /\ row' \in {"", "pending"} =>
          Now.retries > 0
     /\ row' = "terminated" /\ row # "terminated" /\ phase = "Completed" =>
          faults > 0]_vars

\* The inductive invariants behind RecordOnlyAdvances.  The queue keeps the order
\* of events.  An update to "pending" that has not been tried yet comes before
\* all that says the job was running ...
Begun == {"running", "terminating"}
BegunItem(item) == item.action = "update" /\ item.status \in Begun
UntriedPending(item) == item.action = "update" /\ item.status = "pending" /\ item.retries = 0
NoneBegun(q, l, r) ==
  r \notin Begun /\ (\A item \in l : ~BegunItem(item)) /\ \A k \in 1..Len(q) : ~BegunItem(q[k])
Ordered(q, l, r) ==
  \A k \in 1..Len(q) :
    UntriedPending(q[k]) =>
      r \notin Begun /\ (\A item \in l : ~BegunItem(item)) /\ \A j \in 1..k : ~BegunItem(q[j])

OrderInv ==
  /\ submit \in {"new", "tx"} => phase = ""
  /\ submit = "done" => row # "none"
  /\ phase = "" => NoneBegun(queue, later, row)
  /\ Ordered(queue, later, row)
  /\ \A item \in later : ~UntriedPending(item)

\* ... and the update of a completed job before its deletion, unless the worker
\* had to try it again.
CompletedFirst(q) ==
  \E k \in 1..Len(q) : /\ q[k].action = "update" /\ q[k].status = "succeeded"
                       /\ \A j \in 1..k : q[j].action # "delete"

CompletedInv ==
  phase = "Completed" /\ faults = 0 /\ submit # "failed" =>
    row = "succeeded" \/ (row \notin Immutable /\ CompletedFirst(queue))

\* An update that cannot be made is logged as "sync job status failed" and
\* retried (job_sync.go:151); so, with at most DefaultSyncRetryTimes failures, a
\* job that has ended or has vanished from the cluster is recorded as ended.
EndIsRecorded ==
  submit = "done" /\ (phase \in EndPhases \/ ~there) ~> row \in Immutable

-----------------------------------------------------------------------------
(* Statements of the repository that the code does not keep *)

\* pipeline/run.go:107, on Stop(): "all steps has terminated eventually"; so a
\* job that was deleted is recorded as ended.
StoppedJobTerminates == submit = "done" /\ ~there ~> row \in Immutable
=============================================================================
