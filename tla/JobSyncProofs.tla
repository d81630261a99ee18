---------------------------- MODULE JobSyncProofs ----------------------------
(* What the job's record says is what happened to the job, for any number of *)
(* faults, phase changes and pod events.                                     *)
EXTENDS JobSync, TLAPS

\* StatusOf(): what GetVCJobStatus() and GetSparkJobStatus() return is a status,
\* and each final one comes from its own phase only.
LEMMA StatusOfPhase ==
  ASSUME NEW p \in Phases
  PROVE  /\ StatusOf(p) \in JobStatus
         /\ StatusOf(p) = "succeeded" => p = "Completed"
         /\ StatusOf(p) = "failed" => p = "Failed"
         /\ StatusOf(p) = "terminated" => p = "Aborted"
BY DEF StatusOf, Phases, JobStatus, Immutable

\* ChangePhase: the cluster keeps a job that has ended as it is.
LEMMA NextPhasesOfPhase ==
  ASSUME NEW p \in Phases, NEW q \in NextPhases(p)
  PROVE  q \in Phases /\ p \notin EndPhases
BY DEF NextPhases, Phases, EndPhases

\* Enqueue(): a new item is well-formed.
LEMMA ItemTyped ==
  ASSUME NEW n \in Nat, NEW a \in {"update", "delete", "terminate"},
         NEW s \in JobStatus
  PROVE  /\ Item(n, a, s) \in ItemType
         /\ Item(n, a, s).action = a /\ Item(n, a, s).status = s
BY DEF Item, ItemType, DefaultSyncRetryTimes

\* deleteVCJob(): the item of a deletion.
LEMMA DeleteTyped ==
  \A n \in Nat, st \in JobStatus :
    Item(n, "delete", st) \in ItemType /\ Item(n, "delete", st).action = "delete"
BY ItemTyped

\* processWorkItem(): a retried item differs from the old one in its count.
LEMMA RetryTyped ==
  ASSUME JobSyncTypeOK, NEW item \in ItemType, Retry(item)
  PROVE  /\ later' \subseteq ItemType
         /\ \A x \in later' : \/ x \in later
                              \/ x.action = item.action /\ x.status = item.status
BY DEF JobSyncTypeOK, Retry, ItemType, DefaultSyncRetryTimes

\* UpdateJob(): it stores a status.
LEMMA NewStatusTyped ==
  ASSUME row \in JobStatus, NEW s \in JobStatus
  PROVE  NewStatus(s) \in JobStatus /\ NewStatus(s) \in {row, s}
BY DEF NewStatus

\* The workqueue: what is in the queue after Add() and after Get().
LEMMA QueueAppend ==
  ASSUME NEW q \in Seq(ItemType), NEW x \in ItemType
  PROVE  /\ Append(q, x) \in Seq(ItemType)
         /\ \A k \in 1..Len(Append(q, x)) :
              \/ k \in 1..Len(q) /\ Append(q, x)[k] = q[k]
              \/ Append(q, x)[k] = x
OBVIOUS

\* The workqueue after Get(): what is left was there before.
LEMMA QueueTail ==
  ASSUME NEW q \in Seq(ItemType), q # <<>>
  PROVE  /\ Head(q) \in ItemType /\ Tail(q) \in Seq(ItemType)
         /\ 1 \in 1..Len(q) /\ Head(q) = q[1]
         /\ \A k \in 1..Len(Tail(q)) : k + 1 \in 1..Len(q) /\ Tail(q)[k] = q[k + 1]
OBVIOUS

\* The actions of Next, one disjunct each.
LEMMA NextCases ==
  ASSUME Next
  PROVE  \/ BeginTx \/ StartJob \/ StartJobErr \/ Commit \/ CommitErr
         \/ ChangePhase \/ UpdatePod \/ Clean \/ StopJobByID
         \/ Update \/ NotFound \/ GetErr \/ SaveErr
         \/ TerminateSkip \/ TerminateStop \/ TerminateErr
         \/ \E item \in later : Ripe(item)
BY DEF Next, CreateJob, Worker

-----------------------------------------------------------------------------
(* Types *)

\* The item the worker takes is a well-formed one.
LEMMA WorkingTyped ==
  ASSUME JobSyncTypeOK, Working
  PROVE  /\ Now \in ItemType /\ Tail(queue) \in Seq(ItemType)
         /\ Now.status \in JobStatus
BY QueueTail DEF JobSyncTypeOK, Working, Now, ItemType

\* deleteVCJob(): a deletion keeps the queue well-formed.
LEMMA DeletedTyped ==
  ASSUME JobSyncTypeOK, NEW q \in Seq(ItemType), Deleted(q)
  PROVE  there' = FALSE /\ queue' \in Seq(ItemType) /\ made' \in Nat
<1>1. phase \in Phases /\ made \in Nat
  BY DEF JobSyncTypeOK
<1>2. StatusOf(phase) \in JobStatus
  BY <1>1, StatusOfPhase
<1>3. Item(made, "delete", StatusOf(phase)) \in ItemType
  BY <1>1, <1>2, ItemTyped
<1>4. Append(q, Item(made, "delete", StatusOf(phase))) \in Seq(ItemType)
  BY <1>3, QueueAppend
<1>5. there' = FALSE
  BY DEF Deleted
<1>6. CASE StatusOf(phase) = ""
  BY <1>1, <1>5, <1>6 DEF Deleted
<1>7. CASE StatusOf(phase) # ""
  <2>1. Enqueue(q, "delete", StatusOf(phase))
    BY <1>7 DEF Deleted
  <2> QED
    BY <1>1, <1>4, <1>5, <2>1 DEF Enqueue
<1> QED
  BY <1>6, <1>7

\* Every step of CreateJob(), the cluster, the collector, the engine and the
\* worker keeps the types.
LEMMA TypeStep ==
  ASSUME JobSyncTypeOK, [Next]_vars
  PROVE  JobSyncTypeOK'
<1> USE DEF JobSyncTypeOK
<1>0. "" \in JobStatus /\ "pending" \in JobStatus /\ "terminated" \in JobStatus
  BY DEF JobStatus, Immutable
<1>1. CASE BeginTx
  BY <1>1 DEF BeginTx
<1>2. CASE StartJob
  <2>1. Item(made, "update", "pending") \in ItemType
    BY <1>0, ItemTyped
  <2>2. queue' \in Seq(ItemType) /\ made' \in Nat
    BY <1>2, <2>1, QueueAppend DEF StartJob, Enqueue
  <2> QED
    BY <1>2, <2>2 DEF StartJob
<1>3. CASE StartJobErr
  BY <1>3 DEF StartJobErr
<1>4. CASE Commit
  BY <1>0, <1>4 DEF Commit
<1>5. CASE CommitErr
  BY <1>5 DEF CommitErr
<1>6. CASE ChangePhase
  <2>1. PICK p \in NextPhases(phase) :
          /\ phase' = p
          /\ Enqueue(queue, "update", StatusOf(p))
          /\ gc' = (gc \/ StatusOf(p) \in Immutable)
    BY <1>6 DEF ChangePhase
  <2>2. p \in Phases
    BY <2>1, NextPhasesOfPhase
  <2>3. Item(made, "update", StatusOf(p)) \in ItemType
    BY <2>2, StatusOfPhase, ItemTyped
  <2>4. queue' \in Seq(ItemType) /\ made' \in Nat
    BY <2>1, <2>3, QueueAppend DEF Enqueue
  <2>5. changes' \in 0..MaxChanges
    BY <1>6, BoundsAssumption DEF ChangePhase
  <2>6. gc' \in BOOLEAN
    BY <2>1, Zenon
  <2> QED
    BY <1>6, <2>1, <2>2, <2>4, <2>5, <2>6 DEF ChangePhase
<1>7. CASE UpdatePod
  <2>0. made \in Nat /\ made + 1 \in Nat /\ made + 2 \in Nat
    OBVIOUS
  <2>1. Item(made, "update", "") \in ItemType /\ Item(made + 1, "terminate", "") \in ItemType
    BY <1>0, <2>0, ItemTyped
  <2>2. queue' \in Seq(ItemType)
    BY <1>7, <2>1, QueueAppend DEF UpdatePod
  <2>3. later' \subseteq ItemType
    BY <1>7, <2>1 DEF UpdatePod
  <2>4. pods' \in 0..MaxPodEvents /\ made' \in Nat
    <3>1. pods < MaxPodEvents /\ pods' = pods + 1 /\ made' = made + 2
      BY <1>7 DEF UpdatePod
    <3>2. pods \in 0..MaxPodEvents
      OBVIOUS
    <3> QED
      BY <2>0, <3>1, <3>2, BoundsAssumption
  <2> QED
    BY <1>7, <2>2, <2>3, <2>4 DEF UpdatePod
<1>8. CASE Clean
  <2>1. there' \in BOOLEAN /\ queue' \in Seq(ItemType) /\ made' \in Nat
    BY <1>8, DeletedTyped DEF Clean
  <2> QED
    BY <1>8, <2>1 DEF Clean
<1>9. CASE StopJobByID
  BY <1>9, DeletedTyped DEF StopJobByID
<1>10. CASE Update
  <2>1. Now.status \in JobStatus /\ Tail(queue) \in Seq(ItemType)
    BY <1>10, WorkingTyped DEF Update
  <2>2. row \in JobStatus
    BY <1>10 DEF Update
  <2>3. row' \in JobStatus
    BY <1>0, <1>10, <2>1, <2>2, NewStatusTyped DEF Update
  <2> QED
    BY <1>10, <2>1, <2>3 DEF Update
<1>11. CASE NotFound
  <2>1. Now \in ItemType /\ Tail(queue) \in Seq(ItemType)
    BY <1>11, WorkingTyped DEF NotFound
  <2>2. later' \subseteq ItemType
    BY <1>11, <2>1, RetryTyped DEF NotFound
  <2> QED
    BY <1>11, <2>1, <2>2 DEF NotFound
<1>12. CASE GetErr
  <2>1. Now \in ItemType /\ Tail(queue) \in Seq(ItemType)
    BY <1>12, WorkingTyped DEF GetErr
  <2>2. later' \subseteq ItemType
    BY <1>12, <2>1, RetryTyped DEF GetErr
  <2>3. faults' \in 0..MaxFaults
    BY <1>12, BoundsAssumption DEF GetErr
  <2> QED
    BY <1>12, <2>1, <2>2, <2>3 DEF GetErr
<1>13. CASE SaveErr
  <2>1. Tail(queue) \in Seq(ItemType)
    BY <1>13, WorkingTyped DEF SaveErr
  <2>2. faults' \in 0..MaxFaults
    BY <1>13, BoundsAssumption DEF SaveErr
  <2> QED
    BY <1>13, <2>1, <2>2 DEF SaveErr
<1>14. CASE TerminateSkip
  <2>1. Tail(queue) \in Seq(ItemType)
    BY <1>14, WorkingTyped DEF TerminateSkip
  <2> QED
    BY <1>14, <2>1 DEF TerminateSkip
<1>15. CASE TerminateStop
  <2>1. Tail(queue) \in Seq(ItemType)
    BY <1>15, WorkingTyped DEF TerminateStop
  <2>2. there' = FALSE /\ queue' \in Seq(ItemType) /\ made' \in Nat
    BY <1>15, <2>1, DeletedTyped DEF TerminateStop
  <2> QED
    BY <1>15, <2>2 DEF TerminateStop
<1>16. CASE TerminateErr
  <2>1. Now \in ItemType /\ Tail(queue) \in Seq(ItemType)
    BY <1>16, WorkingTyped DEF TerminateErr
  <2>2. later' \subseteq ItemType
    BY <1>16, <2>1, RetryTyped DEF TerminateErr
  <2>3. faults' \in 0..MaxFaults
    BY <1>16, BoundsAssumption DEF TerminateErr
  <2> QED
    BY <1>16, <2>1, <2>2, <2>3 DEF TerminateErr
<1>17. ASSUME NEW item \in later, Ripe(item)
       PROVE  JobSyncTypeOK'
  BY <1>17, QueueAppend DEF Ripe
<1>18. CASE UNCHANGED vars
  BY <1>18 DEF vars
<1> QED
  BY <1>1, <1>2, <1>3, <1>4, <1>5, <1>6, <1>7, <1>8, <1>9, <1>10, <1>11, <1>12,
     <1>13, <1>14, <1>15, <1>16, <1>17, <1>18, NextCases, Zenon

\* Before CreateJob() is called nothing is queued and there is no record.
LEMMA TypeInit == ASSUME Init PROVE JobSyncTypeOK
<1>0. queue = <<>> /\ faults = 0 /\ changes = 0 /\ pods = 0
  BY Zenon DEF Init
<1>1. queue \in Seq(ItemType)
  BY <1>0
<1>2. faults \in 0..MaxFaults /\ changes \in 0..MaxChanges /\ pods \in 0..MaxPodEvents
  BY <1>0, BoundsAssumption
<1> QED
  BY <1>1, <1>2 DEF Init, JobSyncTypeOK, Phases

\* The records, queues and counters of the job subsystem keep their types.
THEOREM JobSyncTypes == Spec => []JobSyncTypeOK
<1>1. Init => JobSyncTypeOK
  BY TypeInit
<1>2. JobSyncTypeOK /\ [Next]_vars => JobSyncTypeOK'
  BY TypeStep
<1> QED
  BY <1>1, <1>2, PTL DEF Spec

-----------------------------------------------------------------------------
(* The record tells the truth *)

\* ItemReal of an item when the job is in phase p, exists if e, and CreateJob()
\* is at s; AllReal of all items of a queue and of a set of delayed ones.
RealIn(item, p, e, s) ==
  /\ item.action = "update" =>
       /\ item.status = "succeeded" => p = "Completed"
       /\ item.status = "failed" => p = "Failed"
       /\ item.status = "terminated" => p = "Aborted"
  /\ item.action = "delete" => ~e /\ s \notin {"new", "tx"}

QueueReal(q, p, e, s) == \A k \in 1..Len(q) : RealIn(q[k], p, e, s)
LaterReal(l, p, e, s) == \A item \in l : RealIn(item, p, e, s)

\* JobSyncInv in these terms.
LEMMA InvReal ==
  JobSyncInv <=> /\ OutcomeIsReal
                 /\ QueueReal(queue, phase, there, submit)
                 /\ LaterReal(later, phase, there, submit)
                 /\ row # "none" => submit = "done"
                 /\ there => submit \notin {"new", "tx"}
BY DEF JobSyncInv, ItemReal, RealIn, QueueReal, LaterReal

\* The same of the state after a step.
LEMMA InvRealPrime ==
  JobSyncInv' <=> /\ OutcomeIsReal'
                  /\ QueueReal(queue', phase', there', submit')
                  /\ LaterReal(later', phase', there', submit')
                  /\ row' # "none" => submit' = "done"
                  /\ there' => submit' \notin {"new", "tx"}
BY DEF JobSyncInv, ItemReal, RealIn, QueueReal, LaterReal

\* Add(): the queue stays real if the new item is.
LEMMA AppendReal ==
  ASSUME NEW q \in Seq(ItemType), NEW x \in ItemType, NEW p, NEW e, NEW s,
         QueueReal(q, p, e, s), RealIn(x, p, e, s)
  PROVE  QueueReal(Append(q, x), p, e, s)
BY QueueAppend DEF QueueReal

\* Get(): the item taken is real and so is the rest.
LEMMA TailReal ==
  ASSUME NEW q \in Seq(ItemType), q # <<>>, NEW p, NEW e, NEW s,
         QueueReal(q, p, e, s)
  PROVE  RealIn(Head(q), p, e, s) /\ QueueReal(Tail(q), p, e, s)
BY QueueTail DEF QueueReal

\* What is real stays so while the job moves on: an end phase is final and a
\* deleted job does not come back.
LEMMA StaysReal ==
  ASSUME NEW p, NEW e, NEW s, NEW p2, NEW e2, NEW s2, NEW q, NEW l,
         p2 = p \/ p \notin EndPhases,
         ~e /\ s \notin {"new", "tx"} => ~e2 /\ s2 \notin {"new", "tx"}
  PROVE  /\ QueueReal(q, p, e, s) => QueueReal(q, p2, e2, s2)
         /\ LaterReal(l, p, e, s) => LaterReal(l, p2, e2, s2)
<1>1. ASSUME NEW x, RealIn(x, p, e, s) PROVE RealIn(x, p2, e2, s2)
  BY <1>1 DEF RealIn, EndPhases
<1> QED
  BY <1>1 DEF QueueReal, LaterReal

\* A retried item is as real as it was.
LEMMA RetryReal ==
  ASSUME JobSyncTypeOK, NEW item \in ItemType, Retry(item),
         NEW p, NEW e, NEW s, RealIn(item, p, e, s), LaterReal(later, p, e, s)
  PROVE  LaterReal(later', p, e, s)
BY RetryTyped DEF LaterReal, RealIn

\* deleteVCJob(): the item it makes is real, because the job is gone.
LEMMA DeletedReal ==
  ASSUME JobSyncTypeOK, NEW q \in Seq(ItemType), Deleted(q),
         submit \notin {"new", "tx"}, QueueReal(q, phase, FALSE, submit)
  PROVE  QueueReal(queue', phase, FALSE, submit)
<1>1. CASE StatusOf(phase) = ""
  BY <1>1 DEF Deleted
<1>2. CASE StatusOf(phase) # ""
  <2>1. phase \in Phases /\ made \in Nat
    BY DEF JobSyncTypeOK
  <2> DEFINE x == Item(made, "delete", StatusOf(phase))
  <2>2. x \in ItemType /\ x.action = "delete"
    BY <2>1, StatusOfPhase, ItemTyped
  <2>3. RealIn(x, phase, FALSE, submit)
    BY <2>2 DEF RealIn
  <2>4. queue' = Append(q, x)
    BY <1>2 DEF Deleted, Enqueue
  <2> HIDE DEF x
  <2> QED
    BY <2>2, <2>3, <2>4, AppendReal
<1> QED
  BY <1>1, <1>2

\* A step that only moves the job on, or CreateJob(), keeps the invariant.
LEMMA QuietStep ==
  ASSUME JobSyncTypeOK, JobSyncInv,
         row' = row, phase' = phase, there' = there, later' = later,
         queue' = queue, submit' \notin {"new", "tx"} \/ submit' = submit \/ ~there,
         submit \notin {"new", "tx"} => submit' \notin {"new", "tx"},
         row # "none" => submit' = "done"
  PROVE  JobSyncInv'
<1>1. /\ OutcomeIsReal
      /\ QueueReal(queue, phase, there, submit)
      /\ LaterReal(later, phase, there, submit)
      /\ there => submit \notin {"new", "tx"}
  BY InvReal
<1>2. QueueReal(queue, phase, there, submit') /\ LaterReal(later, phase, there, submit')
  BY <1>1, StaysReal
<1>3. OutcomeIsReal'
  BY <1>1 DEF OutcomeIsReal
<1>4. there' => submit' \notin {"new", "tx"}
  BY <1>1
<1> QED
  BY <1>2, <1>3, <1>4, InvRealPrime

\* A step of the worker that takes an item and writes neither record nor job:
\* the item is forgotten or retried.
LEMMA WorkerStep ==
  ASSUME JobSyncTypeOK, JobSyncInv, Working, queue' = Tail(queue),
         later' = later \/ Retry(Now),
         row' = row, phase' = phase, there' = there, submit' = submit
  PROVE  JobSyncInv'
<1>1. /\ OutcomeIsReal
      /\ QueueReal(queue, phase, there, submit)
      /\ LaterReal(later, phase, there, submit)
      /\ row # "none" => submit = "done"
      /\ there => submit \notin {"new", "tx"}
  BY InvReal
<1>2. queue \in Seq(ItemType) /\ queue # <<>>
  BY DEF JobSyncTypeOK, Working
<1>3. RealIn(Now, phase, there, submit) /\ QueueReal(Tail(queue), phase, there, submit)
  BY <1>1, <1>2, TailReal DEF Now
<1>4. LaterReal(later', phase, there, submit)
  BY <1>1, <1>3, WorkingTyped, RetryReal
<1>5. OutcomeIsReal'
  BY <1>1 DEF OutcomeIsReal
<1> QED
  BY <1>1, <1>3, <1>4, <1>5, InvRealPrime

\* A step that deletes an existing job and reports it to the queue q.
LEMMA DeleteStep ==
  ASSUME JobSyncTypeOK, JobSyncInv, NEW q \in Seq(ItemType), there, Deleted(q),
         QueueReal(q, phase, there, submit),
         row' = row, phase' = phase, later' = later, submit' = submit
  PROVE  JobSyncInv'
<1>1. /\ OutcomeIsReal
      /\ LaterReal(later, phase, there, submit)
      /\ row # "none" => submit = "done"
      /\ submit \notin {"new", "tx"}
  BY InvReal
<1>2. there' = FALSE
  BY DEF Deleted
<1>3. QueueReal(q, phase, FALSE, submit) /\ LaterReal(later, phase, FALSE, submit)
  BY <1>1, StaysReal
<1>4. QueueReal(queue', phase, FALSE, submit)
  BY <1>1, <1>3, DeletedReal
<1>5. OutcomeIsReal'
  BY <1>1, <1>2 DEF OutcomeIsReal
<1> QED
  BY <1>1, <1>2, <1>3, <1>4, <1>5, InvRealPrime

\* Every step preserves the invariant.
LEMMA InvStep ==
  ASSUME JobSyncTypeOK, JobSyncInv, [Next]_vars
  PROVE  JobSyncInv'
<1>0. /\ OutcomeIsReal
      /\ QueueReal(queue, phase, there, submit)
      /\ LaterReal(later, phase, there, submit)
      /\ row # "none" => submit = "done"
      /\ there => submit \notin {"new", "tx"}
      /\ queue \in Seq(ItemType) /\ phase \in Phases /\ made \in Nat
  BY InvReal DEF JobSyncTypeOK
<1>a. "" \in JobStatus /\ "pending" \in JobStatus
  BY DEF JobStatus
<1>b. made \in Nat /\ made + 1 \in Nat
  BY <1>0
<1>1. CASE BeginTx
  BY <1>0, <1>1, QuietStep DEF BeginTx
<1>2. CASE StartJob
  <2> DEFINE x == Item(made, "update", "pending")
  <2>0. x.action = "update" /\ x.status = "pending"
    BY DEF Item
  <2>1. x \in ItemType
    BY <1>a, <1>b, ItemTyped
  <2>2. queue' = Append(queue, x)
    BY <1>2 DEF StartJob, Enqueue
  <2> HIDE DEF x
  <2>3. RealIn(x, phase', there', submit')
    BY <2>0 DEF RealIn
  <2>4. /\ QueueReal(queue, phase', there', submit')
        /\ LaterReal(later', phase', there', submit')
    BY <1>0, <1>2, StaysReal DEF StartJob
  <2>5. QueueReal(queue', phase', there', submit')
    BY <1>0, <2>1, <2>2, <2>3, <2>4, AppendReal
  <2>6. row = "none" /\ row' = row /\ submit' = "started"
    BY <1>0, <1>2 DEF StartJob
  <2>7. OutcomeIsReal'
    BY <2>6 DEF OutcomeIsReal
  <2> QED
    BY <2>4, <2>5, <2>6, <2>7, InvRealPrime
<1>3. CASE StartJobErr
  BY <1>0, <1>3, QuietStep DEF StartJobErr
<1>4. CASE Commit
  <2>1. /\ QueueReal(queue', phase', there', submit')
        /\ LaterReal(later', phase', there', submit')
    BY <1>0, <1>4, StaysReal DEF Commit
  <2>2. OutcomeIsReal' /\ submit' = "done"
    BY <1>4 DEF OutcomeIsReal, Commit
  <2> QED
    BY <2>1, <2>2, InvRealPrime
<1>5. CASE CommitErr
  BY <1>0, <1>5, QuietStep DEF CommitErr
<1>6. CASE ChangePhase
  <2>1. PICK p \in NextPhases(phase) : phase' = p /\ Enqueue(queue, "update", StatusOf(p))
    BY <1>6 DEF ChangePhase
  <2>2. p \in Phases /\ phase \notin EndPhases
    BY <1>0, <2>1, NextPhasesOfPhase
  <2> DEFINE x == Item(made, "update", StatusOf(p))
  <2>3. x \in ItemType /\ x.action = "update" /\ x.status = StatusOf(p)
    BY <1>0, <2>2, StatusOfPhase, ItemTyped
  <2>4. queue' = Append(queue, x)
    BY <2>1 DEF Enqueue
  <2> HIDE DEF x
  <2>5. RealIn(x, p, there, submit)
    BY <2>2, <2>3, StatusOfPhase DEF RealIn
  <2>6. /\ QueueReal(queue, p, there, submit)
        /\ LaterReal(later, p, there, submit)
    BY <1>0, <2>2, StaysReal
  <2>7. QueueReal(queue', p, there, submit)
    BY <1>0, <2>3, <2>4, <2>5, <2>6, AppendReal
  <2>8. row' = row /\ there' = there /\ there /\ later' = later /\ submit' = submit
    BY <1>6 DEF ChangePhase
  <2>9. OutcomeIsReal'
    BY <1>0, <2>1, <2>2, <2>8 DEF OutcomeIsReal, EndPhases
  <2> QED
    BY <1>0, <2>1, <2>6, <2>7, <2>8, <2>9, InvRealPrime
<1>7. CASE UpdatePod
  <2> DEFINE x == Item(made, "update", "")
             y == Item(made + 1, "terminate", "")
  <2>0. x.action = "update" /\ x.status = ""
    BY DEF Item
  <2>1. x \in ItemType
    BY <1>a, <1>b, ItemTyped
  <2>2. y.action = "terminate"
    BY <1>a, <1>b DEF Item, ItemType, DefaultSyncRetryTimes
  <2>3. queue' = Append(queue, x) /\ later' \in {later, later \cup {y}}
    BY <1>7 DEF UpdatePod
  <2> HIDE DEF x, y
  <2>4. RealIn(x, phase, there, submit) /\ RealIn(y, phase, there, submit)
    BY <2>0, <2>2 DEF RealIn
  <2>5. QueueReal(queue', phase, there, submit)
    BY <1>0, <2>1, <2>3, <2>4, AppendReal
  <2>6. LaterReal(later', phase, there, submit)
    BY <1>0, <2>3, <2>4 DEF LaterReal
  <2>7. row' = row /\ phase' = phase /\ there' = there /\ submit' = submit
    BY <1>7 DEF UpdatePod
  <2>8. OutcomeIsReal'
    BY <1>0, <2>7 DEF OutcomeIsReal
  <2> QED
    BY <1>0, <2>5, <2>6, <2>7, <2>8, InvRealPrime
<1>8. CASE Clean
  <2>1. CASE there
    BY <1>0, <1>8, <2>1, DeleteStep DEF Clean
  <2>2. CASE ~there
    BY <1>0, <1>8, <2>2, QuietStep DEF Clean
  <2> QED
    BY <2>1, <2>2
<1>9. CASE StopJobByID
  BY <1>0, <1>9, DeleteStep DEF StopJobByID
<1>10. CASE Update
  <2>1. /\ Now \in ItemType /\ Now.status \in JobStatus
        /\ RealIn(Now, phase, there, submit)
        /\ QueueReal(Tail(queue), phase, there, submit)
    BY <1>0, <1>10, WorkingTyped, TailReal DEF Update, Working, Now
  <2>2. row \in JobStatus /\ "terminated" \in JobStatus
    BY <1>10 DEF Update, JobSyncTypeOK, JobStatus, Immutable
  <2>3. /\ row' = row \/ row' = IF Now.action = "delete" THEN "terminated" ELSE Now.status
        /\ Now.action \in {"update", "delete"} /\ row # "none"
    BY <1>10, <2>1, <2>2, NewStatusTyped DEF Update
  <2>4. /\ phase' = phase /\ there' = there /\ submit' = submit /\ later' = later
        /\ queue' = Tail(queue)
    BY <1>10 DEF Update
  <2>5. OutcomeIsReal'
    <3>1. CASE row' = row
      BY <1>0, <2>4, <3>1 DEF OutcomeIsReal
    <3>2. CASE Now.action = "delete" /\ row' = "terminated"
      BY <2>1, <2>4, <3>2 DEF OutcomeIsReal, RealIn
    <3>3. CASE Now.action = "update" /\ row' = Now.status
      BY <2>1, <2>4, <3>3 DEF OutcomeIsReal, RealIn
    <3> QED
      BY <2>3, <3>1, <3>2, <3>3
  <2> QED
    BY <1>0, <2>1, <2>3, <2>4, <2>5, InvRealPrime
<1>11. CASE NotFound
  BY <1>11, WorkerStep DEF NotFound
<1>12. CASE GetErr
  BY <1>12, WorkerStep DEF GetErr
<1>13. CASE SaveErr
  BY <1>13, WorkerStep DEF SaveErr
<1>14. CASE TerminateSkip
  BY <1>14, WorkerStep DEF TerminateSkip
<1>15. CASE TerminateStop
  <2>1. Tail(queue) \in Seq(ItemType) /\ QueueReal(Tail(queue), phase, there, submit)
    BY <1>0, <1>15, WorkingTyped, TailReal DEF TerminateStop, Working
  <2> QED
    BY <1>15, <2>1, DeleteStep DEF TerminateStop
<1>16. CASE TerminateErr
  BY <1>16, WorkerStep DEF TerminateErr
<1>17. ASSUME NEW item \in later, Ripe(item)
       PROVE  JobSyncInv'
  <2>1. item \in ItemType
    BY DEF JobSyncTypeOK
  <2>2. RealIn(item, phase, there, submit)
    BY <1>0 DEF LaterReal
  <2>3. QueueReal(queue', phase, there, submit)
    BY <1>0, <1>17, <2>1, <2>2, AppendReal DEF Ripe
  <2>4. LaterReal(later', phase, there, submit)
    BY <1>0, <1>17 DEF Ripe, LaterReal
  <2>5. row' = row /\ phase' = phase /\ there' = there /\ submit' = submit
    BY <1>17 DEF Ripe
  <2>6. OutcomeIsReal'
    BY <1>0, <2>5 DEF OutcomeIsReal
  <2> QED
    BY <1>0, <2>3, <2>4, <2>5, <2>6, InvRealPrime
<1>18. CASE UNCHANGED vars
  BY <1>0, <1>18, QuietStep DEF vars
<1> QED
  BY <1>1, <1>2, <1>3, <1>4, <1>5, <1>6, <1>7, <1>8, <1>9, <1>10, <1>11, <1>12,
     <1>13, <1>14, <1>15, <1>16, <1>17, <1>18, NextCases, Zenon

\* Nothing is queued or recorded at first.
LEMMA InvInit == ASSUME Init PROVE JobSyncInv
<1>1. queue = <<>> /\ later = {} /\ row = "none" /\ there = FALSE
  BY Zenon DEF Init
<1> QED
  BY <1>1 DEF JobSyncInv, OutcomeIsReal

\* UpdateJob() and the JobSync worker: with any retries, losses and delays the
\* record never claims an outcome the job did not have.
THEOREM OutcomeSafe == Spec => []OutcomeIsReal
<1>1. Init => JobSyncInv
  BY InvInit
<1>2. JobSyncTypeOK /\ JobSyncInv /\ [Next]_vars => JobSyncInv'
  BY InvStep
<1>3. JobSyncInv => OutcomeIsReal
  BY DEF JobSyncInv
<1> QED
  BY <1>1, <1>2, <1>3, JobSyncTypes, PTL DEF Spec

-----------------------------------------------------------------------------
(* The record only advances *)

\* Append(): positions of the longer queue.
LEMMA AppendAt ==
  ASSUME NEW q \in Seq(ItemType), NEW x \in ItemType
  PROVE  /\ Len(Append(q, x)) = Len(q) + 1 /\ Len(q) \in Nat
         /\ Append(q, x)[Len(q) + 1] = x
         /\ \A k \in 1..Len(q) : Append(q, x)[k] = q[k]
OBVIOUS

\* Add() keeps the order if only what comes after nothing begun is untried and
\* pending.
LEMMA OrderedAppend ==
  ASSUME NEW q \in Seq(ItemType), NEW x \in ItemType, NEW l, NEW r, Ordered(q, l, r),
         UntriedPending(x) => NoneBegun(q, l, r)
  PROVE  Ordered(Append(q, x), l, r)
<1> SUFFICES ASSUME NEW k \in 1..Len(Append(q, x)), UntriedPending(Append(q, x)[k])
             PROVE  /\ r \notin Begun /\ \A item \in l : ~BegunItem(item)
                    /\ \A j \in 1..k : ~BegunItem(Append(q, x)[j])
  BY DEF Ordered
<1>1. CASE k \in 1..Len(q)
  <2>1. \A j \in 1..k : j \in 1..Len(q) /\ Append(q, x)[j] = q[j]
    BY <1>1, AppendAt
  <2>2. UntriedPending(q[k])
    BY <1>1, AppendAt
  <2> QED
    BY <1>1, <2>1, <2>2 DEF Ordered
<1>2. CASE k = Len(q) + 1
  <2>1. UntriedPending(x) /\ ~BegunItem(x)
    BY <1>2, AppendAt DEF UntriedPending, BegunItem, Begun
  <2>2. \A j \in 1..k : (j \in 1..Len(q) /\ Append(q, x)[j] = q[j]) \/ Append(q, x)[j] = x
    BY <1>2, AppendAt
  <2> QED
    BY <2>1, <2>2 DEF NoneBegun
<1> QED
  BY <1>1, <1>2, AppendAt

LEMMA NoneBegunAppend ==
  ASSUME NEW q \in Seq(ItemType), NEW x \in ItemType, NEW l, NEW r, NoneBegun(q, l, r), ~BegunItem(x)
  PROVE  NoneBegun(Append(q, x), l, r)
<1>1. \A k \in 1..Len(Append(q, x)) : ~BegunItem(Append(q, x)[k])
  BY QueueAppend DEF NoneBegun
<1> QED
  BY <1>1 DEF NoneBegun

\* Get(): what the worker writes or retries says the job began only if the item
\* it took does.
LEMMA OrderedTail ==
  ASSUME NEW q \in Seq(ItemType), q # <<>>, NEW l, NEW r, NEW l2, NEW r2,
         \A item \in l2 : item \in l \/ (BegunItem(item) => BegunItem(Head(q))),
         r2 \in Begun => r \in Begun \/ BegunItem(Head(q))
  PROVE  /\ Ordered(q, l, r) => Ordered(Tail(q), l2, r2)
         /\ NoneBegun(q, l, r) => NoneBegun(Tail(q), l2, r2)
<1>1. ASSUME Ordered(q, l, r), NEW k \in 1..Len(Tail(q)), UntriedPending(Tail(q)[k])
      PROVE  /\ r2 \notin Begun /\ \A item \in l2 : ~BegunItem(item)
             /\ \A j \in 1..k : ~BegunItem(Tail(q)[j])
  <2>1. k + 1 \in 1..Len(q) /\ UntriedPending(q[k + 1])
    BY <1>1, QueueTail
  <2>2. /\ r \notin Begun /\ \A item \in l : ~BegunItem(item)
        /\ \A j \in 1..(k + 1) : ~BegunItem(q[j])
    BY <1>1, <2>1 DEF Ordered
  <2>3. ~BegunItem(Head(q))
    BY <2>2, QueueTail
  <2>4. \A j \in 1..k : j + 1 \in 1..(k + 1) /\ Tail(q)[j] = q[j + 1]
    BY QueueTail
  <2> QED
    BY <2>2, <2>3, <2>4
<1>2. ASSUME NoneBegun(q, l, r) PROVE NoneBegun(Tail(q), l2, r2)
  <2>1. ~BegunItem(Head(q)) /\ \A k \in 1..Len(Tail(q)) : ~BegunItem(Tail(q)[k])
    BY <1>2, QueueTail DEF NoneBegun
  <2> QED
    BY <1>2, <2>1 DEF NoneBegun
<1> QED
  BY <1>1, <1>2 DEF Ordered

\* Fewer delayed items, or delayed ones that are not of updates, change nothing.
LEMMA OrderedLater ==
  ASSUME NEW q, NEW l, NEW r, NEW l2, NEW r2,
         \A item \in l2 : item \in l \/ ~BegunItem(item), r2 \in Begun => r \in Begun
  PROVE  /\ Ordered(q, l, r) => Ordered(q, l2, r2)
         /\ NoneBegun(q, l, r) => NoneBegun(q, l2, r2)
BY DEF Ordered, NoneBegun

\* The update of a completed job stays before its deletion.
LEMMA CompletedAppend ==
  ASSUME NEW q \in Seq(ItemType), NEW x \in ItemType,
         \/ CompletedFirst(q)
         \/ /\ x.action = "update" /\ x.status = "succeeded"
            /\ \A k \in 1..Len(q) : q[k].action # "delete"
  PROVE  CompletedFirst(Append(q, x))
<1>1. CASE CompletedFirst(q)
  <2>1. PICK k \in 1..Len(q) : /\ q[k].action = "update" /\ q[k].status = "succeeded"
                               /\ \A j \in 1..k : q[j].action # "delete"
    BY <1>1 DEF CompletedFirst
  <2>2. /\ k \in 1..Len(Append(q, x)) /\ Append(q, x)[k] = q[k]
        /\ \A j \in 1..k : Append(q, x)[j] = q[j]
    BY AppendAt
  <2> QED
    BY <2>1, <2>2 DEF CompletedFirst
<1>2. CASE /\ x.action = "update" /\ x.status = "succeeded"
           /\ \A k \in 1..Len(q) : q[k].action # "delete"
  <2>1. Len(q) + 1 \in 1..Len(Append(q, x)) /\ Append(q, x)[Len(q) + 1] = x
    BY AppendAt
  <2>2. \A j \in 1..(Len(q) + 1) : Append(q, x)[j].action # "delete"
    <3>1. \A j \in 1..(Len(q) + 1) : j \in 1..Len(q) \/ j = Len(q) + 1
      BY AppendAt
    <3> QED
      BY <1>2, <3>1, AppendAt
  <2> QED
    BY <1>2, <2>1, <2>2 DEF CompletedFirst
<1> QED
  BY <1>1, <1>2

LEMMA CompletedTail ==
  ASSUME NEW q \in Seq(ItemType), q # <<>>, CompletedFirst(q)
  PROVE  /\ Head(q).action # "delete"
         /\ \/ Head(q).action = "update" /\ Head(q).status = "succeeded"
            \/ CompletedFirst(Tail(q))
<1>1. PICK k \in 1..Len(q) : /\ q[k].action = "update" /\ q[k].status = "succeeded"
                             /\ \A j \in 1..k : q[j].action # "delete"
  BY DEF CompletedFirst
<1>2. Head(q).action # "delete"
  BY <1>1, QueueTail
<1>3. CASE k = 1
  BY <1>1, <1>2, <1>3, QueueTail
<1>4. CASE k # 1
  <2>1. k - 1 \in 1..Len(Tail(q)) /\ Tail(q)[k - 1] = q[k]
    BY <1>4
  <2>2. \A j \in 1..(k - 1) : j + 1 \in 1..k /\ Tail(q)[j] = q[j + 1]
    OBVIOUS
  <2> QED
    BY <1>1, <1>2, <2>1, <2>2 DEF CompletedFirst
<1> QED
  BY <1>3, <1>4

\* A retried item has been tried.
LEMMA RetryTried ==
  ASSUME JobSyncTypeOK, NEW item \in ItemType, Retry(item),
         \A x \in later : ~UntriedPending(x)
  PROVE  /\ \A x \in later' : ~UntriedPending(x)
         /\ \A x \in later' : x \in later \/ (BegunItem(x) => BegunItem(item))
<1>1. \A x \in later' : x \in later \/ x = [item EXCEPT !.retries = @ + 1]
  BY DEF Retry
<1>2. [item EXCEPT !.retries = @ + 1].retries = item.retries + 1 /\ item.retries \in Nat
  BY DEF ItemType, DefaultSyncRetryTimes
<1>3. ~UntriedPending([item EXCEPT !.retries = @ + 1])
  BY <1>2 DEF UntriedPending
<1> QED
  BY <1>1, <1>3, RetryTyped DEF BegunItem

\* CreateJob(), or the job's deletion when nothing is queued.
LEMMA OrderQuiet ==
  ASSUME OrderInv, UNCHANGED <<row, queue, later, phase>>,
         submit' \in {"new", "tx"} => submit \in {"new", "tx"},
         submit' = "done" => submit = "done"
  PROVE  OrderInv'
BY DEF OrderInv

\* A step of the worker that does not delete the job.
LEMMA OrderWorker ==
  ASSUME JobSyncTypeOK, OrderInv, Working, queue' = Tail(queue),
         later' = later \/ Retry(Now), UNCHANGED <<phase, submit>>,
         row' \in Begun => row \in Begun \/ BegunItem(Now),
         row # "none" => row' # "none"
  PROVE  OrderInv'
<1>1. /\ queue \in Seq(ItemType) /\ queue # <<>> /\ Now = Head(queue) /\ Now \in ItemType
      /\ \A x \in later : ~UntriedPending(x)
  BY WorkingTyped DEF JobSyncTypeOK, Working, Now, OrderInv
<1>2. /\ \A x \in later' : ~UntriedPending(x)
      /\ \A x \in later' : x \in later \/ (BegunItem(x) => BegunItem(Head(queue)))
  BY <1>1, RetryTried
<1>3. /\ Ordered(queue, later, row) => Ordered(queue', later', row')
      /\ NoneBegun(queue, later, row) => NoneBegun(queue', later', row')
  BY <1>1, <1>2, OrderedTail
<1> QED
  BY <1>2, <1>3 DEF OrderInv

\* Tail(): the worker takes an item and forgets it.
LEMMA OrderRest ==
  ASSUME JobSyncTypeOK, OrderInv, Working
  PROVE  /\ Ordered(Tail(queue), later, row)
         /\ phase = "" => NoneBegun(Tail(queue), later, row)
<1>1. queue \in Seq(ItemType) /\ queue # <<>>
  BY DEF JobSyncTypeOK, Working
<1> QED
  BY <1>1, OrderedTail DEF OrderInv

\* A step that makes the item x and adds it to the queue q.
LEMMA OrderAdd ==
  ASSUME OrderInv, NEW q \in Seq(ItemType), NEW x \in ItemType, queue' = Append(q, x),
         Ordered(q, later, row), phase = "" => NoneBegun(q, later, row),
         UntriedPending(x) => phase = "", BegunItem(x) => phase' # "",
         phase' = "" => phase = "", submit' \in {"new", "tx"} => phase' = "",
         submit' = "done" => submit = "done", row' = row,
         \A y \in later' : y \in later \/ y.action # "update"
  PROVE  OrderInv'
<1>1. \A y \in later' : y \in later \/ (~BegunItem(y) /\ ~UntriedPending(y))
  BY DEF BegunItem, UntriedPending
<1>2. Ordered(Append(q, x), later, row)
  BY OrderedAppend
<1>3. Ordered(queue', later', row')
  BY <1>1, <1>2, OrderedLater
<1>4. ASSUME phase' = "" PROVE NoneBegun(queue', later', row')
  <2>1. NoneBegun(Append(q, x), later, row)
    BY <1>4, NoneBegunAppend
  <2> QED
    BY <1>1, <2>1, OrderedLater
<1> QED
  BY <1>1, <1>3, <1>4 DEF OrderInv

\* deleteVCJob(), when the queue is q.
LEMMA OrderDelete ==
  ASSUME JobSyncTypeOK, OrderInv, NEW q \in Seq(ItemType), Deleted(q),
         Ordered(q, later, row), phase = "" => NoneBegun(q, later, row),
         UNCHANGED <<row, phase, later, submit>>
  PROVE  OrderInv'
<1>1. CASE StatusOf(phase) = ""
  BY <1>1 DEF Deleted, OrderInv
<1>2. CASE StatusOf(phase) # ""
  <2>1. phase \in Phases /\ made \in Nat
    BY DEF JobSyncTypeOK
  <2>2. PICK x : x = Item(made, "delete", StatusOf(phase))
    OBVIOUS
  <2>3. x \in ItemType /\ x.action = "delete" /\ queue' = Append(q, x)
    <3>1. PICK st : st = StatusOf(phase)
      OBVIOUS
    <3>2. st \in JobStatus
      BY <2>1, <3>1, StatusOfPhase
    <3>3. x = Item(made, "delete", st)
      BY <2>2, <3>1
    <3>4. x \in ItemType /\ x.action = "delete"
      BY <2>1, <3>2, <3>3, DeleteTyped, Zenon
    <3>5. queue' = Append(q, x)
      <4>1. Enqueue(q, "delete", StatusOf(phase))
        BY <1>2, Zenon DEF Deleted
      <4> QED
        BY <2>2, <4>1, Zenon DEF Enqueue
    <3> QED
      BY <3>4, <3>5
  <2>4. ~UntriedPending(x) /\ ~BegunItem(x)
    BY <2>3 DEF UntriedPending, BegunItem
  <2>5. submit' \in {"new", "tx"} => phase' = ""
    BY DEF OrderInv
  <2> QED
    BY <2>3, <2>4, <2>5, OrderAdd
<1> QED
  BY <1>1, <1>2

\* Every step keeps the order of the queue.
LEMMA OrderStep ==
  ASSUME JobSyncTypeOK, JobSyncInv, OrderInv, [Next]_vars
  PROVE  OrderInv'
<1>0. /\ queue \in Seq(ItemType) /\ made \in Nat /\ made + 1 \in Nat /\ phase \in Phases
      /\ there => submit \notin {"new", "tx"}
      /\ row # "none" => submit = "done"
      /\ Ordered(queue, later, row) /\ (phase = "" => NoneBegun(queue, later, row))
      /\ "" \in JobStatus /\ "pending" \in JobStatus
  <2>1. "" \in JobStatus /\ "pending" \in JobStatus
    BY DEF JobStatus
  <2>2. queue \in Seq(ItemType) /\ made \in Nat /\ phase \in Phases
    BY DEF JobSyncTypeOK
  <2>3. there => submit \notin {"new", "tx"}
    BY Zenon DEF JobSyncInv
  <2>4. row # "none" => submit = "done"
    BY Zenon DEF JobSyncInv
  <2>5. Ordered(queue, later, row) /\ (phase = "" => NoneBegun(queue, later, row))
    BY Zenon DEF OrderInv
  <2>6. made + 1 \in Nat
    BY <2>2
  <2> QED
    BY <2>1, <2>2, <2>3, <2>4, <2>5, <2>6, Zenon
<1>1. CASE BeginTx \/ StartJobErr \/ CommitErr
  BY <1>1, OrderQuiet DEF BeginTx, StartJobErr, CommitErr
<1>2. CASE StartJob
  <2>1. PICK x : x = Item(made, "update", "pending")
    OBVIOUS
  <2>2. x \in ItemType /\ x.status = "pending"
    <3>1. made \in Nat
      BY <1>0
    <3>2. "pending" \in JobStatus
      BY DEF JobStatus
    <3> QED
      BY <2>1, <3>1, <3>2, ItemTyped
  <2>3. ~BegunItem(x)
    BY <2>2 DEF BegunItem, Begun
  <2>4. /\ queue' = Append(queue, x) /\ phase = "" /\ phase' = phase /\ row' = row
        /\ later' = later /\ submit' = "started"
    BY <1>2, <2>1 DEF StartJob, Enqueue, OrderInv
  <2> QED
    BY <1>0, <2>2, <2>3, <2>4, OrderAdd
<1>3. CASE Commit
  <2>1. row' \notin Begun /\ row' # "none"
    BY <1>3 DEF Commit, Begun
  <2>2. UNCHANGED <<queue, later, phase>> /\ submit' = "done"
    BY <1>3 DEF Commit
  <2> QED
    BY <2>1, <2>2, OrderedLater DEF OrderInv
<1>4. CASE ChangePhase
  <2>1. PICK p \in NextPhases(phase) : phase' = p /\ Enqueue(queue, "update", StatusOf(p))
    BY <1>4 DEF ChangePhase
  <2>2. PICK x : x = Item(made, "update", StatusOf(p))
    OBVIOUS
  <2>3. p \in Phases /\ p # "" /\ (StatusOf(p) = "pending" => phase = "")
    <3>1. p \in Phases
      BY <1>0, <2>1, NextPhasesOfPhase
    <3>2. p # "" /\ (p = "Pending" => phase = "")
      BY <1>0, <2>1 DEF NextPhases, Phases
    <3>3. StatusOf(p) = "pending" => p \in {"", "Pending"}
      BY <3>1 DEF StatusOf, Phases
    <3> QED
      BY <3>1, <3>2, <3>3
  <2>4. x \in ItemType /\ x.status = StatusOf(p)
    <3>1. StatusOf(p) \in JobStatus
      BY <2>3, StatusOfPhase
    <3>2. made \in Nat
      BY <1>0
    <3> QED
      BY <2>2, <3>1, <3>2, ItemTyped
  <2>5. UntriedPending(x) => phase = ""
    BY <2>3, <2>4 DEF UntriedPending
  <2>6. queue' = Append(queue, x) /\ UNCHANGED <<submit, row, later>> /\ submit \notin {"new", "tx"}
    BY <1>0, <1>4, <2>1, <2>2 DEF Enqueue, ChangePhase
  <2> QED
    BY <1>0, <2>1, <2>3, <2>4, <2>5, <2>6, OrderAdd
<1>5. CASE UpdatePod
  <2>1. PICK x : x = Item(made, "update", "")
    OBVIOUS
  <2>2. PICK y : y = Item(made + 1, "terminate", "")
    OBVIOUS
  <2>3. x \in ItemType /\ x.status = "" /\ y.action = "terminate"
    <3>1. made \in Nat /\ made + 1 \in Nat
      BY <1>0
    <3>2. "" \in JobStatus
      BY DEF JobStatus
    <3>3. PICK e : e = ""
      OBVIOUS
    <3>4. x = Item(made, "update", e) /\ y = Item(made + 1, "terminate", e) /\ e \in JobStatus
      BY <2>1, <2>2, <3>2, <3>3
    <3>5. x \in ItemType /\ x.status = e
      BY <3>1, <3>4, ItemTyped
    <3>6. y.action = "terminate"
      BY <3>1, <3>4, ItemTyped
    <3> QED
      BY <3>3, <3>5, <3>6
  <2>4. ~UntriedPending(x) /\ ~BegunItem(x)
    BY <2>3 DEF UntriedPending, BegunItem, Begun
  <2>5. /\ queue' = Append(queue, x) /\ later' \in {later, later \cup {y}}
        /\ UNCHANGED <<submit, row, phase>> /\ submit \notin {"new", "tx"}
    BY <1>0, <1>5, <2>1, <2>2 DEF UpdatePod
  <2> QED
    BY <1>0, <2>3, <2>4, <2>5, OrderAdd
<1>6. CASE Clean
  <2>1. CASE there
    BY <1>0, <1>6, <2>1, OrderDelete DEF Clean
  <2>2. CASE ~there
    BY <1>6, <2>2, OrderQuiet DEF Clean
  <2> QED
    BY <2>1, <2>2
<1>7. CASE StopJobByID
  BY <1>0, <1>7, OrderDelete DEF StopJobByID
<1>8. CASE Update
  <2>1. (row' \in {row, Now.status} /\ Now.action = "update") \/ row' \in {row, "terminated"}
    BY <1>8 DEF Update, NewStatus
  <2>2. row' \in Begun => row \in Begun \/ BegunItem(Now)
    BY <2>1 DEF Begun, BegunItem
  <2>3. row' # "none"
    BY <1>8, WorkingTyped DEF Update, NewStatus, JobStatus, Immutable
  <2> QED
    BY <1>8, <2>2, <2>3, OrderWorker DEF Update
<1>9. CASE NotFound
  BY <1>9, OrderWorker DEF NotFound
<1>10. CASE GetErr
  BY <1>10, OrderWorker DEF GetErr
<1>11. CASE SaveErr
  BY <1>11, OrderWorker DEF SaveErr
<1>12. CASE TerminateSkip
  BY <1>12, OrderWorker DEF TerminateSkip
<1>13. CASE TerminateStop
  <2>1. Working /\ Deleted(Tail(queue)) /\ UNCHANGED <<submit, row, phase, later>>
    BY <1>13 DEF TerminateStop
  <2> QED
    BY <2>1, WorkingTyped, OrderRest, OrderDelete
<1>14. CASE TerminateErr
  BY <1>14, OrderWorker DEF TerminateErr
<1>15. ASSUME NEW item \in later, Ripe(item)
       PROVE  OrderInv'
  <2>1. item \in ItemType /\ ~UntriedPending(item)
    BY DEF JobSyncTypeOK, OrderInv
  <2>2. phase = "" => ~BegunItem(item)
    BY <1>0 DEF NoneBegun
  <2>3. /\ queue' = Append(queue, item) /\ later' \subseteq later
        /\ UNCHANGED <<submit, row, phase>>
    BY <1>15 DEF Ripe
  <2>4. submit' \in {"new", "tx"} => phase' = ""
    BY <2>3 DEF OrderInv
  <2> QED
    BY <1>0, <2>1, <2>2, <2>3, <2>4, OrderAdd
<1>16. CASE UNCHANGED vars
  BY <1>16, OrderQuiet DEF vars
<1> QED
  BY <1>1, <1>2, <1>3, <1>4, <1>5, <1>6, <1>7, <1>8, <1>9, <1>10, <1>11, <1>12, <1>13, <1>14,
     <1>15, <1>16, NextCases, Zenon

\* A step that leaves the record and the job alone, and the queue as long as it
\* was or longer.
LEMMA CompletedQuiet ==
  ASSUME CompletedInv, UNCHANGED <<row, phase>>, faults' = 0 => faults = 0,
         submit' # "failed" => submit # "failed",
         CompletedFirst(queue) => CompletedFirst(queue')
  PROVE  CompletedInv'
BY DEF CompletedInv

\* deleteVCJob(): the deletion comes after what the queue q holds.
LEMMA CompletedDelete ==
  ASSUME JobSyncTypeOK, NEW q \in Seq(ItemType), Deleted(q), CompletedFirst(q)
  PROVE  CompletedFirst(queue')
<1>1. CASE StatusOf(phase) = ""
  BY <1>1 DEF Deleted
<1>2. CASE StatusOf(phase) # ""
  <2>1. phase \in Phases /\ made \in Nat
    BY DEF JobSyncTypeOK
  <2>2. PICK x : x = Item(made, "delete", StatusOf(phase))
    OBVIOUS
  <2>3. x \in ItemType /\ queue' = Append(q, x)
    BY <1>2, <2>1, <2>2, StatusOfPhase, ItemTyped DEF Deleted, Enqueue
  <2> QED
    BY <2>3, CompletedAppend
<1> QED
  BY <1>1, <1>2

\* The worker takes an item of another kind.
LEMMA CompletedRest ==
  ASSUME JobSyncTypeOK, Working, Now.action = "terminate", CompletedFirst(queue)
  PROVE  CompletedFirst(Tail(queue))
<1>1. queue \in Seq(ItemType) /\ queue # <<>> /\ Now = Head(queue)
  BY DEF JobSyncTypeOK, Working, Now
<1> QED
  BY <1>1, CompletedTail

\* As long as the worker does not overtake the commit and no call fails, a
\* completed job is recorded as such before its deletion is seen.
LEMMA CompletedStep ==
  ASSUME "slowCommit" \notin Faults, JobSyncTypeOK, JobSyncInv, OrderInv, CompletedInv,
         [Next]_vars
  PROVE  CompletedInv'
<1>1. /\ queue \in Seq(ItemType) /\ made \in Nat /\ phase \in Phases /\ faults \in Nat
      /\ faults + 1 # 0 /\ made + 1 \in Nat
  BY BoundsAssumption DEF JobSyncTypeOK
<1>2. /\ submit \in {"new", "tx"} => phase = ""
      /\ submit = "done" => row # "none"
  BY Zenon DEF OrderInv
<1>3. /\ row # "none" => submit = "done"
      /\ there => submit \notin {"new", "tx"}
  BY Zenon DEF JobSyncInv
<1>4. CASE BeginTx
  BY <1>4, CompletedQuiet DEF BeginTx
<1>5. CASE StartJobErr \/ CommitErr
  BY <1>5 DEF StartJobErr, CommitErr, CompletedInv
<1>6. CASE StartJob
  BY <1>2, <1>6 DEF StartJob, CompletedInv
<1>7. CASE Commit
  BY <1>3, <1>7 DEF Commit, CompletedInv, Immutable
<1>8. CASE ChangePhase
  <2>1. PICK p \in NextPhases(phase) : phase' = p /\ Enqueue(queue, "update", StatusOf(p))
    BY <1>8 DEF ChangePhase
  <2>2. PICK x : x = Item(made, "update", StatusOf(p))
    OBVIOUS
  <2>3. p \in Phases /\ phase \notin EndPhases
    BY <1>1, <2>1, NextPhasesOfPhase
  <2>4. p = "Completed" => StatusOf(p) = "succeeded"
    BY DEF StatusOf
  <2>5. x \in ItemType /\ x.action = "update" /\ x.status = StatusOf(p)
    <3>1. StatusOf(p) \in JobStatus
      BY <2>3, StatusOfPhase
    <3> QED
      BY <1>1, <2>2, <3>1, ItemTyped
  <2>6. there /\ row' = row /\ queue' = Append(queue, x)
    BY <1>8, <2>1, <2>2 DEF Enqueue, ChangePhase
  <2>7. row \notin Immutable
    BY <2>3, <2>6 DEF JobSyncInv, OutcomeIsReal, EndPhases, Immutable
  <2>8. \A k \in 1..Len(queue) : queue[k].action # "delete"
    BY <2>6 DEF JobSyncInv, ItemReal
  <2>9. p = "Completed" => CompletedFirst(queue')
    BY <1>1, <2>4, <2>5, <2>6, <2>8, CompletedAppend
  <2> QED
    BY <2>1, <2>6, <2>7, <2>9 DEF CompletedInv
<1>9. CASE UpdatePod
  <2>1. phase' = phase /\ phase # "Completed"
    BY <1>9 DEF UpdatePod
  <2> QED
    BY <2>1 DEF CompletedInv
<1>10. CASE Clean
  <2>1. CompletedFirst(queue) => CompletedFirst(queue')
    BY <1>1, <1>10, CompletedDelete DEF Clean
  <2> QED
    BY <1>10, <2>1, CompletedQuiet DEF Clean
<1>11. CASE StopJobByID
  <2>1. CompletedFirst(queue) => CompletedFirst(queue')
    BY <1>1, <1>11, CompletedDelete DEF StopJobByID
  <2> QED
    BY <1>11, <2>1, CompletedQuiet DEF StopJobByID
<1>12. CASE Update
  <2>1. /\ UNCHANGED <<phase, faults, submit>> /\ queue' = Tail(queue) /\ queue # <<>>
        /\ Now = Head(queue) /\ Now.action \in {"update", "delete"}
        /\ row' = NewStatus(IF Now.action = "delete" THEN "terminated" ELSE Now.status)
    BY <1>12 DEF Update, Working, Now
  <2> SUFFICES ASSUME phase = "Completed", faults = 0, submit # "failed"
               PROVE  row' = "succeeded" \/ (row' \notin Immutable /\ CompletedFirst(Tail(queue)))
    BY <2>1 DEF CompletedInv
  <2>2. CASE row = "succeeded"
    BY <2>1, <2>2 DEF NewStatus, Immutable
  <2>3. CASE row \notin Immutable /\ CompletedFirst(queue)
    <3>1. Now.action = "update" /\ (Now.status = "succeeded" \/ CompletedFirst(Tail(queue)))
      BY <1>1, <2>1, <2>3, CompletedTail
    <3>2. row' \in {row, Now.status} /\ (Now.status = "succeeded" => row' = "succeeded")
      BY <2>1, <2>3, <3>1 DEF NewStatus
    <3>3. Now.status \in Immutable => Now.status = "succeeded"
      <4>1. ItemReal(Now)
        BY <1>1, <2>1, QueueTail DEF JobSyncInv
      <4> QED
        BY <3>1, <4>1 DEF ItemReal, Immutable
    <3> QED
      BY <2>3, <3>1, <3>2, <3>3
  <2> QED
    BY <2>2, <2>3 DEF CompletedInv
<1>13. CASE NotFound
  <2>1. submit \in {"failed", "new", "tx"} \/ submit \notin {"new", "tx", "started", "done", "failed"}
    BY <1>2, <1>13 DEF NotFound, Working
  <2>2. submit \in {"new", "tx", "started", "done", "failed"}
    BY DEF JobSyncTypeOK
  <2> QED
    BY <1>2, <1>13, <2>1, <2>2 DEF NotFound, CompletedInv
<1>14. CASE GetErr
  BY <1>1, <1>14 DEF GetErr, CompletedInv
<1>15. CASE SaveErr
  BY <1>1, <1>15 DEF SaveErr, CompletedInv
<1>16. CASE TerminateSkip
  <2>1. CompletedFirst(queue) => CompletedFirst(queue')
    BY <1>16, CompletedRest DEF TerminateSkip
  <2> QED
    BY <1>16, <2>1, CompletedQuiet DEF TerminateSkip
<1>17. CASE TerminateStop
  <2>1. Tail(queue) \in Seq(ItemType)
    BY <1>17, WorkingTyped DEF TerminateStop
  <2>2. CompletedFirst(queue) => CompletedFirst(queue')
    BY <1>17, <2>1, CompletedRest, CompletedDelete DEF TerminateStop
  <2> QED
    BY <1>17, <2>2, CompletedQuiet DEF TerminateStop
<1>18. CASE TerminateErr
  <2>1. CompletedFirst(queue) => CompletedFirst(queue')
    BY <1>18, CompletedRest DEF TerminateErr
  <2>2. faults' = 0 => faults = 0
    BY <1>1, <1>18 DEF TerminateErr
  <2> QED
    BY <1>18, <2>1, <2>2, CompletedQuiet DEF TerminateErr
<1>19. ASSUME NEW item \in later, Ripe(item)
       PROVE  CompletedInv'
  <2>1. item \in ItemType
    BY DEF JobSyncTypeOK
  <2>2. CompletedFirst(queue) => CompletedFirst(queue')
    BY <1>1, <1>19, <2>1, CompletedAppend DEF Ripe
  <2> QED
    BY <1>19, <2>2, CompletedQuiet DEF Ripe
<1>20. CASE UNCHANGED vars
  BY <1>20, CompletedQuiet DEF vars
<1> QED
  BY <1>4, <1>5, <1>6, <1>7, <1>8, <1>9, <1>10, <1>11, <1>12, <1>13, <1>14, <1>15, <1>16, <1>17,
     <1>18, <1>19, <1>20, NextCases, Zenon

\* Nothing is queued at first, and the job does not exist.
LEMMA AdvanceInit == ASSUME Init PROVE OrderInv /\ CompletedInv
<1>1. /\ queue = <<>> /\ later = {} /\ row = "none" /\ phase = "" /\ submit = "new"
  BY Zenon DEF Init
<1>2. \A k \in 1..Len(queue) : FALSE
  <2>1. Len(queue) = 0
    BY <1>1
  <2> QED
    BY <2>1
<1> QED
  BY <1>1, <1>2 DEF OrderInv, CompletedInv, Ordered, NoneBegun, Begun

\* Only UpdateJob() and the commit write the record; a step that does keeps an
\* ended record, and goes back from a running job only by an item tried before.
LEMMA RecordWrites ==
  ASSUME JobSyncTypeOK, JobSyncInv, OrderInv, [Next]_vars
  PROVE  /\ row \in Immutable => row' = row
         /\ row \in {"running", "terminating"} /\ row' \in {"", "pending"} => Now.retries > 0
         /\ row' = "terminated" /\ row # "terminated" =>
              /\ Now.action = "delete" \/ Now.status = "terminated"
              /\ Update
<1>1. CASE Update
  <2>1. /\ queue # <<>> /\ Now = Head(queue) /\ queue \in Seq(ItemType)
        /\ row' = NewStatus(IF Now.action = "delete" THEN "terminated" ELSE Now.status)
        /\ Now.action \in {"update", "delete"}
    BY <1>1 DEF Update, Working, Now, JobSyncTypeOK
  <2>2. row \in Begun /\ row' = "pending" => Now.retries # 0
    <3>1. \A k \in 1..Len(queue) : UntriedPending(queue[k]) => row \notin Begun
      BY DEF OrderInv, Ordered
    <3>2. row \in Begun => ~UntriedPending(Now)
      BY <2>1, <3>1, QueueTail
    <3>3. row \in Begun /\ row' = "pending" => Now.action = "update" /\ Now.status = "pending"
      BY <2>1 DEF NewStatus, Begun
    <3> QED
      BY <3>2, <3>3 DEF UntriedPending
  <2>3. Now.retries \in Nat
    BY <1>1, WorkingTyped DEF Update, ItemType, DefaultSyncRetryTimes
  <2>4. row \in Begun /\ row' = "pending" => Now.retries > 0
    BY <2>2, <2>3
  <2>5. row \in Begun => row' # ""
    BY <2>1 DEF NewStatus, Begun
  <2>6. row \in Immutable => row' = row
    BY <2>1 DEF NewStatus
  <2>7. row' = "terminated" /\ row # "terminated" => Now.action = "delete" \/ Now.status = "terminated"
    BY <2>1 DEF NewStatus
  <2> QED
    BY <1>1, <2>4, <2>5, <2>6, <2>7, Zenon DEF Begun
<1>2. CASE Commit
  BY <1>2 DEF Commit, JobSyncInv, Immutable
<1>3. CASE row' = row
  BY <1>3 DEF Immutable
<1>4. Update \/ Commit \/ row' = row
  BY NextCases DEF BeginTx, StartJob, StartJobErr, CommitErr, ChangePhase, UpdatePod, Clean,
     StopJobByID, NotFound, GetErr, SaveErr, TerminateSkip, TerminateStop, TerminateErr, Ripe, vars
<1> QED
  BY <1>1, <1>2, <1>3, <1>4

\* UpdateJob(): if the worker does not overtake the commit, the record of a job
\* only advances, and a completed job is not recorded as terminated.
THEOREM RecordAdvances ==
  ASSUME "slowCommit" \notin Faults PROVE Spec => RecordOnlyAdvances
<1>1. Init => JobSyncInv /\ OrderInv /\ CompletedInv
  BY InvInit, AdvanceInit
<1>2. JobSyncTypeOK /\ JobSyncInv /\ [Next]_vars => JobSyncInv'
  BY InvStep
<1>3. JobSyncTypeOK /\ JobSyncInv /\ OrderInv /\ [Next]_vars => OrderInv'
  BY OrderStep
<1>4. JobSyncTypeOK /\ JobSyncInv /\ OrderInv /\ CompletedInv /\ [Next]_vars => CompletedInv'
  BY CompletedStep
<1>5. JobSyncTypeOK /\ JobSyncInv /\ OrderInv /\ CompletedInv /\ [Next]_vars =>
        [/\ row \in Immutable => row' = row
         /\ row \in {"running", "terminating"} /\ row' \in {"", "pending"} =>
              Now.retries > 0
         /\ row' = "terminated" /\ row # "terminated" /\ phase = "Completed" =>
              faults > 0]_vars
  <2> SUFFICES ASSUME JobSyncTypeOK, JobSyncInv, OrderInv, CompletedInv, [Next]_vars
               PROVE  /\ row \in Immutable => row' = row
                      /\ row \in {"running", "terminating"} /\ row' \in {"", "pending"} =>
                           Now.retries > 0
                      /\ row' = "terminated" /\ row # "terminated" /\ phase = "Completed" =>
                           faults > 0
    OBVIOUS
  <2>1. ASSUME row' = "terminated", row # "terminated", phase = "Completed" PROVE faults > 0
    <3>1. Update /\ (Now.action = "delete" \/ Now.status = "terminated")
      BY <2>1, RecordWrites
    <3>2. /\ queue # <<>> /\ Now = Head(queue) /\ queue \in Seq(ItemType) /\ row # "none"
          /\ Now.action \in {"update", "delete"} /\ row \notin Immutable
      BY <2>1, <3>1, RecordWrites DEF Update, Working, Now, JobSyncTypeOK, Immutable
    <3>3. ItemReal(Now)
      BY <3>2, QueueTail DEF JobSyncInv
    <3>4. Now.action = "delete"
      BY <2>1, <3>1, <3>2, <3>3 DEF ItemReal
    <3>5. ~CompletedFirst(queue)
      BY <3>2, <3>4, CompletedTail
    <3>6. submit = "done"
      BY <3>2 DEF JobSyncInv
    <3>7. faults # 0
      BY <2>1, <3>2, <3>5, <3>6 DEF CompletedInv, Immutable
    <3>8. faults \in Nat
      BY BoundsAssumption DEF JobSyncTypeOK
    <3> QED
      BY <3>7, <3>8
  <2> QED
    BY <2>1, RecordWrites
<1> QED
  BY <1>1, <1>2, <1>3, <1>4, <1>5, JobSyncTypes, PTL DEF Spec, RecordOnlyAdvances
=============================================================================
