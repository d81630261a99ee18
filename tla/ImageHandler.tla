---------------------------- MODULE ImageHandler ----------------------------
(***************************************************************************)
(* Runs whose DockerEnv names a tar file wait for the image handler        *)
(* (apiserver/handler/image_handler.go): handleImageAndStartWf queues the  *)
(* run, a process goroutine reads the manifest in the tar and calls back.  *)
(* The database outlives the server; the queue, the goroutines and the     *)
(* resume list do not.                                                     *)
(*                                                                         *)
(* The channels of handleInfoMap are made by chanx.NewUnboundedChan(),     *)
(* which returns a pointer (the field handleChan is one), and processImage *)
(* asserts that the entry is a chanx.UnboundedChan: the assertion panics   *)
(* in a goroutine that does not recover, and the server dies.  All that    *)
(* comes after it (loading, tagging, pushing, UrlMap, the rows of table    *)
(* image) is never reached, so no image is known from before either, and   *)
(* neither IsImageExistInRepo nor a callback with an image decides         *)
(* anything.  Stop() has no caller.                                        *)
(***************************************************************************)
EXTENDS Naturals, Sequences

CONSTANTS
  Runs,        \* runs with a tar image
  Workers,     \* process goroutines: concurrency of them
  MaxRetries,  \* bound on the requests to retry a failed run
  MaxFaults    \* bound on failing calls and kills of the server

VARIABLES
  tar,      \* tar[r]: the image in the file system, "readable" or "broken"
  record,   \* status of the run's record
  thread,   \* thread[r]: a request or the resumption is about to handle r
  resuming, \* runs that resumeActiveRuns() has listed and not reached
  queue,    \* handleChan
  worker,   \* worker[w]: the run goroutine w processes, if any
  called,   \* callbacks with an error that have not run yet
  up,       \* the server is up
  gaveUp,   \* runs some failed call has left behind
  retries, faults

vars == <<tar, record, thread, resuming, queue, worker, called, up, gaveUp,
          retries, faults>>

Idle == "idle"

Init ==
  /\ tar \in [Runs -> {"readable", "broken"}]
  /\ record = [r \in Runs |-> "absent"]
  /\ thread = [r \in Runs |-> FALSE]
  /\ resuming = {} /\ queue = <<>>
  /\ worker = [w \in Workers |-> Idle]
  /\ called = {} /\ up = TRUE /\ gaveUp = {}
  /\ retries = 0 /\ faults = 0

Fault == faults < MaxFaults /\ faults' = faults + 1

\* updateRunStatusAndMsg(): without a record nothing is updated.
Fail(r) ==
  record' = IF record[r] = "absent" THEN record ELSE [record EXCEPT ![r] = "Failed"]

-----------------------------------------------------------------------------
(* Requests *)

\* CreateRun() up to handleImageAndStartWf().
CreateRun(r) ==
  /\ up /\ record[r] = "absent" /\ ~thread[r] /\ r \notin gaveUp
  /\ record' = [record EXCEPT ![r] = "Initiating"]
  /\ thread' = [thread EXCEPT ![r] = TRUE]
  /\ UNCHANGED <<tar, resuming, queue, worker, called, up, gaveUp, retries, faults>>

\* RetryRun(): the record keeps its final status while the image is handled.
RetryRun(r) ==
  /\ up /\ record[r] = "Failed" /\ ~thread[r] /\ retries < MaxRetries
  /\ thread' = [thread EXCEPT ![r] = TRUE]
  /\ retries' = retries + 1
  /\ UNCHANGED <<tar, record, resuming, queue, worker, called, up, gaveUp, faults>>

\* DeleteRun(), whatever the queue still holds.
DeleteRun(r) ==
  /\ up /\ record[r] = "Failed"
  /\ record' = [record EXCEPT ![r] = "absent"]
  /\ gaveUp' = gaveUp \cup {r}
  /\ UNCHANGED <<tar, thread, resuming, queue, worker, called, up, retries, faults>>

-----------------------------------------------------------------------------
(* Handling *)

\* handleImageAndStartWf() goes on for a request, or for resumeActiveRuns().
Leaves(r) ==
  \/ /\ thread[r] /\ thread' = [thread EXCEPT ![r] = FALSE]
     /\ UNCHANGED resuming
  \/ /\ r \in resuming /\ resuming' = resuming \ {r}
     /\ UNCHANGED thread

\* ListImageIDsByFsID() finds no image of the file system, and HandleImage(),
\* HandleTarImage() queue the run.
HandleTarImage(r) ==
  /\ up /\ Leaves(r)
  /\ queue' = Append(queue, r)
  /\ UNCHANGED <<tar, record, worker, called, up, gaveUp, retries, faults>>

\* ListImageIDsByFsID() fails, and so may the write of the run's failure.
ListImageIDsByFsIDErr(r) ==
  /\ up /\ Leaves(r) /\ Fault
  /\ \/ Fail(r) /\ UNCHANGED gaveUp
     \/ UNCHANGED record /\ gaveUp' = gaveUp \cup {r}
  /\ UNCHANGED <<tar, queue, worker, called, up, retries>>

\* One round of process(): a goroutine takes the next run.
process(w) ==
  /\ up /\ worker[w] = Idle /\ queue # <<>>
  /\ worker' = [worker EXCEPT ![w] = Head(queue)]
  /\ queue' = Tail(queue)
  /\ UNCHANGED <<tar, record, thread, resuming, called, up, gaveUp, retries, faults>>

\* handleImageConfig(): the file system's client or the file cannot be opened,
\* the tar has no manifest, or it names several images.
handleImageConfigErr(w) ==
  \/ tar[worker[w]] = "broken" /\ UNCHANGED faults
  \/ Fault

\* processHandleInfo() of a tar it cannot read calls back with the error.
processHandleInfo(w) ==
  /\ up /\ worker[w] # Idle /\ handleImageConfigErr(w)
  /\ called' = called \cup {worker[w]}
  /\ worker' = [worker EXCEPT ![w] = Idle]
  /\ UNCHANGED <<tar, record, thread, resuming, queue, up, gaveUp, retries>>

\* The server is gone, and all it held in memory.
Die ==
  /\ up' = FALSE
  /\ thread' = [r \in Runs |-> FALSE]
  /\ resuming' = {} /\ queue' = <<>>
  /\ worker' = [w \in Workers |-> Idle]
  /\ called' = {}
  /\ UNCHANGED <<tar, record, gaveUp, retries>>

\* processImage(): OldUchanInterface.(chanx.UnboundedChan) panics; the deferred
\* recover() is only set after it.
processImage(w) ==
  /\ up /\ worker[w] # Idle /\ tar[worker[w]] = "readable"
  /\ Die /\ UNCHANGED faults

\* The server is killed at any moment.
Killed == up /\ Fault /\ Die

-----------------------------------------------------------------------------
(* Callback and restart *)

handleImageCallbackFunc(r) ==
  /\ up /\ r \in called
  /\ called' = called \ {r}
  /\ \/ Fail(r) /\ UNCHANGED <<gaveUp, faults>>
     \/ Fault /\ gaveUp' = gaveUp \cup {r} /\ UNCHANGED record
  /\ UNCHANGED <<tar, thread, resuming, queue, worker, up, retries>>

Active == {"Pending", "Running", "Terminating", "Initiating"}

\* Mutant: a run whose image is being handled is not active.
ResumeStarted ==
  {r \in Runs : record[r] \in {"Pending", "Running", "Terminating"}}

\* ListRunsByStatus(RunActiveStatus).
ListActive == {r \in Runs : record[r] \in Active}

\* InitPFImageHandler() with an empty queue, then resumeActiveRuns().
InitPFImageHandler ==
  /\ ~up /\ up' = TRUE
  /\ resuming' = ListActive
  /\ gaveUp' = gaveUp \ ListActive
  /\ UNCHANGED <<tar, record, thread, queue, worker, called, retries, faults>>

\* The list cannot be read, or one of the records not be decoded: no run is
\* resumed, and the error is not handled.
ResumeErr ==
  /\ ~up /\ Fault /\ up' = TRUE
  /\ gaveUp' = gaveUp \cup ListActive
  /\ UNCHANGED <<tar, record, thread, resuming, queue, worker, called, retries>>

-----------------------------------------------------------------------------

Go(r) == HandleTarImage(r) \/ handleImageCallbackFunc(r)
Work(w) == process(w) \/ processHandleInfo(w) \/ processImage(w)

Next ==
  \/ \E r \in Runs :
       CreateRun(r) \/ RetryRun(r) \/ DeleteRun(r) \/ ListImageIDsByFsIDErr(r) \/ Go(r)
  \/ \E w \in Workers : Work(w)
  \/ Killed \/ InitPFImageHandler \/ ResumeErr

Spec == Init /\ [][Next]_vars

\* Goroutines run on and the server is started again; requests may stop coming.
Fairness ==
  /\ \A r \in Runs : WF_vars(Go(r))
  /\ \A w \in Workers : WF_vars(Work(w))
  /\ WF_vars(InitPFImageHandler)

FairSpec == Spec /\ Fairness

-----------------------------------------------------------------------------
(* Properties *)

\* Somebody will go on with the run, or a call about it failed.
Held(r) ==
  \/ r \in gaveUp \cup resuming \cup called
  \/ thread[r]
  \/ \E i \in 1..Len(queue) : queue[i] = r
  \/ \E w \in Workers : worker[w] = r

\* Kills, panics and restarts at any moment: a run that waits for its image is
\* always in somebody's hands, unless a call about it failed.
NoRunForgotten ==
  \A r \in Runs : up /\ record[r] = "Initiating" => Held(r)

\* A run whose image cannot be read fails in the end if no other run's image
\* keeps killing the server.
BrokenRunFails ==
  \A r \in Runs :
    record[r] = "Initiating" ~>
      record[r] # "Initiating" \/ r \in gaveUp \/ \E s \in Runs : tar[s] = "readable"

-----------------------------------------------------------------------------
\* The types behind the proof of NoRunForgotten, which is inductive with them.
TypeOK ==
  /\ record \in [Runs -> {"absent", "Initiating", "Failed"}]
  /\ thread \in [Runs -> BOOLEAN]
  /\ queue \in Seq(Runs)
  /\ worker \in [Workers -> Runs \cup {Idle}]
  /\ called \subseteq Runs /\ up \in BOOLEAN

-----------------------------------------------------------------------------
(* Statement of the repository that the code does not keep *)

\* image_handler.go:511, where processImage() recovers: "if there is a panic,
\* OldUchan.In has been closed, and the handleInfo must be processed again";
\* so no image takes the server down, only a kill does.
PanicIsRecovered == [][up /\ ~up' => faults' > faults]_vars
=============================================================================
