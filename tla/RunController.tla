---------------------------- MODULE RunController ----------------------------
(***************************************************************************)
(* The life of one run in the API server: controller/run run.go and        *)
(* callbacks.go.  Concurrent requests (create, stop, retry, delete), the   *)
(* image handler's callbacks and the engines they start all read and write *)
(* the run's record in the database and the global wfMap, with nothing     *)
(* between a request's test and its write.                                 *)
(*                                                                         *)
(* An engine (pipeline.Workflow) is reduced to what it shows: wf[i].status *)
(* is wfr.status, and now and then it calls UpdateRunByWfEvent, up to      *)
(* three times until a call succeeds.  WorkflowRuntime models the engine   *)
(* in detail.  Access checks and the run's message and times are left out. *)
(***************************************************************************)
EXTENDS Naturals, FiniteSets

CONSTANTS
  Requests,    \* request handlers of the API server
  Images,      \* goroutines in which the image handler calls back
  MaxWf,       \* bound on the number of engines made for the run
  Tar,         \* DockerEnv names a tar file: the image must be handled first
  Faults       \* which calls may fail: a subset of FaultKinds

\* "yamlErr": the workflow source cannot be read again; "wfErr": no engine can
\* be made; "imageErr": the image handler fails; "resetErr": the record shows a
\* running step; "dbErr": a write to the database fails.
FaultKinds == {"yamlErr", "wfErr", "imageErr", "resetErr", "dbErr"}

ASSUME MaxWfAssumption == MaxWf \in Nat
ASSUME TarAssumption == Tar \in BOOLEAN
ASSUME FaultsAssumption == Faults \subseteq FaultKinds
ASSUME ThreadsAssumption == Requests \cap Images = {}

VARIABLES
  run,      \* status of the run's record, "absent" if there is none
  born,     \* the run has been created
  imageUrl, \* the record has an ImageUrl
  wfMap,    \* the engine wfMap holds for the run, 0 if none
  nwf,      \* number of engines made so far
  wf,       \* wf[i]: status, cancelled (ctx), started, ended (an event found all
            \* its steps ended: it schedules nothing more), over (Listen() returned)
  revived,  \* a Stop() has written Terminating over a final status
  cb,       \* cb[i]: where the engine's callback is, and the status it stores
  pc,       \* pc[t]: where thread t is
  read,     \* read[t]: what thread t read of the record: status and url
  mine      \* mine[t]: the engine thread t holds a pointer to

vars == <<run, born, imageUrl, wfMap, nwf, wf, revived, cb, pc, read, mine>>

Threads == Requests \cup Images
Wfs == 1..MaxWf
Final == {"Succeeded", "Failed", "Terminated"}
Active == {"Running", "Terminating"}
Retryable == {"Failed", "Terminated"}
NewEngine ==
  [status |-> "", cancelled |-> FALSE, started |-> FALSE, ended |-> FALSE, over |-> FALSE]
Unread == [status |-> "absent", url |-> FALSE]
NoCallback == [at |-> "none", status |-> "", tries |-> 0]

Init ==
  /\ run = "absent" /\ born = FALSE /\ imageUrl = FALSE
  /\ wfMap = 0 /\ nwf = 0 /\ revived = FALSE
  /\ wf = [i \in Wfs |-> NewEngine]
  /\ cb = [i \in Wfs |-> NoCallback]
  /\ pc = [t \in Threads |-> "idle"]
  /\ read = [t \in Threads |-> Unread]
  /\ mine = [t \in Threads |-> 0]

At(t, l) == pc' = [pc EXCEPT ![t] = l]
Goto(t, l) == At(t, l) /\ UNCHANGED <<read, mine>>

\* The thread's own variables are gone when it ends.
Forget(t) == read' = [read EXCEPT ![t] = Unread] /\ mine' = [mine EXCEPT ![t] = 0]
Return(t) == At(t, "idle") /\ Forget(t)

\* models.UpdateRun and UpdateRunStatus: nothing happens without a record.
Store(st) == run' = IF run = "absent" THEN "absent" ELSE st

-----------------------------------------------------------------------------
(* CreateRun, and handleImageAndStartWf that it shares with RetryRun *)

CreateInsert(t) ==
  /\ t \in Requests /\ pc[t] = "idle" /\ ~born
  /\ run' = "Initiating" /\ born' = TRUE
  /\ Goto(t, "handle")
  /\ UNCHANGED <<imageUrl, wfMap, nwf, wf, revived, cb>>

\* runYamlAndReqToWfs() fails after the insertion: the request just returns;
\* a retry returns likewise when resumeRun() cannot parse the record.
SourceErr(t) ==
  /\ pc[t] = "handle" /\ "yamlErr" \in Faults
  /\ Return(t)
  /\ UNCHANGED <<run, born, imageUrl, wfMap, nwf, wf, revived, cb>>

\* The record the thread works on decides, not the one in the database.
NeedHandleImage(t) == Tar /\ ~read[t].url

\* newWorkflowByRun(): a new engine, recorded in wfMap before it is started.
NewWf(t) ==
  /\ nwf < MaxWf
  /\ nwf' = nwf + 1 /\ wfMap' = nwf + 1
  /\ mine' = [mine EXCEPT ![t] = nwf + 1]
  /\ At(t, "start")
  /\ UNCHANGED <<run, born, imageUrl, wf, revived, cb, read>>

HandleNoImage(t) == pc[t] = "handle" /\ ~NeedHandleImage(t) /\ NewWf(t)

\* newWorkflowByRun() or HandleImage() returned an error.
HandleErr(t) ==
  /\ pc[t] \in {"handle", "imageStart"} /\ "wfErr" \in Faults
  /\ Store("Failed") \/ ("dbErr" \in Faults /\ UNCHANGED run)
  /\ Return(t)
  /\ UNCHANGED <<born, imageUrl, wfMap, nwf, wf, revived, cb>>

\* HandleImage() queues the image; a goroutine calls back later.
HandleImage(t) ==
  /\ pc[t] = "handle" /\ NeedHandleImage(t)
  /\ \E g \in Images :
       /\ pc[g] = "idle"
       /\ pc' = [pc EXCEPT ![t] = "idle", ![g] = "image"]
  /\ Forget(t)
  /\ UNCHANGED <<run, born, imageUrl, wfMap, nwf, wf, revived, cb>>

\* handleImageCallbackFunc(): an error fails the run, else startWfWithImageUrl
\* reads the record; without one it tries to fail it, in vain.
ImageFailed(g) ==
  /\ pc[g] = "image" /\ "imageErr" \in Faults
  /\ Store("Failed") \/ ("dbErr" \in Faults /\ UNCHANGED run)
  /\ Return(g)
  /\ UNCHANGED <<born, imageUrl, wfMap, nwf, wf, revived, cb>>

ImageReady(g) ==
  /\ pc[g] = "image"
  /\ IF run = "absent" THEN Return(g) ELSE Goto(g, "imageStart")
  /\ UNCHANGED <<run, born, imageUrl, wfMap, nwf, wf, revived, cb>>

ImageStart(g) == pc[g] = "imageStart" /\ NewWf(g)

\* Mutant: the context is made by Start(), not by NewWorkflow().
StartWfNewContext(t) ==
  /\ pc[t] = "start"
  /\ wf' = [wf EXCEPT ![mine[t]].status = "Running", ![mine[t]].started = TRUE,
                      ![mine[t]].cancelled = FALSE]
  /\ Goto(t, "pending")
  /\ UNCHANGED <<run, born, imageUrl, wfMap, nwf, revived, cb>>

\* wfPtr.Start() or Restart(): the status is overwritten, the context is not.
StartWf(t) ==
  /\ pc[t] = "start"
  /\ wf' = [wf EXCEPT ![mine[t]].status = "Running", ![mine[t]].started = TRUE]
  /\ Goto(t, "pending")
  /\ UNCHANGED <<run, born, imageUrl, wfMap, nwf, revived, cb>>

WritePending(t) ==
  /\ pc[t] = "pending"
  /\ Store("Pending") /\ imageUrl' = TRUE
  /\ Return(t)
  /\ UNCHANGED <<born, wfMap, nwf, wf, revived, cb>>

-----------------------------------------------------------------------------
(* StopRun *)

StopRead(t) ==
  /\ t \in Requests /\ pc[t] = "idle"
  /\ run \notin {"absent", "Terminating"} \cup Final
  /\ Goto(t, "stopLookup")
  /\ UNCHANGED <<run, born, imageUrl, wfMap, nwf, wf, revived, cb>>

\* "workflow ptr is lost" ends the request.
StopLookup(t) ==
  /\ pc[t] = "stopLookup"
  /\ IF wfMap = 0
     THEN Return(t)
     ELSE At(t, "stopStore") /\ mine' = [mine EXCEPT ![t] = wfMap] /\ UNCHANGED read
  /\ UNCHANGED <<run, born, imageUrl, wfMap, nwf, wf, revived, cb>>

StopStore(t) ==
  /\ pc[t] = "stopStore"
  /\ Store("Terminating")
  /\ Goto(t, "stopWf")
  /\ UNCHANGED <<born, imageUrl, wfMap, nwf, wf, revived, cb>>

\* wf.Stop() does nothing once the engine has completed; its test, the
\* cancellation and the write of the status are not synchronised with Listen().
StopWf(t) ==
  /\ pc[t] = "stopWf"
  /\ IF wf[mine[t]].status \in Final THEN Return(t) ELSE Goto(t, "stopCancel")
  /\ UNCHANGED <<run, born, imageUrl, wfMap, nwf, wf, revived, cb>>

StopCancel(t) ==
  /\ pc[t] = "stopCancel"
  /\ wf' = [wf EXCEPT ![mine[t]].cancelled = TRUE]
  /\ Goto(t, "stopMark")
  /\ UNCHANGED <<run, born, imageUrl, wfMap, nwf, revived, cb>>

\* Meanwhile the run may have ended: its final status is lost.
StopMark(t) ==
  /\ pc[t] = "stopMark"
  /\ wf' = [wf EXCEPT ![mine[t]].status = "Terminating"]
  /\ revived' = (revived \/ wf[mine[t]].status \in Final)
  /\ Return(t)
  /\ UNCHANGED <<run, born, imageUrl, wfMap, nwf, cb>>

-----------------------------------------------------------------------------
(* RetryRun and DeleteRun *)

\* Mutant: any run that is not running may be retried.
RetryReadAny(t) ==
  /\ t \in Requests /\ pc[t] = "idle" /\ nwf < MaxWf
  /\ run \notin {"absent", "Running"}
  /\ read' = [read EXCEPT ![t] = [status |-> run, url |-> imageUrl]]
  /\ At(t, "reset")
  /\ UNCHANGED <<run, born, imageUrl, wfMap, nwf, wf, revived, cb, mine>>

RetryRead(t) ==
  /\ t \in Requests /\ pc[t] = "idle" /\ nwf < MaxWf
  /\ run \in Retryable
  /\ read' = [read EXCEPT ![t] = [status |-> run, url |-> imageUrl]]
  /\ At(t, "reset")
  /\ UNCHANGED <<run, born, imageUrl, wfMap, nwf, wf, revived, cb, mine>>

\* resetRunSteps() writes the whole record, with the status read before; it
\* refuses a record with a running step.
RetryReset(t) ==
  /\ pc[t] = "reset"
  /\ Store(read[t].status)
  /\ Goto(t, "handle")
  /\ UNCHANGED <<born, imageUrl, wfMap, nwf, wf, revived, cb>>

RetryRefused(t) ==
  /\ pc[t] = "reset" /\ "resetErr" \in Faults
  /\ Return(t)
  /\ UNCHANGED <<run, born, imageUrl, wfMap, nwf, wf, revived, cb>>

\* Mutant: a run that is being terminated may be deleted.
DeleteReadEarly(t) ==
  /\ t \in Requests /\ pc[t] = "idle"
  /\ run \in Final \cup {"Terminating"}
  /\ Goto(t, "delete")
  /\ UNCHANGED <<run, born, imageUrl, wfMap, nwf, wf, revived, cb>>

DeleteRead(t) ==
  /\ t \in Requests /\ pc[t] = "idle" /\ run \in Final
  /\ Goto(t, "delete")
  /\ UNCHANGED <<run, born, imageUrl, wfMap, nwf, wf, revived, cb>>

DeleteRow(t) ==
  /\ pc[t] = "delete"
  /\ run' = "absent"
  /\ Return(t)
  /\ UNCHANGED <<born, imageUrl, wfMap, nwf, wf, revived, cb>>

\* A write fails and the request returns; only StopRun() and a retry's reset
\* then leave something undone.
WriteErr(t) ==
  /\ pc[t] \in {"pending", "stopStore", "reset", "delete"} /\ "dbErr" \in Faults
  /\ Return(t)
  /\ UNCHANGED <<run, born, imageUrl, wfMap, nwf, wf, revived, cb>>

-----------------------------------------------------------------------------
(* The engines and UpdateRunByWfEvent *)

\* An engine that schedules jobs of the run.
Live(i) == wf[i].started /\ ~wf[i].ended

\* Listen() of an engine takes an event and processes it.
Processes(i) ==
  /\ wf[i].started /\ ~wf[i].over /\ wf[i].status \notin Final /\ cb[i].at = "none"
  /\ cb' = [cb EXCEPT ![i].at = "call"]
  /\ UNCHANGED <<run, born, imageUrl, wfMap, nwf, revived, pc, read, mine>>

\* processEvent() of an event that does not end the run.
EngineEvent(i) ==
  /\ ~wf[i].ended
  /\ Processes(i)
  /\ UNCHANGED wf

\* ... and of one that finds all steps ended, for the first time or, after Stop()
\* wrote over the result, again.  Only a run that is Terminating ends Terminated.
EngineEnd(i) ==
  /\ Processes(i)
  /\ \E st \in Final :
       /\ st = "Terminated" => wf[i].status = "Terminating"
       /\ wf' = [wf EXCEPT ![i].status = st, ![i].ended = TRUE]

\* callback() reads the status anew, and calls UpdateRunByWfEvent().
CallbackCall(i) ==
  /\ cb[i].at = "call"
  /\ cb' = [cb EXCEPT ![i] = [at |-> "begin", status |-> wf[i].status, tries |-> 1]]
  /\ UNCHANGED <<run, born, imageUrl, wfMap, nwf, wf, revived, pc, read, mine>>

\* A final status takes the run out of wfMap before the record is written.
CallbackBegin(i) ==
  /\ cb[i].at = "begin"
  /\ wfMap' = IF cb[i].status \in Final THEN 0 ELSE wfMap
  /\ cb' = [cb EXCEPT ![i].at = "store"]
  /\ UNCHANGED <<run, born, imageUrl, nwf, wf, revived, pc, read, mine>>

\* Listen() returns after the callback of a final status.
Returns(i) ==
  /\ cb' = [cb EXCEPT ![i] = NoCallback]
  /\ wf' = [wf EXCEPT ![i].over = wf[i].status \in Final]

CallbackStore(i) ==
  /\ cb[i].at = "store" /\ run # "absent"
  /\ run' = cb[i].status
  /\ Returns(i)
  /\ UNCHANGED <<born, imageUrl, wfMap, nwf, revived, pc, read, mine>>

\* No record, or the database fails: callback() tries three times in all.
CallbackErr(i) ==
  /\ cb[i].at = "store" /\ (run = "absent" \/ "dbErr" \in Faults)
  /\ IF cb[i].tries < 3
     THEN /\ cb' = [cb EXCEPT ![i].at = "begin", ![i].tries = @ + 1]
          /\ UNCHANGED wf
     ELSE Returns(i)
  /\ UNCHANGED <<run, born, imageUrl, wfMap, nwf, revived, pc, read, mine>>

-----------------------------------------------------------------------------

\* The steps by which a request or an image callback goes on.
Proceed(t) ==
  \/ SourceErr(t) \/ HandleNoImage(t) \/ HandleErr(t) \/ HandleImage(t)
  \/ ImageFailed(t) \/ ImageReady(t) \/ ImageStart(t)
  \/ StartWf(t) \/ WritePending(t)
  \/ StopLookup(t) \/ StopStore(t) \/ StopWf(t) \/ StopCancel(t) \/ StopMark(t)
  \/ RetryReset(t) \/ RetryRefused(t) \/ DeleteRow(t) \/ WriteErr(t)

Request(t) == CreateInsert(t) \/ StopRead(t) \/ RetryRead(t) \/ DeleteRead(t)

Callback(i) == CallbackCall(i) \/ CallbackBegin(i) \/ CallbackStore(i) \/ CallbackErr(i)

Next ==
  \/ \E t \in Threads : Request(t) \/ Proceed(t)
  \/ \E i \in Wfs : EngineEvent(i) \/ EngineEnd(i) \/ Callback(i)

Spec == Init /\ [][Next]_vars

\* The goroutine of a request or of an image callback runs on; requests may stop
\* coming.  Of an engine nothing is assumed: its next event may never come, and a
\* cancelled run may never end (step.go:286, and the slot lost at step.go:334).
FairSpec == Spec /\ \A t \in Threads : WF_vars(Proceed(t))

-----------------------------------------------------------------------------
(* Properties *)

\* One request at a time: an engine that still schedules jobs is the one wfMap
\* holds, so that StopRun() can reach it, and there is only one of them.
LiveIsStoppable == \A i \in Wfs : Live(i) => wfMap = i

\* One request at a time: a run that has been deleted schedules nothing, and
\* nothing about it is left in wfMap.
DeletedRunIsOver ==
  born /\ run = "absent" => wfMap = 0 /\ \A i \in Wfs : ~Live(i)

\* Whatever other requests, callbacks and the start of the engine do meanwhile,
\* an engine on which StopRun() calls Stop() is cancelled for good, or has ended.
StopIsForGood ==
  \A t \in Requests, i \in Wfs :
    pc[t] = "stopWf" /\ mine[t] = i ~> [](wf[i].cancelled \/ wf[i].ended)

-----------------------------------------------------------------------------
(* Statements of the repository that the code does not keep *)

\* run.go:330, the error of StopRun(): "cannot stop run as run is already in
\* status" Terminating or a final one; so a final record is not overwritten.
FinalRunIsNotStopped == [][(run \in Final) => run' # "Terminating"]_vars

\* run.go:367, on RetryRun(): "only failed or terminated runs can retry"; so
\* no engine is made for a run that has one at work.
RetriedOnlyWhenEnded == Cardinality({i \in Wfs : Live(i)}) <= 1

\* run.go:414, the error of DeleteRun(): "only runs in final status can be
\* deleted"; so nothing is scheduled for a deleted run.
DeletedOnlyWhenEnded == born /\ run = "absent" => \A i \in Wfs : ~Live(i)
-----------------------------------------------------------------------------
(* The inductive invariant behind the proofs: one request at a time, no image *)
(* to be handled, and a database that answers                                 *)

Statuses == {"absent", "Initiating", "Pending"} \cup Active \cup Final
EngineStatuses == {""} \cup Active \cup Final
TypeOK ==
  /\ run \in Statuses /\ born \in BOOLEAN /\ imageUrl \in BOOLEAN
  /\ wfMap \in 0..MaxWf /\ nwf \in 0..MaxWf
  /\ wf \in [Wfs -> [status : EngineStatuses, cancelled : BOOLEAN, started : BOOLEAN,
                  ended : BOOLEAN, over : BOOLEAN]]
  /\ revived \in BOOLEAN
  /\ cb \in [Wfs -> [at : {"none", "call", "begin", "store"}, status : EngineStatuses, tries : Nat]]
  /\ pc \in [Threads -> {"idle", "handle", "image", "imageStart", "start", "pending", "stopLookup",
                         "stopStore", "stopWf", "stopCancel", "stopMark", "reset", "delete"}]
  /\ read \in [Threads -> [status : Statuses, url : BOOLEAN]] /\ mine \in [Threads -> 0..MaxWf]

\* Only the newest engine is at work or calls back; wfMap holds it until its
\* last callback begins.
EnginesInv ==
  /\ wfMap \in {0, nwf}
  /\ \A i \in Wfs :
       /\ i > nwf => wf[i] = NewEngine
       /\ wf[i].started => wf[i].status \in Active \cup Final
       /\ wf[i].ended <=> wf[i].status \in Final
       /\ wf[i].ended /\ cb[i].at = "none" => wf[i].over
       /\ Live(i) => i = nwf /\ wfMap = nwf
       /\ cb[i].at # "none" => i = nwf /\ wf[i].started
       /\ cb[i].at \in {"begin", "store"} =>
            /\ cb[i].status \in Active \cup Final
            /\ cb[i].status \in Final => wf[i].ended
       /\ cb[i].at = "store" /\ cb[i].status \in Final => wfMap = 0

\* What the request relies on: only a run with nothing at work has ended.
NoneAtWork == \A i \in Wfs : ~Live(i) /\ cb[i].at = "none"
NothingLeft == wfMap = 0 /\ NoneAtWork
RequestInv ==
  /\ ~born => run = "absent"
  /\ \A t \in Threads : pc[t] # "idle" => t \in Requests
  /\ \A t \in Requests :
       /\ run \in Final \cup {"absent"} /\ pc[t] \notin {"start", "pending"} => NothingLeft
       /\ run = "absent" => pc[t] = "idle"
       /\ pc[t] \in {"handle", "reset", "delete"} => NothingLeft
       /\ pc[t] = "reset" => read[t].status \in Retryable
       /\ pc[t] = "start" =>
            NoneAtWork /\ mine[t] = nwf /\ wfMap = nwf /\ nwf \in Wfs /\ ~wf[nwf].ended
       /\ pc[t] \in {"stopStore", "stopWf", "stopCancel", "stopMark"} => mine[t] = nwf /\ nwf \in Wfs
       /\ pc[t] \notin {"image", "imageStart"}
SeriesInv == TypeOK /\ EnginesInv /\ RequestInv
=============================================================================
