# PaddleFlow in TLA+

PaddleFlow runs machine-learning pipelines: a user posts a run of a workflow,
the API server's engine submits the steps as Kubernetes jobs in the order of
their dependencies, and a job subsystem follows the jobs in the cluster. A file
system (client, FUSE, CSI plugin) gives the jobs their data. These modules model
the parts in which goroutines, processes, database, cluster and users act on the
same state: the engine, its recovery after a crash, the run controller, the job
subsystem, the API server's records, the file system server, client and CSI plugin.

## Inventory

| Part | State | Operations | Meets |
|---|---|---|---|
| Engine, `pkg/pipeline` `run.go` `step.go` `job.go` | run status, context, channels `event`, `concurrentJobs`, `ready`; per step `done`, `submitted`, job status | `Start`, `Restart`, `Listen`, `Stop`, `Execute`, `Watch`, `stopJob` | job subsystem (create, poll, stop), run controller (`UpdateRunCb`) |
| Recovery, `workflow.go` `SetWorkflowRuntime`, `controller/run` `resumeActiveRuns` | the stored runtime view | rebuild and `Restart` | engine, database |
| Run controller, `apiserver/controller/run` | run record, `wfMap` | create, stop, retry, delete, image callback, engine callback | engine, image handler, database |
| Job subsystem, `pkg/job` | job record, job in the cluster | `CreateJob`, `StopJobByID`, `UpdateJob`, the construction of the job | engine, cluster |
| Job sync and collector, `pkg/job/controller` | workqueues | event handlers, worker, delayed termination, collection | cluster, job record |
| Workflow validation and parameters, `workflow.go` `common.go` | the source under construction | `validate`, `topologicalSort`, parameter solver | run controller, engine |
| Step cache, `cache.go`, `track.go`, `models/cache.go` | cache and artifact records | fingerprints, lookup, record | engine, file system |
| Image handler, `handler/image_handler.go` | images under way, runs that wait | queue, read, call back, resume | run controller |
| Users, tokens, grants, queues, `apiserver/controller` | one table each, queues also in the cluster | log in, create, change, close, delete | database, cluster, informer |
| Clusters, quotas, templates, `apiserver/controller` | one table each, cached clients | create, change, delete | database |
| Lists, `controller/*` `List*` | none | pages and markers of ten tables | database |
| File system server, `pkg/fs/server` | file systems, links, grants; claims in the cluster; the links file | create and delete of each, list | database, cluster, storages |
| File system client, `pkg/fs/client` | inodes, handles, attribute, entry and block caches, links | the file operations, `MkdirAll`, `RemoveAll`, `Copy` | kernel, storage back ends |
| CSI plugin, `pkg/fs/csiplugin` | mounts of a node, its copy of the pods | publish, unpublish, periodic remount | kubelet, FUSE |
| Commands, configuration, generated API types | none after start-up | | |

What is hard here:

* **Unsynchronised engine state.** `wfr.status`, `st.done` and the job status are
  read and written by several goroutines without a common lock. A verdict, a
  stop, a cancellation and a job's last status can meet in any order.
* **Events without content.** The scheduler is only woken up by an event and reads
  shared state that may not have caught up with it.
* **Crashes.** Memory is lost and rebuilt from what the last callback stored.
* **Test and write apart.** Requests test a record's status and write it later.
* **Retries and delays** in the job workqueue reorder updates of one job.
* **Limits**: bounded channels, slots, retry counters.

What makes each part correct, in a sentence: a step runs after its dependencies
really succeeded, and within the parallelism; a run is over only if no job of it is
alive; what the database says of a finished step is true and stays; a cancelled run
stops its jobs; a record claims only outcomes a job had; a workflow is sorted and its
parameters are solved the same way in whatever order Go visits its maps; a step is
skipped only for a result that exists and is its own; a job that is created can start;
a token dies with its password; no row, grant, link, claim or mount outlives what it
belongs to, and none is lost; a client that follows the markers sees each row that stays;
a file system's client reads what was written, in the right file. `PROJECT.json` lists
the hazards at their lines, each with the properties aimed at it.

## Modules

| Module | Models | Checked by |
|---|---|---|
| `WorkflowRuntime` | the engine of one run | `MCWorkflow` |
| `PipelineRun`, `WorkflowRefinement` | what a run promises, without goroutines; the mapping from the engine to it | `MCWorkflow` |
| `RunRecovery` | the engine with crashes and restarts; extends `WorkflowRuntime` | `MCRecovery` |
| `RunController` | requests, callbacks and engines of one run | `MCRunController` |
| `JobSync` | one job: its creation, the cluster, job sync, the collector | `MCJobSync` |
| `WorkflowSource`, `StepCache`, `JobSpec` | before a step runs: source, cache, the job's object | `MCPipelines` |
| `Tenancy`, `Listing`, `Catalog`, `ImageHandler` | the API server's records and its image queue | `MCApiServer` |
| `CsiNode`, `S3Store`, `LinkWatch` | what keeps a mount usable | `MCMounts` |
| `FileServer`, `FileClient`, `ReadCache`, `ClientTree` | file systems: the server's records, the client's tables, its block cache, its tree operations | `MCFileSystems` |
| `...Proofs` | theorems and proofs, checked by TLAPS | |

The last four `MC` modules put components side by side that share no state the
properties depend on: `which`, chosen in `Init`, names the one that runs, and the variables of the
others hold `"off"`. A behaviour is one of a single component; one TLC run checks
them all. `MCRecovery`, `MCRunController` and `MCJobSync` choose in the same way between two instances of
one module (`stopped`, `single`, `spark`).

Three compositions are real: `RunRecovery` is the engine with its server around it,
`RunController` holds the engines as what they show, and `WorkflowRefinement`
relates the engine to its abstract run.

### WorkflowRuntime

One program counter per goroutine: `listen` (`Start()` then `Listen()`), `exec[s]`
(`Execute()` and the `Step.Watch()` it ends in), `jw[s]` (`PaddleFlowJob.Watch()`),
`stopper[s]` (`stopJob()`), `stopPc` (a user's `Stop()`). Each channel is a count or
its content. `ext[s]` is the job subsystem's word on the job and `db` what the last
callback stored.

A step of the model ends where another goroutine could notice: `updateStatus()`
looks at one workflow step at a time, computes its verdict in one step and assigns it
in the next (`Stop()` may write in between); `PaddleFlowJob.Watch()` sends the event
in one step and assigns the status in the next, as in the code; `st.update(st.done,
true, ..)` writes back the value of `done` that the scheduler read before.
Taken as one step each: the view built by `callback()` with its storing, and the mutex of
`IncConcurrentJobs` with the send it protects. An event's text is left out. The branch of
`Step.Watch()` for a closed channel is never reached, which `NoReadFromClosed` shows.
Job statuses Pending, Running and Terminating are one, since the engine treats them alike.

`Env` selects what the environment does: failing submissions, stops, polls, cache
checks and callbacks, a user's stop, failing and killed jobs, new messages.

### PipelineRun and WorkflowRefinement

The abstract run has one variable per step (idle, live, or how it ended) and a flag for
the end of the run. The engine implements it: a step's abstract state is the job's
state in the cluster if it has one, else what `Execute()` made of it; the run is over
once the database says so.

### RunRecovery

`Crash` forgets every variable of the engine; jobs and database live on. `Resume`
rebuilds the steps from `db.runtime` as `SetWorkflowRuntime()` does, and `Restart()`
follows in its two loops. A live job whose id was not yet stored is an orphan and does not count
for its step any more. `pend` is the write of status Pending that
`handleImageAndStartWf()` makes after `Start()` or `Restart()`.

### RunController

Request handlers and image callbacks are threads that stop between any two accesses to
the run's record, to `wfMap` or to an engine. An engine shows
only its status, its context and its callbacks: `WorkflowRuntime` has the details. Its events, its callbacks and
the `Stop()` of a request interleave: `StopWf`, `StopCancel` and `StopMark` are the test, the cancellation and the write of
the status, between which `Listen()` goes on, so that a final status can be written over (`revived`): `Listen()` then does not
return, and the engine may call back once more. A final callback takes the engine out of `wfMap` and then stores, in up to three
tries. Access checks and the read-only operations are left out.

### JobSync

`CreateJob()` inserts the record and creates the job in one transaction, so events can arrive
before the commit. A change in the cluster and the handler that queues it are one
step, as handlers read only the event; the delay lies in the queue. Items that are
retried or delayed wait in the set `later` and come back in any order. One worker takes
them. `Faults` selects failing starts, commits, reads and saves, and whether the worker may
outrun the commit (`slowCommit`, which only the proofs cover). A Spark application and a Volcano job differ in the meaning of the empty phase
and in the pod events.

### WorkflowSource, StepCache, JobSpec

`WorkflowSource` takes a workflow from yaml to steps. Each loop over a Go map is an action
that picks the next name, so TLC visits every order: collecting the steps an entry needs, the
sort with its passes, the run's parameters, `checkSteps()`, and the building of the steps, each of
which writes resolved values back into the source the later ones read. A value is a record (literal,
`PF_STEP_NAME`, reference, dictionary), a step has at most one parameter.

`StepCache` follows one step of a pipeline through several runs. A fingerprint is the set of
facts it hashes. Lookup, each reading of a modification time, and recording are steps of their own; rows
expire and are deleted, paths are written, and a restart rebuilds the step from the stored view, without
artifacts and with `docker_env` as its image.

`JobSpec` is `job.CreateJob()`: the environment is checked, the queue and the claim are looked up, the
template is read, and the object is patched task by task. The patch functions differ in whether they
write to the tasks or to copies of them, and this is what is modelled of Go's values. A replica number wraps
at `Width` bits.

### Tenancy, Listing, Catalog, ImageHandler

A request is a record with a program counter; each call to the database or the cluster is one
step, and may fail. `Tenancy` has the accounts, the tokens (a user, a password hash and, as history, the
time of the password), the grants, the queues in the database and in Volcano, and the informer with
its copy. `Catalog` has clusters with the cached Kubernetes client and the credential it was made from, the
quota computed from nodes and containers, and pipelines.

`Listing` writes the shape the ten lists share once (query, compare with the last row) and gives
each list its filter and its way to say that there is more. A client follows the markers while rows come
and go. Eight of the queries say `LIMIT` and no `ORDER BY`: the database may answer any of the rows found, in any order, and
`ordered` remembers whether it has always answered as by key. Users get their queues by a join with the grants on the name
(`ListQueue`): a queue comes once per grant, of whatever type, and grants are given and taken back meanwhile. The lists by time
do sort; their marker is cut to seconds (`Second`).

`ImageHandler` has runs with a tar image, the queue, the process goroutines, kills, and the resumption
from the database. An image that can be read makes `processImage()` panic outside of its `recover()`, so what
comes behind line 508 never runs: it is not modelled, and `RunController` keeps its callback only as a request
that may come.

### CsiNode, S3Store, LinkWatch

`CsiNode` is one node: kubelet's calls with their half-done states, the two mount stacks of each pod (source
and bind), the death of a FUSE process, and the controller with its three goroutines, its old
list of pods and its commands, each of which may fail. `bare` remembers a source that was bound or left with nothing
mounted on it.

`S3Store` keeps objects under keys; a directory is a key with a slash. Each operation is its sequence of
requests with the lock it holds, between which other threads run, requests fail and the process dies. Listings (`ReadDir()`)
change nothing and are left out. `owed` is what
an upload was answered for. `LinkWatch` is the links file between the server that replaces it in three
file operations and the mounter that polls its modification time, in seconds.

### FileServer, FileClient, ReadCache, ClientTree

`FileServer`: what the handlers check (the form of the url, the properties each storage needs, nesting with other rows,
the path of a link in the storage), then their calls one by one, with failures half way and a crash
that forgets requests and locks. A path is its text, split at the slashes: the checks compare texts (`CheckFsNested`), and `Clean` is
where a text leads, as the storages join and clean it. The links file lies in that place (`meta`, `PlaceOf`), is found by every
file system made there, and is removed by none. `DeletePVC`, `GetPV` and `CreatePVC` go through namespaces in the order of the
list; the links file is replaced by `SaveTemp`, `MoveAway` and `Rename` under the lock.

`FileClient` has the inode table as it is (parent, name, children, kind), the storages as sets of paths, the handle
lists, and either the kernel, which holds numbers, or the client library, which holds paths and remembers
entries and attributes. An operation is one step: operations that overlap are not modelled, each map has a lock of its own.

`ReadCache` splits a read into key, lookup, storage and the goroutine that fills the tiers; a write into
invalidation, storage and publication. A block's content is the number of the write it shows. `buffered` chooses
back ends that publish at once or on close.

`ClientTree` has a stack of calls per caller, as `RemoveAll()`, `MkdirAll()` and `Copy()` call each other, and two
callers whose calls interleave on one tree. Any call may fail (`CallFails`), and each function does with the error what the code does:
`MkdirAll()` takes a failed `Stat()` for a missing path, `RemoveAll()` lists what a first `Remove()` did not remove and drops the
error of the last.

## Runs

The engine's instances have two or three steps on one slot. Two steps on one slot are the
smallest case in which a step waits for a slot, for a dependency, or for a cancellation that
another one causes; three are needed only for a step with two dependencies.

| Run | Instance | Shows |
|---|---|---|
| `WorkflowChain` | chain of two, cache, every fault | `TypeOK`; the run is over only without live jobs, its verdict is justified, the closed channel is not read, the record is stable; refinement of `PipelineRun` |
| `WorkflowJoin` | two steps into a third; submissions and jobs fail; the first two are alike (symmetry) | ready signals do not block, order, slot bound |
| `WorkflowLiveness` | chain; user stops, stops fail now and then, jobs fail; fair | a cancelled run's jobs end; a run completes, and its record says so |
| `Recovery` | chain; two crashes, cache, jobs and callbacks fail; or one crash and a user's stop | order, no second submission of a recorded job, records that are real and stay |
| `RunController` | one request at a time, three engines; or two at once and an image callback, every fault, fair | an engine at work can be stopped, a deleted run is over, what was stopped stays cancelled or has ended |
| `JobSync` | Volcano job: three changes, a pod event, two failing calls; or Spark job: three failing reads, fair | real outcomes, the record moves forward, the end is recorded |
| `Pipelines` | all graphs and parameters of three names; two runs with two artifacts and a restart; every job of four modes with five replica numbers | sorting, parameters, cache, jobs that can start |
| `ApiServer` | two threads, one user and queue; three rows, two grants, limits 0 to 2, two ticks of the clock; one cluster name, three pipelines; two tar images, two workers | tokens, grants, queues, pages, clusters, runs that wait for an image |
| `Mounts` | one pod, two deaths, two failing calls; two threads on one S3 directory; three versions of the links in three seconds; fair | no mount left, uploads kept, dead mounts come back, links are taken over |
| `FileSystems` | two ids, seven requested sources, two of them one directory spelled in two ways, two namespaces, four requests in two threads, one failure or crash; three inodes, two handles, a link; two files of two blocks; trees of two paths with two callers | disjoint sources, links, claims, client tables, reads, tree operations |
| `VioSubmit`, `VioImage` | see Findings | what the code does not keep |

Why the bounds are enough: what each property needs to fail happens within them, which the
mutants in `PROJECT.json` show, one per property: each is a plausible slip in one definition (a dropped
guard, a swapped order, a forgotten lock, an off-by-one), and TLC finds its property violated with the
constants of the run. Two actors are the least that can overlap and enough for test and write apart; two crashes reach a crash
during recovery; `MaxRetries + 1` failing reads exhaust the retries of an item; a page of one row makes three pages; two grants make a queue come twice; a third version of
the links comes while the second is being read.

Deadlock is not checked: runs, jobs and servers with no more requests stop; the
liveness properties say when they must not.

What the properties leave open is as much a result as what they say:

* `RunCompletes` names the one race that keeps a run from completing: the scheduler
  looks while the last status of a finished job is not assigned yet, and no further event comes.
* `RecordOnlyAdvances` lets an item that was itself retried move the record from running back to
  pending, and speaks of completed and terminated only without database errors and with a worker
  that does not overtake the commit: a retried update can be overtaken by a later one. `OutcomeIsReal` holds in any case.
* `EnginesAreReachable` holds for one request at a time; what concurrent requests can do is
  among the findings. So do `QueuesAgree`, the user half of `GrantsHaveOwners`, `SourcesAreDisjoint`
  and most of `ClaimsAreSound`: these handlers test and write apart. A Kerberos HDFS is stored under a kind that no url
  names, so no later request is compared with it.
  `EnginesAreReachable` excepts, besides, a run whose final status a `Stop()` wrote over.
* `StopStays` does not say that a stopped run ends, since it may not: a step waits for its slot without looking at the context (`step.go:286`),
  and a failed submission has lost one (`VioSubmit`).
* Nothing but the rights in `PagesAreRight` holds by key unless the database answers in the order of the keys, which no query asks for.
  A failed query, answered with an empty page, is excepted too; so are, by time, rows made in the second of a marker, which are lost, and the
  repetitions of the queues' join.
* `SourcesAreDisjoint` is about paths without empty parts. `//a` passes beside `/a`, and a link `a` beside `/a`, although they are the same
  directory once cleaned (`fs/server/utils/fs/fs.go:144`).
* `LinksFileIsCurrent` excepts a file system without links in a directory that others used before: it finds the file of the last of them
  (`fs/server/service/link.go:192`). If requests overlap it speaks only of the first file system in a directory.
* `AnswersAreTrue` excepts a `RemoveAll()` whose last `Remove()` failed: the error is dropped (`pfs_client.go:216`).
* `DeadMountsComeBack` excepts a command that failed (a repair that stops half way is not tried again), a restart of the
  plugin between `Umount()` and `Mount()`, and `Stop()`.
* `ReadsAreRight` excepts data on its way into the cache when a flush drops its blocks, and everything after a block was
  stored under the key of the empty id (`cache.go:168`).
* `ClientIsSound` speaks of names that are directories only until one is renamed: the kernel keeps the node number, the table makes a new
  node (`inode.go:156`). It says of an entry of the client that it resolves to its path unless the path is at or below a directory that was renamed,
  a path whose rename failed half way, one that was taken away with a link below it (its node forgets its parent, so the entries of the link resolve
  from the root), or one that was taken away by another name than the one whose entry is forgotten. The run has a link in a directory for the third; the
  fourth needs more nodes than it has.
* `ViewCatchesUp` excepts two versions saved in one second, and links that cannot be reached.

Some definitions are not in a run and hold too, with the same constants: the invariants behind the proofs, `ViewGoesForward` of
`LinkWatch`, and `BrokenRunFails` of `ImageHandler` under `FairSpec`.

### Fairness

* Weak fairness of each goroutine of the engine, of each request handler, of the job sync worker and of the image
  handler's goroutines: the Go scheduler runs what can run.
* Strong fairness of a successful `job.Stop()` in the engine: `stopJob()` tries every three seconds
  for ever, and a cluster that always refuses is not assumed.
* A job whose stop succeeded ends. That every job ends (`JobsEnd`) is a hypothesis of `RunCompletes`
  and of `VioSubmit`, and assumed nowhere else.
* In `RunController` only the goroutines of requests and image callbacks go on. Nothing is assumed of an engine: its
  next event may never come.
* In `JobSync` a transaction ends and each delay is finite. Nothing is assumed of the
  cluster or the users.
* In `CsiNode` kubelet keeps calling, timers fire and goroutines run; the update of the pods is strongly fair, since the
  `select` it waits in has another branch that is taken now and then. In
  `LinkWatch` the mounter goes on polling. Requests, deaths and the clock may stop.

## Proofs

TLAPS checks the theorems below for every value of the constants: any finite set of steps and any dependency relation, any number
of engines, faults, threads, rows, namespaces, pods, files and blocks. None of the properties is inductive by itself. Each module states, next
to its properties, the invariant that is; TLC has checked each with the constants of the run before it was proved. What the
runs check of a component alone is proved of it in the composition they run (`Spec` of the `MC` module).

`WorkflowRuntimeProofs`: the engine, and its refinement.

* `TypeCorrect`, `Invariance`: `TypeOK` and `IInv` are invariants. `IInv` adds what the other
  goroutines know: `StepInv` (which flags go with which point of `Execute()`), `WatchInv` (a polled
  end is on its way to `Step.Watch()` until the step is done, and it is the cluster's word),
  `SeenInv` (what a scheduler pass saw stays true during it), `OverInv` (once there is a verdict
  every step is settled), `SchedulerInv`, `RecordInv` (a stored end is the step's), `SlotInv`
  (each holder of a slot has a token).
* From it: `DependencyOrder`, `CompletionSafe`, `SchedulerNeverBlocks`, `WatchSafe`, `VerdictSafe`,
  `ParallelismSafe` and the action property `RecordSafe`.
* `RecordedFinalSafe`, `EngineImplementsRun`: the engine implements `PipelineRun`. The step proof
  maps each action to a launch, an ending, a skip, the completion or a stutter; `FinalInv` is
  needed for the completion: a recorded end is not taken back by a `Stop()` that was under way.

The same module, of `RunRecovery`: the engine with crashes and restarts, any number of them.

* `RecoveryInvariant`: `RInv` holds. `IInv` does not survive a crash: a job of an earlier server has no stopper, no slot and perhaps no
  watcher yet, and a recorded step without a status waits although it was submitted. `RInv` keeps what does survive: where a step is
  (`PlaceInv`), what the engine believes of its job (`BeliefInv`), what a crash leaves behind (`DownInv`: every live job is on record)
  and what the record is good for (`StoredInv`: job ids of jobs that exist, dependencies on record as succeeded).
* From it: `OrderKept`, `NeverResubmitted`, and the action property `RecordedEndKept`.

`RunControllerProofs`: requests that come one at a time, any number of engines (`MaxSeries`).

* `EnginesStayReachable`, on `SeriesInv`: only the newest engine works or calls back; `wfMap` holds it until its last callback begins
  (`EnginesInv`), and a request that found the run ended finds nothing at work at each of its later steps (`RequestInv`). This part is why the
  property holds: with two requests at a time it is the one that fails. Of behaviours in which a `Stop()` wrote over a final status
  it says nothing from there on, as the property does; TLC's series stops there.

`JobSyncProofs`: for both kinds of job, any faults and any numbers of events.

* `JobSyncTypes`, `OutcomeSafe`: the record claims only outcomes the job had. `JobSyncInv` extends this to
  every item that still waits in the queue or for its next try.
* `RecordAdvances`: the action property `RecordOnlyAdvances`, if the worker does not overtake the commit (`slowCommit`; if it does, the
  first update of a completed job waits for its second try, the deletion comes first, and TLC shows it recorded as terminated although no
  call failed). It rests on the order of the queue: `OrderInv` (an untried "pending" comes before all that says
  the job was running) and `CompletedInv` (a completed job's update comes before its deletion).

`ApiServerProofs`: any users, queues, threads, tags and workers.

* `RunsAreHeld`: `NoRunForgotten`, which is inductive together with the types of `ImageHandler`.
* `TokensAreOfOnePassword`, `GrantsAreOwned`, `TablesAgree`: on `SaltInv` (the salt of a hash, in the table or in a token, tells which write it is from),
  `OwnerInv` (a grant without its account is one `DeleteUser()` is about to delete, and a grant being made has its account) and `AgreeInv` (a difference between table and cluster is an event on its way, a command,
  or a request under way).
* `CatalogStaysKept`: both halves of `CatalogIsKept`, on `CatalogInv`, whose `OneByOneInv` follows a request that runs alone: a deletion still has its row, and a client
  without its credential has one on its way. The quota is a sum over the containers of a node, at most two in `Catalog`, which the proof unrolls.
* `PagesStayRight`, on `ListingInv`: `RightsInv`, whatever the database answers; `PkInv` (by key, and while the answers are in order: what was handed out lies
  up to the marker, the page beyond it, and nothing is left out up to its last row); `TimeInv` (by time, what was handed out is newer than the
  marker and complete down to it, but for the seconds of the markers). A queue waits to be listed only while it is granted, so `TypeOK` ties what
  is waited for to the grants.

`MountsProofs`: any pods, keys, threads and numbers of deaths.

* `UploadsAreKept`, on `StoreInv`: operations and open files that share a name at the same time have all their names in `mixed`, of which nothing is
  promised (`Apart`), and a rename that is alone on its names deletes only what it has copied (`Copied`).
* `MountsAreGone`, on `VolumeInv`, with `CallsInv`: a source that is being bound is there, and no call of kubelet is under way for a pod
  that is gone.

`FileSystemsProofs`: any ids, requested sources, threads, namespaces, readers, files and blocks, and any names, depth and trees.

* `SourcesStayApart`, `LinksStayKept`, `ClaimsStaySound`, on `ServerInv`: `Serial` and `LockInv` (who may be under way beside whom), `DisjointInv`,
  `TenantInv` (a links file was written for a file system that was made in its place), `LinkInv`, `OwnedInv`, `BoundInv` (which claims, volumes,
  rows and links a half-done request accounts for). `SourcesStayApart` rests on a lemma that for texts without empty parts the comparison by parts is the one of
  the places they lead to.
* `ReadsGetTheirData`, on `CacheInv`: every id stands for one version of one file, a cached block is that version's (`IdsAreOwn`, `BlocksAreOwn`), and
  what a reader or a filling goroutine holds on to is still fresh, or too late to be asked for (`HeldIsFresh`).

* `AnswersStayTrue`: the action property `AnswersAreTrue`, on `TreeInv`: the calls a caller is in belong to what it was asked for (`RemovesBelow`,
  `MakesAbove`); what is left of a directory is what the call still has to remove and what the call above it is removing (`LeftToRemove`); and
  MkdirAll comes to a path only when there is a directory to make it in (`ReadyToMake`). A step of another caller keeps these or sets `undone`.

`FileClientProofs`: any names, links (none inside another), nodes and handles, a kernel or a program as caller.

* `ClientStaysSound`: the client sees what the storages hold, on `ClientInv` of `FileClient`: the storages are trees (`StoresAreTrees`), the inode
  table is one (`TableIsTree`: a node's parent was made before it, and whoever is a child knows it), the entries lead to the paths they are remembered
  for or went astray (`EntriesLead`), while nothing went astray every node that the root leads to has a path of its own, which the storages know and
  of the same kind (`Tidy`), and the numbers of the handles differ (`HandlesDiffer`). Listings agree with lookups because storages are trees; entries and handles need the rest. The proof
  says what an operation does to any table, cache and storages (`NewChildSound`, `RmChildSound`, `AwaySound`, `EntryAdded`,
  `StoreGrows`, `StoreShrinks`, `StoreRenames`) and then that each operation is one of these, or several in a row: a rename is a lookup or two, a new key for
  everything below, and a child that goes. Paths and lookups go up the tree step by step; what is said of all of them is shown by a least counterexample.

`PipelinesProofs`: any names and values of a yaml, any dependencies, runs and templates, any width of the counters.

* `StepsAreSorted`, on `SortInv`: a step is collected because the entry needs it (`CollectedByNeed`), the steps sorted so far come after all they
  depend on (`Ordered`), and a cycle among those that are left is what makes the sort give up (`Sorting`, `CyclesAreRefused`).
* `ParametersStayTheirs`, on `ParamInv`: what `checkSteps()` has replaced so far (`CheckedInv`) and what the steps built so far hold
  (`BuiltInv`). `Solve` is a recursive function; the proof exhibits a function that
  solves its equations (without one the choice would be arbitrary) and shows that each solution gives the same answer: an error if the references
  lead to one that is broken, the value otherwise.
* `CacheStaysSound`, on `CacheInv`: a row, wherever it was copied to, tells what its run executed and read (`RowInv`); the second fingerprint is that
  of the versions the job reads, unless something was written between (`LookupInv`).
* `CreatedPodsCanStart`, on `PatchInv`: what is patched is what the template holds, and what the patch leaves is what is created.

The proofs corrected the models three times. `S3Store` remembers a renamed key under both of its names (`mixed`), which matters with
three names and not with the two TLC has; in `CsiNode` a quantifier had swallowed the conjunct for the main thread; and the claim of `FileClient` on
entries fails when a directory with a link in it is taken away (`Strays`), which no run had: now there is a link in a directory. A file's ancestors in `FileClient` are a
recursive function, since the prover has no recursive operators, and a page in `Listing` is any choice among the orders of its rows.

Assumptions on the constants, each beside its declaration and evaluated by TLC: the engine's (`StepsAssumption` and the like: a finite set of steps,
dependencies among them, a parallelism of at least one), bounds that are natural numbers (`BoundsAssumption`, `SeriesAssumption`, `LimitsAssumption` of page sizes, `SizesAssumption` of quotas, ...), and values
that stand for "nothing" and are no member of the sets they are used beside (`PasswordsAssumption` that there is a password, `IdleAssumption`,
`NobodyAssumption`, `NamespacesAssumption`). `DepthAssumption` says that paths have an end, `LinksAssumption` that a link is a path and not the root, `ValuesAssumption` which values a yaml may hold, and
`JobAssumption` that replica numbers are integers and the limit of their counters is positive (the provers know no powers).

Only model-checked:

* liveness (`CancelStopsJobs`, `RunCompletes`, `SparkEndIsRecorded`, `StopStays`, `DeadMountsComeBack`, `ViewCatchesUp`), which needs fairness;
* `RunController` with concurrent requests, of which only liveness is claimed.

## Findings

Statements that a comment, message or test of the repository makes and the code does not keep. Two
have a run of their own:

| Run | What happens |
|---|---|
| `VioSubmit` | a failed submission keeps its slot, the run hangs |
| `VioImage` | the first image that can be read panics where nothing recovers, and the server dies |

The others stand at the end of their modules, each with the line it is taken from. TLC refutes each
with the constants below, most within seconds (engine: `Parallelism = 1`, no cache, two steps, in a chain unless said otherwise).

| Definition | Module, specification, instance | What happens |
|---|---|---|
| `EndedMeansNeverSubmitted` | `MCWorkflow`, `Spec`, `Env = {"jobFail"}` | a step whose job ran is counted as never submitted |
| `DoneIsStable` | same, `Env = {"userStop"}` | a finished step becomes unfinished, by a lost update of `st.done` |
| `NoStopOfFinishedJob` | same, `Env = {"userStop"}` | a finished job is stopped although the log says otherwise |
| `StoppedRunNotSucceeded` | same, independent steps | a run stopped before its first job ends as Succeeded |
| `RestartedWithinParallelism` | `RunRecovery`, `RecoverySpec`, independent steps, `Env = {}`, one crash | after a restart more jobs run than the parallelism allows |
| `SubmittedMeansSignalled` | same | a restored step waits for a ready signal nobody sends |
| `RestartedFinishedRunEnds` | same, `FairRecoverySpec` | a restarted run with nothing left to do never ends |
| `FinalStatusIsFinal` | same, `RecoverySpec`, no crash | Pending overwrites a final status |
| `FinalRunIsNotStopped` | `RunController`, `Spec`, one request, `MaxWf = 1`, no image, no fault | Terminating overwrites a final status |
| `RetriedOnlyWhenEnded` | same, two requests, `MaxWf = 3` | two concurrent retries start two engines |
| `DeletedOnlyWhenEnded` | same, one request, one image, `MaxWf = 2`, `Tar = TRUE`, every fault | a retried run is deleted and starts afterwards |
| `StoppedJobTerminates` | `JobSync`, `FairSpec`, Volcano job, no faults, four changes | a job deleted before it has a phase stays pending |
| `EndIsRecorded` | same, Spark job, two changes, one `saveErr` | a failed save counts as done, the job's end is lost |
| `DependenciesExist` | `WorkflowSource`, as in `Pipelines` | a name in `deps` that no entry point defines is accepted, and read later |
| `ArtifactsAreCompared` | `StepCache`, as in `Pipelines` | after a restart the fingerprints have no artifacts: a step is skipped although its input changed |
| `PSPodsCanStart` | `JobSpec`, as in `Pipelines` | in ps mode volume, label and replicas stay in copies of the tasks |
| `UnpatchedIsNotCreated` | same | the error of the patch is dropped and the job created |
| `ClientIsCurrent` | `Catalog`, as in `ApiServer` | two requests leave the client of one credential cached with another |
| `ClaimsNameVolumes` | `FileServer`, one id, one thread, no failure, five requests | a file system made again finds its old volume, and its claim names none |
| `NewerFileIsSeen` | `LinkWatch`, `FairSpec`, as in `Mounts` | a version of the links saved in the same second is never read |
| `RenameForgetsEnough` | `FileClient`, `MaxNodes = 4`, two objects, one handle | entries below a renamed directory lead elsewhere |

Other things seen in the code while modelling it, each with its place; the models have them, as named branches or exceptions, or leave
them out as said:

* `pipeline/run.go:216` counts steps cancelled before submission like succeeded ones; `run.go:85`: after a restart, recovered
  jobs and new steps race for slots; `run.go:293` and `step.go:443`: an event's text may describe a later state.
* `job/job.go:349`: a commit that fails after the job was created leaves a job without a record; `job_sync/vcjob.go:117`: a
  `DeletedFinalStateUnknown` fails the handler's assertion and is dropped (not modelled); `vcjob.go:124`: `StoppedJobTerminates`.
* `controller/run/run.go:38`: `wfMap` is a Go map without a lock, a data race beyond the orders `RunController` has; `run.go:438`: a restart
  resumes a run that was Terminating like any other, the stop is forgotten; `run.go:213` and `callbacks.go:68`: a run whose last callbacks all
  fail stays as it was.
* `job/vcjob.go:219`: `conf.Env` is one map that all tasks share (not modelled).
* `fs/server/service/pfs.go:181`: rows and ids of a claim request are matched by position (`muddled`); a deletion leaves the grant of type
  fs; lists by time use `created_at <=` a marker in seconds, so a row made in that second vanishes between two pages (modelled); `utils/fs/fs.go:144`
  compares paths that are not cleaned (modelled); the links file outlives its file system (modelled).
* `apiserver/models/queue.go:196`: the join has neither the type of the grant nor `DISTINCT`; this and the other seven queries by key have no
  `ORDER BY` (modelled).
* `pipeline/run.go:108`: `Stop()` is not synchronised with `Listen()`, which it can keep from returning (modelled).
* `fs/client/fs/pfs_client.go:220`: the error of the last `Remove()` is dropped (modelled); `vfs/handle.go:98`: `newFileHandle()` overwrites
  the error of the first open; `vfs/writer.go:115`: a failed flush keeps the handle; truncation leaves the read cache alone (not modelled).
* `fs/client/ufs/s3.go:162`: `iterate()` shadows its marker, so the listing of a directory of more than one page asks for the first page for ever (not modelled).
* `fs/client/ufs/s3.go:403`: a failed upload at `Release()` is only logged (modelled); directories that were never made have attributes.
* `csiplugin/controller/mount_point_controller.go:225`: `Stop()` wakes one of two goroutines (modelled); line 296: a volume mounted read-only is
  remounted for writing (not modelled: mounts have no mode).
* `fs/client/meta/default.go:613`: one link that cannot be reached keeps all others from being taken over (modelled).

## Not modelled, and the plan

Not modelled for good: routers, configuration, commands, generated types (start-up, or pure I/O); HDFS and SFTP back ends, which translate
single calls; extended attributes, `statfs` and the like, which only pass calls on. Names, urls and properties are values to be compared, not
texts; containers carry no more than what decides whether a pod starts; logs and messages are left out.

Not modelled because it cannot be reached: the part of the image handler behind the panic (`image_handler.go` from line 508), with the
loading, tagging and pushing of images, the table `image` and `Stop()`. A model of it would describe a program that never runs.

Partly modelled, and worth extending: in the order of what it adds,

1. A composition of `RunController` with `RunRecovery`, for a crash between requests; what a restart does to a
   run that was being stopped.
2. Overlapping operations in `FileClient`, with the locks of the inode table, the handles and the entry cache taken one by one, and truncation in
   `ReadCache`.
3. The collector's list of jobs at its start, in `JobSync`.
4. The modes of mounts in `CsiNode`.
