------------------------------ MODULE JobSpec ------------------------------
(***************************************************************************)
(* pkg/job: from a step's environment to the object that is created in the *)
(* cluster.  job.CreateJob checks the environment again, looks up what it  *)
(* depends on (the queue's namespace, the claim of the file system), reads *)
(* a template, the default one of the mode or the user's, and patches it.  *)
(*                                                                         *)
(* A Go struct that is assigned is copied: what fillPSJobSpec writes into  *)
(* its copies of the tasks reaches the job only where it goes through the  *)
(* shared slice of containers.  Replica numbers are parsed as 64-bit ints  *)
(* and kept as int32 (Wrap).  Names, images, commands and resources are    *)
(* left out; a container is "patched" or not.                              *)
(***************************************************************************)
EXTENDS Integers, Sequences, FiniteSets, SequencesExt

CONSTANTS Modes,          \* of "pod", "ps", "collective", "spark"
          Replicas,       \* numbers the environment may ask for, beside none
          Templates,      \* sequences of tasks a user's yaml may have
          Width           \* bits of a replica number in the cluster's API

Absent == [set |-> FALSE]
Asked == {Absent} \cup [set : {TRUE}, n : Replicas]

Wrap(n) == ((n + 2 ^ (Width - 1)) % 2 ^ Width) - 2 ^ (Width - 1)

Task(n, containers) == [replicas |-> n, mounts |-> [i \in 1 .. containers |-> FALSE],
                        volume |-> FALSE, label |-> FALSE]

\* config/server/default/job: the template of each mode.
Default == [pod |-> <<Task(1, 1)>>, ps |-> <<Task(1, 1), Task(2, 1)>>,
            collective |-> <<Task(2, 1)>>, spark |-> <<Task(0, 1), Task(0, 1)>>]
DefaultMin == [pod |-> 1, ps |-> 3, collective |-> 2, spark |-> 0]

\* The tasks a file may have: nothing of them is patched.
FileTask == [replicas : Int, mounts : Seq({FALSE}), volume : BOOLEAN, label : BOOLEAN]

VARIABLES mode, ask,      \* the environment: mode and the two replica entries of it
          own,            \* the user's template, <<>> for the default one
          flavoured,      \* whether the flavours it names exist in the configuration
          queue,          \* [state, there], the queue record
          fs,             \* type of the file system, or "gone"
          at,             \* how far job.CreateJob got
          ns, claim,      \* EnvJobNamespace and EnvJobPVCName as they were looked up
          tasks, min,     \* the object's tasks and its minAvailable
          failed          \* whether the patch reported an error
vars == <<mode, ask, own, flavoured, queue, fs, at, ns, claim, tasks, min, failed>>
conf == <<mode, ask, own, flavoured>>
world == <<queue, fs>>
object == <<tasks, min, failed>>

Init == /\ mode \in Modes /\ ask \in [{"first", "second"} -> Asked]
        /\ own \in Templates \cup {<<>>} /\ flavoured \in BOOLEAN
        /\ queue \in {"open", "gone"} /\ fs \in {"hdfs", "mock", "gone"}
        /\ at = "validate" /\ ns = "" /\ claim = ""
        /\ tasks = <<>> /\ min = 0 /\ failed = FALSE

Go(from, to) == at = from /\ at' = to

\* The validators of the modes: the flavours must be configured; a number that parses is
\* not looked at further.
validateMode == [pod |-> flavoured, ps |-> flavoured, collective |-> flavoured, spark |-> flavoured]

\* ValidateJob: the user must have the queue (root has one that is gone, too).
ValidateJob == /\ at = "validate"
               /\ \/ validateMode[mode] /\ at' = "resource"
                  \/ ~validateMode[mode] /\ at' = "refused"
                  \/ queue = "gone" /\ at' = "refused"
               /\ UNCHANGED <<conf, world, ns, claim, object>>

\* checkResource: the namespace by the queue's name, the claim by the file system's type.
getNamespaceByQueueName == /\ at = "resource" /\ ns = ""
                           /\ IF queue = "gone" THEN at' = "refused" /\ ns' = ns ELSE at' = at /\ ns' = "ns"
                           /\ UNCHANGED <<conf, world, claim, object>>

createFSClaims == /\ at = "resource" /\ ns # ""
                  /\ \/ fs = "gone" /\ at' = "refused" /\ claim' = ""
                     \/ fs = "mock" /\ at' = "template" /\ claim' = "property"
                     \/ fs = "hdfs" /\ at' = "template" /\ claim' = "made"
                     \/ fs = "hdfs" /\ at' = "refused" /\ claim' = ""
                  /\ UNCHANGED <<conf, world, ns, object>>

\* getJobYamlContent: the user's file, or the default one of the mode.
getJobYamlContent == IF own = <<>> THEN [tasks |-> Default[mode], min |-> DefaultMin[mode]]
                     ELSE [tasks |-> own, min |-> Len(own)]

\* A file that cannot be read or parsed (parseBytesToObject) ends the call.
createJobFromYaml == /\ at = "template"
                     /\ \/ /\ at' = "patch"
                           /\ tasks' = getJobYamlContent.tasks /\ min' = getJobYamlContent.min
                        \/ at' = "refused" /\ UNCHANGED <<tasks, min>>
                     /\ UNCHANGED <<conf, world, ns, claim, failed>>

(***************************************************************************)
(* The patches.                                                            *)
(***************************************************************************)
Parsed(n, a) == IF a.set THEN Wrap(a.n) ELSE n
OrDefault(n, a, least) == IF Parsed(n, a) <= 0 THEN least ELSE Parsed(n, a)

\* fillContainerInTask on the task's first container.
fillContainerInTask(t) == [t EXCEPT !.mounts[1] = TRUE]
appendVolumeIfAbsent(t) == [t EXCEPT !.volume = TRUE]
Labelled(t) == [t EXCEPT !.label = TRUE]

\* fillTaskInPSMode works on a copy: the replicas, the label and the volume stay in the copy,
\* a task without exactly one container gets a new slice, which stays there too.
fillTaskInPSMode(t) == IF Len(t.mounts) = 1 THEN fillContainerInTask(t) ELSE t

fillPSJobSpec == IF Len(tasks) # 2 THEN failed' = TRUE /\ UNCHANGED <<tasks, min>>
                 ELSE /\ tasks' = <<fillTaskInPSMode(tasks[1]), fillTaskInPSMode(tasks[2])>>
                      /\ min' = Wrap(OrDefault(tasks[1].replicas, ask["first"], 1)
                                     + OrDefault(tasks[2].replicas, ask["second"], 1))
                      /\ failed' = FALSE

\* Mutant: the volume is left to the template.
PodWithoutVolume(t) ==
    LET n == [t EXCEPT !.replicas = OrDefault(@, Absent, 1)]
    IN  IF t.mounts = <<>> THEN n ELSE fillContainerInTask(Labelled(n))
\* A task without a container has only its replicas set.
fillTaskInPodMode(t) ==
    LET n == [t EXCEPT !.replicas = OrDefault(@, Absent, 1)]
    IN  IF t.mounts = <<>> THEN n ELSE appendVolumeIfAbsent(fillContainerInTask(Labelled(n)))

\* fillPodJobSpec goes by index; it stops at the first task without a container.
fillPodJobSpec == LET bad == {i \in DOMAIN tasks : tasks[i].mounts = <<>>}
                  IN /\ tasks' = [i \in DOMAIN tasks |->
                                    IF \E j \in bad : j < i THEN tasks[i] ELSE fillTaskInPodMode(tasks[i])]
                     /\ min' = min /\ failed' = (bad # {})

\* One task with one container, or no task at all.
fillTaskInCollectiveMode ==
    IF Len(tasks) # 1 \/ \E i \in DOMAIN tasks : Len(tasks[i].mounts) # 1 THEN <<>>
    ELSE <<appendVolumeIfAbsent(fillContainerInTask(Labelled(
               [tasks[1] EXCEPT !.replicas = OrDefault(@, ask["first"], 2)])))>>

\* fillCollectiveJobSpec: minAvailable is written before the task is looked at.
fillCollectiveJobSpec ==
    /\ min' = Parsed(min, ask["first"])
    /\ tasks' = fillTaskInCollectiveMode /\ failed' = (fillTaskInCollectiveMode = <<>>)

\* The application's driver and executors; its volume serves both.
patchSparkSpecDriver == fillContainerInTask(Labelled(Task(1, 1)))
patchSparkSpecExecutor == fillContainerInTask(Labelled(Task(OrDefault(0, ask["first"], 1), 1)))
patchSparkAppVariable ==
    /\ tasks' = <<appendVolumeIfAbsent(patchSparkSpecDriver), appendVolumeIfAbsent(patchSparkSpecExecutor)>>
    /\ UNCHANGED <<min, failed>>

\* VCJob.CreateJob and SparkJob.CreateJob: neither looks at what the patch answers.
Patch == /\ Go("patch", "submit")
         /\ \/ mode = "ps" /\ fillPSJobSpec
            \/ mode = "pod" /\ fillPodJobSpec
            \/ mode = "collective" /\ fillCollectiveJobSpec
            \/ mode = "spark" /\ patchSparkAppVariable
         /\ UNCHANGED <<conf, world, ns, claim>>

\* persistAndExecuteJob: the record is written, and kept if StartJob succeeds.
persistAndExecuteJob == /\ at = "submit" /\ at' \in {"start", "refused"}
                        /\ UNCHANGED <<conf, world, ns, claim, object>>
StartJob == /\ at = "start" /\ at' \in {"created", "refused"}
            /\ UNCHANGED <<conf, world, ns, claim, object>>

\* Other requests delete the queue or the file system meanwhile.
DeleteQueue == queue = "open" /\ queue' = "gone" /\ UNCHANGED <<conf, fs, at, ns, claim, object>>
DeleteFs == fs # "gone" /\ fs' = "gone" /\ UNCHANGED <<conf, queue, at, ns, claim, object>>

Next == \/ ValidateJob \/ getNamespaceByQueueName \/ createFSClaims \/ createJobFromYaml \/ Patch
        \/ persistAndExecuteJob \/ StartJob
        \/ DeleteQueue \/ DeleteFs

Spec == Init /\ [][Next]_vars

-----------------------------------------------------------------------------
Pods == FoldSeq(LAMBDA t, n : n + t.replicas, 0, tasks)
Created == at = "created" /\ ~failed

\* What is created can start: a container that mounts the file system is in a pod that has the
\* volume, and the scheduler is not told to wait for more pods than there are (patchVCJobVariable).
CanStart ==
    /\ \A i \in DOMAIN tasks : (\E c \in DOMAIN tasks[i].mounts : tasks[i].mounts[c]) => tasks[i].volume
    /\ own = <<>> => min <= Pods
    /\ \A i \in DOMAIN tasks : tasks[i].replicas > 0
PodsCanStart == Created /\ mode # "ps" => CanStart

\* The invariant behind it: what is patched is what the template holds, and what the patch leaves
\* is what is created.
PatchInv == /\ mode \in Modes /\ ask \in [{"first", "second"} -> Asked] /\ own \in Templates \cup {<<>>}
            /\ at = "patch" => tasks = getJobYamlContent.tasks /\ min = getJobYamlContent.min
            /\ at \in {"submit", "start", "created"} /\ ~failed /\ mode # "ps" => CanStart

\* Not true of the code: in ps mode the volume, the label and the replicas stay in copies of the
\* tasks, and minAvailable is counted from the copies.
PSPodsCanStart == Created /\ mode = "ps" =>
    /\ \A i \in DOMAIN tasks : (\E c \in DOMAIN tasks[i].mounts : tasks[i].mounts[c]) => tasks[i].volume
    /\ min <= Pods

\* Not true of the code: CreateJob drops the error of patchVCJobVariable.
UnpatchedIsNotCreated == at = "created" => ~failed
=============================================================================
