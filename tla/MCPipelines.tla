---------------------------- MODULE MCPipelines -----------------------------
(****************************************************************************)
(* What happens to a workflow before its steps run: the dependencies and    *)
(* parameters of the source are resolved, a step looks in the run cache,    *)
(* and a job is built from a step's environment. The three share no state,  *)
(* so each behaviour is one of them, chosen at the start, and one run of    *)
(* TLC checks them side by side.                                            *)
(****************************************************************************)
EXTENDS Integers, Sequences, TLC

CONSTANTS
  Steps, Overrides, Runs, Artifacts, Images, DockerEnv, Expired, MaxWrites,
  MaxTime, MaxCrashes, MaxFaults, Modes, Width, Values, Replicas, Templates

VARIABLES
  which,   \* the component that runs; its variables are the only ones in use
  deps, yaml, entry, params, source, asked, runSteps, pending, unsorted,
  pass, moved, sorted, todo, phase, info, job, first, second, listed, saw,
  hit, table, events, mtime, now, writes, crashes, faults, late, resumed,
  mode, ask, own, flavoured, queue, fs, at, ns, claim, tasks, min, failed

W == INSTANCE WorkflowSource
C == INSTANCE StepCache
J == INSTANCE JobSpec

\* A parameter is a text, a reference or the system's, or a dictionary whose default is one.
ASSUME ValuesAssumption ==
  Values \subseteq W!Written /\ \A o \in Overrides : o.val \in W!Written

\* The modes are the four that are patched; a file's tasks are not patched yet. (Powers of two
\* are positive for every Width, which the provers do not know.)
ASSUME JobAssumption ==
  /\ Modes \subseteq {"pod", "ps", "collective", "spark"} /\ Replicas \subseteq Int
  /\ Templates \subseteq Seq(J!FileTask)
  /\ Width \in Nat \ {0} /\ 2 ^ Width \in Nat \ {0}

all ==
  <<which,
    deps, yaml, entry, params, source, asked, runSteps, pending, unsorted,
    pass, moved, sorted, todo, phase, info, job, first, second, listed, saw,
    hit, table, events, mtime, now, writes, crashes, faults, late, resumed,
    mode, ask, own, flavoured, queue, fs, at, ns, claim, tasks, min, failed>>

\* What the other components' variables hold.
Off == "off"

WithoutWorkflowSource ==
  <<info, job, first, second, listed, saw, hit, table, events, mtime, now,
    writes, crashes, faults, late, resumed, mode, ask, own, flavoured,
    queue, fs, at, ns, claim, tasks, min, failed>>

WithoutStepCache ==
  <<deps, yaml, entry, params, source, asked, runSteps, pending, unsorted,
    pass, moved, sorted, todo, mode, ask, own, flavoured, queue, fs, at, ns,
    claim, tasks, min, failed>>

WithoutJobSpec ==
  <<deps, yaml, entry, params, source, asked, runSteps, pending, unsorted,
    pass, moved, sorted, todo, phase, info, job, first, second, listed, saw,
    hit, table, events, mtime, now, writes, crashes, faults, late, resumed>>

Init ==
  \/ /\ which = "source" /\ W!Init
     /\ info = Off /\ job = Off /\ first = Off /\ second = Off
     /\ listed = Off /\ saw = Off /\ hit = Off /\ table = Off
     /\ events = Off /\ mtime = Off /\ now = Off /\ writes = Off
     /\ crashes = Off /\ faults = Off /\ late = Off /\ resumed = Off
     /\ mode = Off /\ ask = Off /\ own = Off /\ flavoured = Off
     /\ queue = Off /\ fs = Off /\ at = Off /\ ns = Off /\ claim = Off
     /\ tasks = Off /\ min = Off /\ failed = Off
  \/ /\ which = "cache" /\ C!Init
     /\ deps = Off /\ yaml = Off /\ entry = Off /\ params = Off
     /\ source = Off /\ asked = Off /\ runSteps = Off /\ pending = Off
     /\ unsorted = Off /\ pass = Off /\ moved = Off /\ sorted = Off
     /\ todo = Off /\ mode = Off /\ ask = Off /\ own = Off
     /\ flavoured = Off /\ queue = Off /\ fs = Off /\ at = Off /\ ns = Off
     /\ claim = Off /\ tasks = Off /\ min = Off /\ failed = Off
  \/ /\ which = "job" /\ J!Init
     /\ deps = Off /\ yaml = Off /\ entry = Off /\ params = Off
     /\ source = Off /\ asked = Off /\ runSteps = Off /\ pending = Off
     /\ unsorted = Off /\ pass = Off /\ moved = Off /\ sorted = Off
     /\ todo = Off /\ phase = Off /\ info = Off /\ job = Off /\ first = Off
     /\ second = Off /\ listed = Off /\ saw = Off /\ hit = Off
     /\ table = Off /\ events = Off /\ mtime = Off /\ now = Off
     /\ writes = Off /\ crashes = Off /\ faults = Off /\ late = Off
     /\ resumed = Off

Next ==
  \/ which = "source" /\ W!Next /\ UNCHANGED <<which, WithoutWorkflowSource>>
  \/ which = "cache" /\ C!Next /\ UNCHANGED <<which, WithoutStepCache>>
  \/ which = "job" /\ J!Next /\ UNCHANGED <<which, WithoutJobSpec>>

\* Parameters: of the system, a reference to a step's, or a dictionary; and the
\* parameter a run may bring.
SystemValue == [kind |-> "sys"]
SomeValues ==
  {SystemValue} \cup [kind : {"ref"}, step : Steps]
    \cup {[kind |-> "dict", default |-> SystemValue]}
RunParams == {[step |-> "", val |-> SystemValue]}

\* Replica numbers, some beyond Width bits, and templates of users.
Counts == {0, 2, 5, -1}
UserTask(n, containers) ==
  [replicas |-> n, mounts |-> [i \in 1 .. containers |-> FALSE],
   volume |-> FALSE, label |-> FALSE]
UserTemplates ==
  {<<UserTask(1, 2)>>, <<UserTask(0, 1), UserTask(2, 0)>>}

Alike == Permutations(Steps) \cup Permutations(Runs)

Spec == Init /\ [][Next]_all

-----------------------------------------------------------------------------
(* Properties *)

\* topologicalSort() returns every needed step after what it depends on, and
\* refuses exactly the workflows with a cycle among the steps it needs.
SortIsSound == which = "source" => W!SortIsSound

\* A reference stands for the value its step has, in whatever order Go visits
\* the maps, and the run's parameters are seen by every reference to them
\* (checkSteps(), updateJob()).
ParamsAreSound == which = "source" => W!ParamsAreSound

\* Runs that share the cache, expiry, crashes and deleted records included: a
\* step is only skipped for an equal one that succeeded (checkCached()), and the
\* cache only holds such steps (LogCache()).
CacheIsSound == which = "cache" => C!CacheIsSound

\* A job that is created outside ps mode can start: the claim is a volume of
\* each pod that mounts it, and there are as many pods as it waits for.
PodsCanStart == which = "job" => J!PodsCanStart
=============================================================================
