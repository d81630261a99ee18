----------------------------- MODULE StepCache -----------------------------
(***************************************************************************)
(* pkg/pipeline/cache.go, checkCached and the recording in Step.Watch,     *)
(* controller/run/track.go and models/cache.go: one step of a pipeline,    *)
(* run again and again, and the table of cached results.  A run looks the  *)
(* table up with a first fingerprint of what it is about to execute, then  *)
(* reads the modification times of the paths that matter, one call each,   *)
(* and skips the job if a listed row has the same second fingerprint.  The *)
(* artifacts of a step that ran are recorded as events beside the table.   *)
(*                                                                         *)
(* A fingerprint is modelled by what it is the hash of.  Every write gives *)
(* its path a new modification time.  When the server restarts, the job of *)
(* a step is rebuilt from the run's saved view (SetWorkflowRuntime), which *)
(* has no artifacts and takes docker_env for the image.                    *)
(***************************************************************************)
EXTENDS Naturals, FiniteSets

CONSTANTS Runs,           \* runs of the pipeline, all with this step
          Artifacts,      \* paths a run may give the step as its input artifact
          Images,         \* images the step may name; DockerEnv is the workflow's
          DockerEnv,
          Expired,        \* the row's lifetime in ticks, 0 for CacheExpiredTimeNever
          MaxWrites, MaxTime, MaxCrashes,
          MaxFaults       \* bound on failing calls and deletions

Scope == "/"              \* checkCache's default fs_scope, which no artifact path equals
Paths == Artifacts \cup {Scope}
Blank == [image |-> "", path |-> "", inputs |-> {}]     \* a fingerprint that was never computed
Nothing == [p \in {} |-> 0]

VARIABLES info,           \* [run -> [image, path]], the step as NewStep resolved it
          job,            \* [run -> [image, path, inputs]], what would be or was submitted
          phase,          \* [run -> where Step.Execute is]
          first, second,  \* [run -> the step's fingerprints]
          listed,         \* [run -> rows checkCached got from the table]
          saw,            \* [run -> versions the job read, once it has read them]
          hit,            \* [run -> the rows a run that was skipped could have used]
          table,          \* run_cache: [first, second, run, at]
          events,         \* artifact_event: <<run, type>>
          mtime,          \* [path -> version]
          now, writes, crashes, faults,
          late,           \* history: runs with a write between their fingerprint and their read
          resumed         \* history: runs rebuilt from their view
vars == <<info, job, phase, first, second, listed, saw, hit, table, events, mtime, now, writes, crashes, faults, late, resumed>>
step == <<info, job, phase, first, second, listed, saw, hit>>
world == <<mtime, now, writes, crashes, resumed>>
records == <<table, events>>

Init == /\ info \in [Runs -> [image : Images, path : Artifacts]]
        /\ job = [r \in Runs |-> [image |-> info[r].image, path |-> info[r].path, inputs |-> {info[r].path}]]
        /\ phase = [r \in Runs |-> "ready"]
        /\ first = [r \in Runs |-> Blank] /\ second = [r \in Runs |-> Nothing]
        /\ listed = [r \in Runs |-> {}] /\ saw = [r \in Runs |-> Nothing] /\ hit = [r \in Runs |-> {}]
        /\ table = {} /\ mtime = [p \in Paths |-> 0]
        /\ events = {}
        /\ now = 0 /\ writes = 0 /\ crashes = 0 /\ faults = 0 /\ late = {} /\ resumed = {}

Move(r, from, to) == phase[r] = from /\ phase' = [phase EXCEPT ![r] = to]

\* Mutant: whatever the image.
KeyWithoutImage(r) == [image |-> "", path |-> job[r].path, inputs |-> job[r].inputs]
\* generateFirstCacheKey: image, command and environment (which holds the artifact's path), artifacts.
generateFirstCacheKey(r) == job[r]

\* ListRunCacheByFirstFp, newest first; all the rows are examined.
ListRunCacheByFirstFp(k) == {c \in table : c.first = k}

ListCacheCb(r) == /\ Move(r, "ready", "listed")
                  /\ first' = [first EXCEPT ![r] = generateFirstCacheKey(r)]
                  /\ listed' = [listed EXCEPT ![r] = ListRunCacheByFirstFp(generateFirstCacheKey(r))]
                  /\ second' = [second EXCEPT ![r] = Nothing]
                  /\ UNCHANGED <<info, job, saw, hit, records, world, faults, late>>

\* getFsScopeModTime and getInputArtifactModTime: one ModTime call per path.
FsScope(r) == {Scope}
InputArtifacts(r) == job[r].inputs
SecondCacheKey(r) == FsScope(r) \cup InputArtifacts(r)

ModTime(r, p) == /\ phase[r] = "listed" /\ p \in SecondCacheKey(r) \ DOMAIN second[r]
                  /\ second' = [second EXCEPT ![r] = [q \in DOMAIN @ \cup {p} |-> IF q = p THEN mtime[p] ELSE @[q]]]
                  /\ UNCHANGED <<info, job, phase, first, listed, saw, hit, records, world, faults, late>>

\* A failed lookup or ModTime fails the step.
CheckFails(r) == /\ phase[r] \in {"ready", "listed"} /\ faults < MaxFaults /\ faults' = faults + 1
                 /\ phase' = [phase EXCEPT ![r] = "failed"]
                 /\ UNCHANGED <<info, job, first, second, listed, saw, hit, records, world, late>>

Alive(c) == Expired = 0 \/ now < c.at + Expired

checkCached(r) == {c \in listed[r] : c.second = second[r] /\ Alive(c)}

\* logInputArtifact and logOutputArtifact: an event is given up after three tries.
LogArtifacts(r, type) ==
    \/ events' = events \cup {<<r, type>>} /\ faults' = faults
    \/ events' = events /\ faults < MaxFaults /\ faults' = faults + 1

logInputArtifact(r) == LogArtifacts(r, "input")
logOutputArtifact(r) == LogArtifacts(r, "output")

\* A hit ends the step; otherwise the job is started and its inputs are recorded.
Execute(r) == /\ phase[r] = "listed" /\ DOMAIN second[r] = SecondCacheKey(r)
              /\ \/ /\ checkCached(r) # {}
                    /\ phase' = [phase EXCEPT ![r] = "cached"] /\ UNCHANGED <<events, faults>>
                 \/ /\ checkCached(r) = {}
                    /\ phase' = [phase EXCEPT ![r] = "running"] /\ logInputArtifact(r)
              /\ hit' = [hit EXCEPT ![r] = checkCached(r)]
              /\ UNCHANGED <<info, job, first, second, listed, saw, table, world, late>>

\* The job in the cluster reads its inputs, at some time after it was created.
JobReads(r) == /\ phase[r] = "running" /\ saw[r] = Nothing
               /\ saw' = [saw EXCEPT ![r] = [p \in {Scope, job[r].path} |-> mtime[p]]]
               /\ UNCHANGED <<info, job, phase, first, second, listed, hit, records, world, faults, late>>

\* LogCacheCb: the fingerprints computed before the job ran are recorded when it has succeeded.
CreateRunCache(row) == table' = table \cup {row}
LogCache(r) == CreateRunCache([first |-> first[r], second |-> second[r], run |-> r, at |-> now])

JobSucceeds(r) == /\ saw[r] # Nothing /\ (Move(r, "running", "logging") \/ Move(r, "again", "logging"))
                  /\ \/ LogCache(r) /\ faults' = faults
                     \/ faults < MaxFaults /\ faults' = faults + 1 /\ table' = table
                  /\ UNCHANGED <<info, job, first, second, listed, saw, hit, events, world, late>>

\* The outputs are recorded before the run hears that the step is done.
StepDone(r) == /\ Move(r, "logging", "done") /\ logOutputArtifact(r)
               /\ UNCHANGED <<info, job, first, second, listed, saw, hit, table, world, late>>

JobFails(r) == /\ Move(r, "running", "failed")
               /\ UNCHANGED <<info, job, first, second, listed, saw, hit, records, world, faults, late>>

\* Deleting: a row of the cache by its number, an event by its run and path.
DeleteRunCache(c) == /\ faults < MaxFaults /\ faults' = faults + 1 /\ table' = table \ {c}
                     /\ UNCHANGED <<step, events, world, late>>
DeleteArtifactEvent(e) == /\ faults < MaxFaults /\ faults' = faults + 1 /\ events' = events \ {e}
                          /\ UNCHANGED <<step, table, world, late>>

\* Somebody writes a path; external.
Write(p) == /\ writes < MaxWrites /\ writes' = writes + 1
            /\ mtime' = [mtime EXCEPT ![p] = writes + 1]
            /\ late' = late \cup {r \in Runs : phase[r] \in {"listed", "running"} /\ saw[r] = Nothing}
            /\ UNCHANGED <<step, records, now, crashes, faults, resumed>>

Tick == now < MaxTime /\ now' = now + 1 /\ UNCHANGED <<step, records, mtime, writes, crashes, faults, late, resumed>>

\* SetWorkflowRuntime: runs whose view was saved get their job from it; the others are rebuilt whole.
\* A job that had already succeeded is watched again, and its success is heard again.
Rebuilt(r) == [image |-> DockerEnv, path |-> job[r].path, inputs |-> {}]

Restart == /\ crashes < MaxCrashes /\ crashes' = crashes + 1
           /\ \E saved \in SUBSET Runs :
                 /\ {r \in Runs : phase[r] \in {"running", "logging", "again", "done", "cached", "failed"}} \subseteq saved
                 /\ job' = [r \in Runs |-> IF r \in saved THEN Rebuilt(r) ELSE job[r]]
                 /\ resumed' = resumed \cup saved
           /\ phase' = [r \in Runs |-> CASE phase[r] = "listed" -> "ready"
                                       [] phase[r] = "logging" -> "again"
                                       [] OTHER -> phase[r]]
           /\ first' = [r \in Runs |-> Blank] /\ second' = [r \in Runs |-> Nothing]
           /\ listed' = [r \in Runs |-> {}]
           /\ UNCHANGED <<info, saw, hit, records, mtime, now, writes, faults, late>>

Next == \/ \E r \in Runs : \/ ListCacheCb(r) \/ CheckFails(r) \/ Execute(r)
                           \/ JobReads(r) \/ JobSucceeds(r) \/ StepDone(r) \/ JobFails(r)
                           \/ \E p \in Paths : ModTime(r, p)
        \/ \E c \in table : DeleteRunCache(c)
        \/ \E e \in events : DeleteArtifactEvent(e)
        \/ \E p \in Paths : Write(p)
        \/ Tick \/ Restart

Spec == Init /\ [][Next]_vars

-----------------------------------------------------------------------------
\* What a run's job produced is settled by the image it ran with and the versions it read.
Produced(c) == [image |-> info[c.run].image, read |-> saw[c.run]]

\* A run that was never restarted is only skipped for a row whose job, if it was not disturbed
\* either, ran what this run would run on the versions this run found (checkCached).
Sound(r, c) == c.run \notin late => Produced(c) = [image |-> info[r].image, read |-> second[r]]

HitsAreSound == \A r \in Runs \ (late \cup resumed) : \A c \in hit[r] : c.run \notin resumed => Sound(r, c)

\* What is skipped for a row is skipped for a result that exists: the row was recorded for a job
\* that read its inputs and succeeded, even when rows are deleted and runs restarted meanwhile.
RowsAreEarned == \A c \in table \cup UNION {hit[r] : r \in Runs} :
                    phase[c.run] \in {"logging", "again", "done"} /\ saw[c.run] # Nothing

\* A run is skipped only for a result that exists and is what it would produce.
CacheIsSound == HitsAreSound /\ RowsAreEarned

\* Not true of the code: after a restart the artifacts are missing from both fingerprints, so a
\* run is skipped although its input artifact has changed (SetWorkflowRuntime).
ArtifactsAreCompared ==
    [][\A r \in Runs \ late : \A c \in hit'[r] \ hit[r] :
          c.run \notin late => saw[c.run][info[r].path] = mtime[info[r].path]]_vars
-----------------------------------------------------------------------------
(* The invariant behind CacheIsSound *)

Rows == table \cup (UNION {listed[r] : r \in Runs}) \cup (UNION {hit[r] : r \in Runs})
Wanted(r) == [image |-> info[r].image, path |-> info[r].path, inputs |-> {info[r].path}]
Versions(r) == [p \in {Scope, info[r].path} |-> mtime[p]]

Phases == {"ready", "listed", "cached", "running", "logging", "again", "done", "failed"}
Logged == {"logging", "again", "done"}
Total(f, S) == f = [x \in S |-> f[x]]

Shape == /\ info \in [Runs -> [image : Images, path : Artifacts]] /\ phase \in [Runs -> Phases]
         /\ Total(job, Runs) /\ Total(first, Runs) /\ Total(second, Runs)
         /\ Total(listed, Runs) /\ Total(saw, Runs) /\ Total(hit, Runs) /\ Total(mtime, Paths)

\* A job reads once it runs, and has read when it succeeds; only a run that is skipped has hits.
PhaseInv(r) == /\ saw[r] # Nothing => phase[r] \in Logged \cup {"running", "failed"}
               /\ phase[r] \in Logged => saw[r] # Nothing
               /\ hit[r] # {} => phase[r] = "cached"

\* A run that was never rebuilt is looked up for what it executes; what it found, if nothing was
\* written since, is what its job reads.
LookupInv(r) ==
    /\ job[r] = Wanted(r)
    /\ phase[r] \in {"listed", "cached", "running", "logging", "done"} => first[r] = job[r]
    /\ phase[r] # "again"
    /\ r \notin late /\ phase[r] = "listed" => second[r] = [p \in DOMAIN second[r] |-> mtime[p]]
    /\ r \notin late /\ phase[r] = "running" /\ saw[r] = Nothing => second[r] = Versions(r)
    /\ r \notin late /\ phase[r] \in {"running", "logging", "done"} /\ saw[r] # Nothing => second[r] = saw[r]
    /\ \A c \in hit[r] : c.first = first[r] /\ c.second = second[r]

\* A row, wherever it was copied to, is its run's: what it executed and what it read.
RowInv(c) == /\ c.run \in Runs /\ phase[c.run] \in Logged /\ saw[c.run] # Nothing
             /\ c.run \notin late \cup resumed => c.first = Wanted(c.run) /\ c.second = saw[c.run]

CacheInv == /\ Shape /\ \A r \in Runs : PhaseInv(r) /\ \A c \in listed[r] : c.first = first[r]
            /\ \A r \in Runs \ resumed : LookupInv(r)
            /\ \A c \in Rows : RowInv(c)
=============================================================================
