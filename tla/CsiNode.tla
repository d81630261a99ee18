------------------------------ MODULE CsiNode ------------------------------
(***************************************************************************)
(* The CSI plugin on a node (pkg/fs/csiplugin): kubelet publishes and       *)
(* unpublishes the volume of a pod, the mount point controller walks the    *)
(* pods it last heard of and mounts anew what a dead FUSE process left      *)
(* behind.  A volume has a source path, where FUSE is mounted, and a bind   *)
(* path, bound to it, which the pod sees.                                   *)
(***************************************************************************)
EXTENDS Integers, FiniteSets, Sequences

CONSTANTS Pods, Concurrency, MaxFaults, MaxDeaths

VARIABLES pod,      \* what Kubernetes says of the pod
          rpc,      \* the call kubelet is making for it
          src, bind, \* path -> the mounts stacked on it, the last one on top; Absent
          seen,     \* podMap: the pods kubelet listed, as they were
          removed,  \* removePods
          main,     \* Start(): the round it is in; todo are the pods it has left
          todo, work, \* work: pod -> what the goroutine checking it does next
          updater,  \* WaitToUpdatePodMap()
          stop,     \* Stop() has a value to send
          faults, deaths,
          bare      \* history: a source was bound, or left, with nothing mounted on it

csvars == <<pod, rpc, src, bind, seen, removed, main, todo, work, updater, stop, faults, deaths, bare>>

Absent == <<"absent">>
NoPod == "nopod"
Mounted(s) == s # Absent /\ s # <<>>
Top(s) == s[Len(s)]
Dead(s) == Mounted(s) /\ Top(s) = "dead"     \* IsMountPoint() is true and an error
Pop(s) == IF s = <<>> THEN <<>> ELSE SubSeq(s, 1, Len(s) - 1)

Init ==
  /\ pod = [p \in Pods |-> "none"] /\ rpc = [p \in Pods |-> "idle"]
  /\ src = [p \in Pods |-> Absent] /\ bind = src
  /\ seen = [p \in Pods |-> NoPod] /\ removed = {}
  /\ main = "wait" /\ todo = {} /\ work = [p \in Pods |-> "idle"]
  /\ updater = "sleep" /\ stop = FALSE /\ faults = 0 /\ deaths = 0 /\ bare = {}

Controller == <<seen, removed, main, todo, work, updater, stop>>
Faulty == faults < MaxFaults /\ faults' = faults + 1
Set(f, p, v) == f' = [f EXCEPT ![p] = v]

-----------------------------------------------------------------------------
(* Kubelet and the node server.  A call that fails is made again.           *)

Schedule(p) == pod[p] = "none" /\ Set(pod, p, "live")
               /\ UNCHANGED <<rpc, src, bind, faults, deaths, bare>> /\ UNCHANGED Controller
Delete(p) == pod[p] = "live" /\ Set(pod, p, "terminating")
             /\ UNCHANGED <<rpc, src, bind, faults, deaths, bare>> /\ UNCHANGED Controller

\* mountVolume(): the source directory is made and mount.sh starts a FUSE
\* process on it, whatever is mounted there.
NodePublishVolume(p) ==
  /\ pod[p] = "live" /\ rpc[p] = "idle"
  /\ LET made == IF src[p] = Absent THEN <<>> ELSE src[p]
     IN  \/ Faulty /\ Set(src, p, made) /\ UNCHANGED rpc
         \/ Set(src, p, Append(made, "fuse")) /\ Set(rpc, p, "bind") /\ UNCHANGED faults
  /\ Set(bind, p, IF bind[p] = Absent THEN <<>> ELSE bind[p])
  /\ UNCHANGED <<pod, deaths, bare>> /\ UNCHANGED Controller

\* bindMountVolume(): nothing is bound over a mount point, not even a dead one.
Shows(s) == IF s = <<>> THEN "dir" ELSE Top(s)
BindMountVolume(p) ==
  /\ rpc[p] = "bind"
  /\ \/ /\ Faulty /\ Set(rpc, p, "idle") /\ UNCHANGED <<bind, bare>>
     \/ /\ Set(bind, p, IF Mounted(bind[p]) THEN bind[p] ELSE <<Shows(src[p])>>)
        /\ bare' = IF ~Mounted(bind[p]) /\ src[p] = <<>> THEN bare \cup {p} ELSE bare
        /\ Set(rpc, p, "published") /\ UNCHANGED faults
  /\ UNCHANGED <<pod, src, deaths>> /\ UNCHANGED Controller

\* cleanUpMountPoints(): CleanUpMountPoint() unmounts, forces a second unmount
\* when the path is still a mount point, and removes the directory.
CleanUp(s) == IF s = Absent \/ Len(s) <= 2 THEN Absent ELSE Pop(Pop(s))

NodeUnpublishVolume(p) ==
  /\ pod[p] = "terminating" /\ rpc[p] \in {"idle", "published", "unpublish"}
  /\ Set(bind, p, CleanUp(bind[p])) /\ Set(rpc, p, "cleanSource")
  /\ UNCHANGED <<pod, src, faults, deaths, bare>> /\ UNCHANGED Controller

\* The call succeeds, and kubelet lets the pod go, when both paths are gone.
CleanUpSource(p) ==
  /\ rpc[p] = "cleanSource" /\ Set(src, p, CleanUp(src[p]))
  /\ IF bind[p] = Absent /\ src'[p] = Absent
     THEN Set(pod, p, "gone") /\ Set(rpc, p, "idle")
     ELSE Set(rpc, p, "unpublish") /\ UNCHANGED pod
  /\ UNCHANGED <<bind, faults, deaths, bare>> /\ UNCHANGED Controller

-----------------------------------------------------------------------------
(* FUSE processes die, alone or with the container of the plugin, which     *)
(* starts its controller again.                                             *)
Died(s) == IF s = Absent THEN s ELSE [i \in DOMAIN s |-> IF s[i] = "fuse" THEN "dead" ELSE s[i]]

FuseDies(p) ==
  /\ deaths < MaxDeaths /\ deaths' = deaths + 1 /\ Mounted(src[p]) /\ ~Dead(src[p])
  /\ Set(src, p, Died(src[p])) /\ Set(bind, p, Died(bind[p]))
  /\ UNCHANGED <<pod, rpc, faults, bare>> /\ UNCHANGED Controller

Listed == [p \in Pods |-> IF pod[p] \in {"live", "terminating"} THEN pod[p] ELSE NoPod]
PluginRestarts ==
  /\ deaths < MaxDeaths /\ deaths' = deaths + 1 /\ main # "stopped"
  /\ src' = [p \in Pods |-> Died(src[p])] /\ bind' = [p \in Pods |-> Died(bind[p])]
  /\ rpc' = [p \in Pods |-> IF rpc[p] = "bind" THEN "idle"
                            ELSE IF rpc[p] = "cleanSource" THEN "unpublish" ELSE rpc[p]]
  /\ seen' = Listed /\ removed' = {} /\ main' = "round" /\ todo' = Pods
  /\ work' = [p \in Pods |-> "idle"] /\ updater' = "sleep" /\ stop' = FALSE
  /\ bare' = bare \cup {p \in Pods : work[p] = "mount"}
  /\ UNCHANGED <<pod, faults>>

-----------------------------------------------------------------------------
(* MountPointController.                                                    *)
NotMounts == <<pod, rpc, src, bind, deaths, bare>>

\* Start(): a goroutine per pod, as many at a time as the rate limiter lets in.
CheckPod(p) ==
  /\ main = "round" /\ p \in todo /\ todo' = todo \ {p}
  /\ Cardinality({q \in Pods : work[q] # "idle"}) < Concurrency
  /\ CASE seen[p] = NoPod \/ p \in removed -> UNCHANGED <<removed, work>>
       [] seen[p] = "terminating" /\ p \notin removed -> removed' = removed \cup {p} /\ UNCHANGED work
       [] OTHER -> Set(work, p, "check") /\ UNCHANGED removed
  /\ UNCHANGED <<seen, main, updater, stop, faults>> /\ UNCHANGED NotMounts

\* CheckIfNeedRemount(): only a dead mount point on the source path is repaired.
CheckIfNeedRemount(p) ==
  /\ work[p] = "check" /\ Set(work, p, IF Dead(src[p]) THEN "umount" ELSE "idle")
  /\ UNCHANGED <<seen, removed, main, todo, updater, stop, faults>> /\ UNCHANGED NotMounts

\* Remount(): the old mount goes, a new FUSE process mounts on the directory.
Umount(p) ==
  /\ work[p] = "umount" /\ Set(work, p, "mount")
  /\ src' = IF src[p] = Absent THEN src ELSE [src EXCEPT ![p] = Pop(@)]
  /\ UNCHANGED <<pod, rpc, bind, deaths, bare, seen, removed, main, todo, updater, stop, faults>>

\* Mutant: the directory is made when it is missing.
MountMakesDir(p) ==
  /\ work[p] = "mount" /\ Set(work, p, "checkBind")
  /\ Set(src, p, Append(IF src[p] = Absent THEN <<>> ELSE src[p], "fuse"))
  /\ UNCHANGED <<pod, rpc, bind, deaths, bare, seen, removed, main, todo, updater, stop, faults>>
Mount(p) ==
  /\ work[p] = "mount"
  /\ \/ /\ (Faulty \/ (src[p] = Absent /\ UNCHANGED faults)) /\ Set(work, p, "idle") /\ UNCHANGED src
     \/ /\ src[p] # Absent /\ UNCHANGED faults
        /\ Set(src, p, Append(src[p], "fuse")) /\ Set(work, p, "checkBind")
  /\ UNCHANGED <<pod, rpc, bind, deaths, bare, seen, removed, main, todo, updater, stop>>

\* Mutant: the bind path counts as good when its source is.
CheckBindSource(p) ==
  /\ work[p] = "checkBind" /\ Set(work, p, IF Dead(src[p]) THEN "bind" ELSE "idle")
  /\ UNCHANGED <<seen, removed, main, todo, updater, stop, faults>> /\ UNCHANGED NotMounts
CheckBind(p) ==
  /\ work[p] = "checkBind" /\ Set(work, p, IF Dead(bind[p]) THEN "bind" ELSE "idle")
  /\ UNCHANGED <<seen, removed, main, todo, updater, stop, faults>> /\ UNCHANGED NotMounts

\* remountBind() binds over the dead mount.
RemountBind(p) ==
  /\ work[p] = "bind" /\ Set(work, p, "idle")
  /\ \/ /\ (Faulty \/ (Absent \in {src[p], bind[p]} /\ UNCHANGED faults)) /\ UNCHANGED bind
     \/ /\ Absent \notin {src[p], bind[p]} /\ UNCHANGED faults
        /\ Set(bind, p, Append(bind[p], Shows(src[p])))
  /\ UNCHANGED <<pod, rpc, src, deaths, bare, seen, removed, main, todo, updater, stop>>

RoundOver ==
  /\ main = "round" /\ todo = {} /\ main' = "wait" /\ \A p \in Pods : work[p] = "idle"
  /\ UNCHANGED <<seen, removed, todo, work, updater, stop, faults>> /\ UNCHANGED NotMounts

Interval ==
  /\ main = "wait" /\ main' = "round" /\ todo' = Pods
  /\ UNCHANGED <<seen, removed, work, updater, stop, faults>> /\ UNCHANGED NotMounts

UpdaterWakes ==
  /\ updater = "sleep" /\ updater' = "send"
  /\ UNCHANGED <<seen, removed, main, todo, work, stop, faults>> /\ UNCHANGED NotMounts

\* UpdatePodMap() on a tick: when kubelet cannot be asked the old pods stay.
UpdatePodMap ==
  /\ main = "wait" /\ updater = "send" /\ updater' = "sleep" /\ main' = "round" /\ todo' = Pods
  /\ \/ Faulty /\ UNCHANGED <<seen, removed>>
     \/ seen' = Listed /\ removed' = {} /\ UNCHANGED faults
  /\ UNCHANGED <<work, stop>> /\ UNCHANGED NotMounts

\* Stop() sends one value, to whichever of the two goroutines receives it.
Stop ==
  /\ ~stop /\ main # "stopped" /\ updater # "stopped" /\ stop' = TRUE
  /\ UNCHANGED <<seen, removed, main, todo, work, updater, faults>> /\ UNCHANGED NotMounts
Stopped ==
  /\ stop /\ stop' = FALSE
  /\ \/ main = "wait" /\ main' = "stopped" /\ UNCHANGED updater
     \/ updater = "sleep" /\ updater' = "stopped" /\ UNCHANGED main
  /\ UNCHANGED <<seen, removed, todo, work, faults>> /\ UNCHANGED NotMounts

Repairs(p) == CheckPod(p) \/ CheckIfNeedRemount(p) \/ Umount(p) \/ Mount(p) \/ CheckBind(p) \/ RemountBind(p)
Loop == RoundOver \/ Interval \/ UpdaterWakes \/ UpdatePodMap
Kubelet(p) == NodePublishVolume(p) \/ BindMountVolume(p) \/ NodeUnpublishVolume(p) \/ CleanUpSource(p)
Next == \/ \E p \in Pods : Schedule(p) \/ Delete(p) \/ Kubelet(p) \/ FuseDies(p) \/ Repairs(p)
        \/ PluginRestarts \/ Loop \/ Stop \/ Stopped

\* Goroutines run, timers fire, and the tick is taken by a select that always
\* has the interval as another choice; kubelet keeps calling.
Fairness == /\ \A p \in Pods : WF_csvars(Repairs(p)) /\ WF_csvars(Kubelet(p))
            /\ WF_csvars(RoundOver) /\ WF_csvars(Interval) /\ WF_csvars(UpdaterWakes)
            /\ SF_csvars(UpdatePodMap)
Spec == Init /\ [][Next]_csvars /\ Fairness

-----------------------------------------------------------------------------
\* Whatever the controller does from its old list of pods, a pod whose volume
\* was unpublished has nothing mounted (cleanUpMountPoints(), Remount()): the
\* directory is gone, so a repair under way finds nothing to mount on.
NoMountLeft == \A p \in Pods : pod[p] = "gone" => src[p] = Absent /\ bind[p] = Absent

\* A published volume whose FUSE process died shows its file system again,
\* unless a command or a call failed (a repair that stops half way is not
\* tried again), the source was bound while it was being mounted anew, the
\* plugin restarted between Umount() and Mount(), the pod is deleted, or the
\* controller was stopped (CheckAndRemountVolumeMount()).
Usable(p) == Mounted(bind[p]) /\ Top(bind[p]) = "fuse" /\ Mounted(src[p]) /\ Top(src[p]) = "fuse"
Excused(p) == faults > 0 \/ p \in bare \/ pod[p] # "live" \/ "stopped" \in {main, updater}
DeadMountsComeBack == \A p \in Pods :
  rpc[p] = "published" /\ Dead(bind[p]) ~> Usable(p) \/ Excused(p)

-----------------------------------------------------------------------------
(* The inductive invariant behind the proofs                                *)
Layers == {"fuse", "dead", "dir"}
Stacks == {Absent} \cup Seq(Layers)

TypeOK ==
  /\ pod \in [Pods -> {"none", "live", "terminating", "gone"}]
  /\ rpc \in [Pods -> {"idle", "bind", "published", "cleanSource", "unpublish"}]
  /\ src \in [Pods -> Stacks] /\ bind \in [Pods -> Stacks]
  /\ seen \in [Pods -> {NoPod, "live", "terminating"}] /\ removed \subseteq Pods
  /\ main \in {"wait", "round", "stopped"} /\ todo \subseteq Pods
  /\ work \in [Pods -> {"idle", "check", "umount", "mount", "checkBind", "bind"}]
  /\ updater \in {"sleep", "send", "stopped"}

\* A source that is being bound is there, and no call is under way for a pod
\* that is gone, so that nothing mounts for it again.
CallsInv ==
  \A p \in Pods :
    /\ rpc[p] = "bind" => src[p] # Absent
    /\ pod[p] = "gone" => rpc[p] = "idle"

VolumeInv == TypeOK /\ CallsInv /\ NoMountLeft
=============================================================================
