------------------------------ MODULE MCMounts ------------------------------
(****************************************************************************)
(* What keeps a mounted file system usable: the CSI plugin on its node, the *)
(* S3 back end, and the mounter that follows the links file. Each behaviour *)
(* is one of them, chosen at the start.                                     *)
(****************************************************************************)
EXTENDS Naturals, FiniteSets, TLC

CONSTANTS
  Pods, Concurrency, MaxDeaths, Threads, Dirs, Leaves, Inner, MaxOps,
  Broken, MaxVersion, MaxTime, MaxMounts, MaxFaults, CsiFaults

VARIABLES
  which,   \* the component that runs; its variables are the only ones in use
  pod, rpc, src, bind, seen, removed, main, todo, work, updater, stop,
  faults, deaths, bare, objects, thread, lock, handles, version, ops, owed,
  mixed, now, db, writing, temp, file, mtime, mounted, view,
  ufsMapUT, poll, stat, got, mounts

N == INSTANCE CsiNode WITH MaxFaults <- CsiFaults
S == INSTANCE S3Store
L == INSTANCE LinkWatch

all ==
  <<which,
    pod, rpc, src, bind, seen, removed, main, todo, work, updater, stop,
    faults, deaths, bare, objects, thread, lock, handles, version, ops,
    owed, mixed, now, db, writing, temp, file, mtime, mounted, view,
    ufsMapUT, poll, stat, got, mounts>>

\* What the other components' variables hold.
Off == "off"

WithoutCsiNode ==
  <<objects, thread, lock, handles, version, ops, owed, mixed, now,
    db, writing, temp, file, mtime, mounted, view, ufsMapUT, poll, stat,
    got, mounts>>

WithoutS3Store ==
  <<pod, rpc, src, bind, seen, removed, main, todo, work, updater, stop,
    deaths, bare, now, db, writing, temp, file, mtime, mounted, view,
    ufsMapUT, poll, stat, got, mounts>>

WithoutLinkWatch ==
  <<pod, rpc, src, bind, seen, removed, main, todo, work, updater, stop,
    deaths, bare, objects, thread, lock, handles, version, ops, owed, mixed>>

Init ==
  \/ /\ which = "csi" /\ N!Init
     /\ objects = Off /\ thread = Off /\ lock = Off /\ handles = Off
     /\ version = Off /\ ops = Off /\ owed = Off /\ mixed = Off
     /\ now = Off /\ db = Off /\ writing = Off /\ temp = Off
     /\ file = Off /\ mtime = Off /\ mounted = Off /\ view = Off
     /\ ufsMapUT = Off /\ poll = Off /\ stat = Off /\ got = Off
     /\ mounts = Off
  \/ /\ which = "s3" /\ S!Init
     /\ pod = Off /\ rpc = Off /\ src = Off /\ bind = Off /\ seen = Off
     /\ removed = Off /\ main = Off /\ todo = Off /\ work = Off
     /\ updater = Off /\ stop = Off /\ deaths = Off /\ bare = Off
     /\ now = Off /\ db = Off /\ writing = Off /\ temp = Off /\ file = Off
     /\ mtime = Off /\ mounted = Off /\ view = Off /\ ufsMapUT = Off
     /\ poll = Off /\ stat = Off /\ got = Off /\ mounts = Off
  \/ /\ which = "links" /\ L!Init
     /\ pod = Off /\ rpc = Off /\ src = Off /\ bind = Off /\ seen = Off
     /\ removed = Off /\ main = Off /\ todo = Off /\ work = Off
     /\ updater = Off /\ stop = Off /\ deaths = Off /\ bare = Off
     /\ objects = Off /\ thread = Off /\ lock = Off /\ handles = Off
     /\ version = Off /\ ops = Off /\ owed = Off /\ mixed = Off

Next ==
  \/ which = "csi" /\ N!Next /\ UNCHANGED <<which, WithoutCsiNode>>
  \/ which = "s3" /\ S!Next /\ UNCHANGED <<which, WithoutS3Store>>
  \/ which = "links" /\ L!Next /\ UNCHANGED <<which, WithoutLinkWatch>>

\* The node plugin's loop and the kubelet go on (Fairness of CsiNode), and the
\* mounter goes on looking at the links file.
PluginRuns ==
  /\ \A p \in Pods :
       /\ WF_all(which = "csi" /\ N!Repairs(p) /\ UNCHANGED <<which, WithoutCsiNode>>)
       /\ WF_all(which = "csi" /\ N!Kubelet(p) /\ UNCHANGED <<which, WithoutCsiNode>>)
  /\ WF_all(which = "csi" /\ N!RoundOver /\ UNCHANGED <<which, WithoutCsiNode>>)
  /\ WF_all(which = "csi" /\ N!Interval /\ UNCHANGED <<which, WithoutCsiNode>>)
  /\ WF_all(which = "csi" /\ N!UpdaterWakes /\ UNCHANGED <<which, WithoutCsiNode>>)
  /\ SF_all(which = "csi" /\ N!UpdatePodMap /\ UNCHANGED <<which, WithoutCsiNode>>)

WatchRuns ==
  WF_all(which = "links" /\ L!linksMetaUpdate /\ UNCHANGED <<which, WithoutLinkWatch>>)

Spec ==
  /\ Init /\ [][Next]_all
  /\ PluginRuns
  /\ WatchRuns

-----------------------------------------------------------------------------
(* Properties *)

\* The volume of a pod that is gone has no mount left on the node, whatever the
\* remounting loop did at the same time (NodeUnpublishVolume()).
NoMountLeft == which = "csi" => N!NoMountLeft

\* A published volume whose FUSE process died is made usable again
\* (checkAndRemountVolumeMount()).
DeadMountsComeBack ==
  \A p \in Pods :
    which = "csi" /\ rpc[p] = "published" /\ N!Dead(bind[p]) ~>
      (which = "csi" => N!Usable(p) \/ N!Excused(p))

\* A file whose upload was answered without an error is what a reader finds,
\* across renames and failures half way (s3.go, Rename()).
UploadedIsKept == which = "s3" => S!UploadedIsKept

\* A mounted file system takes over the links file that stays in place, unless
\* one of its links cannot be reached, or the version it has was saved in the
\* same second (linksMetaUpdate()).
ViewCatchesUp ==
  \A v \in L!Versions :
    which = "links" /\ mounted /\ file = v ~>
      (which = "links" =>
         \/ ~mounted \/ file # v
         \/ view >= v
         \/ ~L!UpdateUFSMap(v)
         \/ mtime[v] = ufsMapUT /\ mtime[view] = mtime[v])
=============================================================================
