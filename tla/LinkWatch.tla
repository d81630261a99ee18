------------------------------ MODULE LinkWatch ------------------------------
(***************************************************************************)
(* How a mounted file system learns of links made and deleted meanwhile:   *)
(* the server writes the links of the file system into a file of that file *)
(* system (fs/server/service/link.go), and LinksMetaUpdateHandler          *)
(* (fs/client/meta/default.go) looks at the file's modification time, in   *)
(* seconds, every 15 s.                                                    *)
(*                                                                         *)
(* The links are a version number: each request that makes or deletes a    *)
(* link makes the next one.  Requests come one at a time; FileServer has   *)
(* the concurrent ones.  The server and the mounter are different          *)
(* processes, and nothing orders their calls to the storage.               *)
(***************************************************************************)
EXTENDS Naturals

CONSTANTS
  Broken,     \* versions with a link whose storage cannot be reached
  MaxVersion, \* bound on the requests
  MaxTime,    \* bound on the clock, in seconds
  MaxMounts,  \* bound on the number of times the file system is mounted
  MaxFaults   \* bound on failing calls

Versions == 0..MaxVersion

VARIABLES
  now,      \* the clock
  db,       \* version in table link
  writing,  \* PersistLinksMeta(): "no", "save", "move" or "install"
  temp,     \* version and mtime of the file under its temporary name
  file,     \* version of the links file, None when there is no such file
  mtime,    \* mtime[v]: when version v was saved
  mounted,  \* the file system is mounted
  view,     \* version of DefaultMeta.ufsMap
  ufsMapUT, \* the modification time that version had
  poll,     \* "idle", "open" or "apply": where linksMetaUpdate() is
  stat,     \* what it has seen of the file: version (for its size) and mtime
  got,      \* the version it has read
  mounts, faults

vars == <<now, db, writing, temp, file, mtime, mounted, view, ufsMapUT, poll,
          stat, got, mounts, faults>>
server == <<now, db, writing, temp, file, mtime>>
client == <<mounted, view, ufsMapUT, poll, stat, got, mounts>>

None == MaxVersion + 1

Init ==
  /\ now = 1 /\ db = 0 /\ writing = "no" /\ temp = 0 /\ file = None
  /\ mtime = [v \in Versions |-> 0]
  /\ mounted = FALSE /\ view = 0 /\ ufsMapUT = 0
  /\ poll = "idle" /\ stat = 0 /\ got = 0
  /\ mounts = 0 /\ faults = 0

Fault == faults < MaxFaults /\ faults' = faults + 1

Tick ==
  /\ now < MaxTime /\ now' = now + 1
  /\ UNCHANGED <<db, writing, temp, file, mtime, client, faults>>

-----------------------------------------------------------------------------
(* The server *)

\* CreateLink() and DeleteLink() change the table and persist the links.
ChangeLinks ==
  /\ writing = "no" /\ db < MaxVersion
  /\ db' = db + 1 /\ writing' = "save"
  /\ UNCHANGED <<now, temp, file, mtime, client, faults>>

\* writeLinksMeta(): the file is written under another name ...
SaveFile ==
  /\ writing = "save"
  /\ temp' = db /\ mtime' = [mtime EXCEPT ![db] = now]
  /\ writing' = "move"
  /\ UNCHANGED <<now, db, file, client, faults>>

\* ... what there was is moved out of the way, and for a while there is no
\* links file ...
MoveOld ==
  /\ writing = "move"
  /\ file' = None /\ writing' = "install"
  /\ UNCHANGED <<now, db, temp, mtime, client, faults>>

\* ... and the new one takes its place.
Install ==
  /\ writing = "install"
  /\ file' = temp /\ writing' = "no"
  /\ UNCHANGED <<now, db, temp, mtime, client, faults>>

-----------------------------------------------------------------------------
(* The mounter *)

\* UpdateUFSMap() fails when newUFS() fails for one of the links, and then
\* none of them is taken over.
UpdateUFSMap(v) == v \notin Broken

\* The answer of the server comes from its table, not from the file.
GetLinks == db

\* getMetaAndLinks(), and a file system made with the links it returns.
Mount ==
  /\ ~mounted /\ mounts < MaxMounts /\ UpdateUFSMap(GetLinks)
  /\ mounted' = TRUE /\ view' = GetLinks /\ ufsMapUT' = 0
  /\ mounts' = mounts + 1
  /\ UNCHANGED <<server, poll, stat, got, faults>>

\* The mounter ends, whatever the handler is doing.
Unmount ==
  /\ mounted
  /\ mounted' = FALSE /\ poll' = "idle"
  /\ UNCHANGED <<server, view, ufsMapUT, stat, got, mounts, faults>>

\* linksMetaUpdate(): nothing to do unless the file is there and is newer.
GetAttr ==
  /\ mounted /\ poll = "idle"
  /\ file # None /\ mtime[file] > ufsMapUT
  /\ stat' = file /\ poll' = "open"
  /\ UNCHANGED <<server, mounted, view, ufsMapUT, got, mounts, faults>>

\* Open() and Read() into a buffer of the size seen before.  A file that has
\* become longer meanwhile is cut off, cannot be decoded and is an error; so
\* is one that has gone.
Open ==
  /\ poll = "open"
  /\ \/ file # None /\ got' = file /\ poll' = "apply" /\ UNCHANGED faults
     \/ file # stat /\ poll' = "idle" /\ UNCHANGED <<got, faults>>
     \/ Fault /\ poll' = "idle" /\ UNCHANGED got
  /\ UNCHANGED <<server, mounted, view, ufsMapUT, stat, mounts>>

\* Mutant: the modification time is asked for again once the file is read.
ApplyStatsAgain ==
  /\ poll = "apply" /\ poll' = "idle"
  /\ \/ /\ UpdateUFSMap(got) /\ view' = got /\ UNCHANGED faults
        /\ ufsMapUT' = IF file = None THEN mtime[stat] ELSE mtime[file]
     \/ ~UpdateUFSMap(got) /\ UNCHANGED <<view, ufsMapUT, faults>>
     \/ Fault /\ UNCHANGED <<view, ufsMapUT>>
  /\ UNCHANGED <<server, mounted, stat, got, mounts>>

\* The time remembered is the one seen before the file was opened.
Apply ==
  /\ poll = "apply" /\ poll' = "idle"
  /\ \/ /\ UpdateUFSMap(got) /\ view' = got /\ UNCHANGED faults
        /\ ufsMapUT' = mtime[stat]
     \/ ~UpdateUFSMap(got) /\ UNCHANGED <<view, ufsMapUT, faults>>
     \/ Fault /\ UNCHANGED <<view, ufsMapUT>>
  /\ UNCHANGED <<server, mounted, stat, got, mounts>>

-----------------------------------------------------------------------------

linksMetaUpdate == GetAttr \/ Open \/ Apply

Next ==
  \/ Tick \/ ChangeLinks \/ SaveFile \/ MoveOld \/ Install
  \/ Mount \/ Unmount \/ linksMetaUpdate

Spec == Init /\ [][Next]_vars

\* The handler polls for ever; requests, mounts and the clock may stop.
Fairness == WF_vars(linksMetaUpdate)

FairSpec == Spec /\ Fairness

-----------------------------------------------------------------------------
(* Properties *)

\* A mounted file system takes over the links file that stays in place, unless
\* one of its links cannot be reached.  The exception is what a clock in
\* seconds cannot tell apart: the version read was saved in the same second.
ViewCatchesUp ==
  \A v \in Versions :
    mounted /\ file = v ~>
      \/ ~mounted \/ file # v
      \/ view >= v
      \/ ~UpdateUFSMap(v)
      \/ mtime[v] = ufsMapUT /\ mtime[view] = mtime[v]

\* While it is mounted, a file system that follows the links file never goes
\* back to links it had before, whatever the server does between the steps.
ViewGoesForward ==
  [][mounted /\ mounted' /\ ufsMapUT > 0 => view' >= view]_vars

-----------------------------------------------------------------------------
(* Statements of the repository that the code does not keep *)

\* default.go:569, "attr.Mtime <= m.ufsMapUT" means nothing is new: false for
\* two versions saved in one second.
NewerFileIsSeen ==
  \A v \in Versions :
    mounted /\ file = v ~> ~mounted \/ file # v \/ view >= v \/ ~UpdateUFSMap(v)
=============================================================================
