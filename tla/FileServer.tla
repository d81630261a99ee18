----------------------------- MODULE FileServer -----------------------------
(***************************************************************************)
(* The file system server (pkg/fs/server): file systems and their storage   *)
(* directories, the volumes and claims that let pods mount them, and their  *)
(* links with the encrypted file that tells mounters about them.  Requests  *)
(* interleave between their database, Kubernetes and storage calls; the     *)
(* server may crash; only the links file of one file system has a lock.     *)
(* A file system is known by its id, fs-<user>-<name>.                      *)
(***************************************************************************)
EXTENDS Integers, FiniteSets, SequencesExt

CONSTANTS Ids,            \* of file systems
          Sources,        \* asked for: [kind, host, bucket, dir, whole, given]
          LinkPaths,      \* paths in a file system links are asked for at
          Dirs,           \* directories in the storage of a file system, cleaned
          Namespaces,     \* of the Kubernetes cluster, in the order they are listed
          Threads, MaxRequests, MaxFaults

VARIABLES fs,        \* rows of filesystem: id -> source
          grant,     \* ids with a grant of type fs
          pv, pvc,   \* volumes: <<namespace, id>> -> owner; claims: -> the volume they name
          link,      \* rows of link: <<id, path>>
          meta,      \* place -> the links file there, NoFile without one
          lock,      \* FsLock(): who persists the links of a file system
          req,       \* thread -> the request it serves
          begun, faults,
          overlap,   \* history: two requests were served at a time
          deleted,   \* history: ids deleted so far
          tenants,   \* history: <<id, source>> of every file system made so far
          muddled    \* history: a claim request was answered rows in another order

fvars == <<fs, grant, pv, pvc, link, meta, lock, req, begun, faults, overlap, deleted, tenants, muddled>>

NoFile == {}   \* else the set of the one content of the file
Nobody == "nobody"
NoVolume == <<>>
Idle == [op |-> "idle", pc |-> "idle"]

\* A path is its text, split at the slashes: "/a" is <<Blank, 1>>, "a" is <<1>> and
\* "/a//b/" is <<Blank, 1, Blank, 2, Blank>>.
Blank == 0
Root == -1   \* the part "root"

\* strings.TrimRight(p, "/"); of "" and "/" the one empty part is left.
TrimRight(p) == SubSeq(p, 1, Max({1} \cup {k \in DOMAIN p : p[k] # Blank}))
\* Where the text leads: NewUFS(), GetPath() and GetUFS() join and clean it.
Clean(p) == <<Blank>> \o SelectSeq(p, LAMBDA part : part # Blank)

\* InformationFromURL(): a row of a Kerberos HDFS has a kind of its own, which no
\* url names.
SourceOf(s) ==
  [kind |-> IF s.kind = "hdfs" /\ "keytab" \in s.given THEN "hdfsWithKerberos" ELSE s.kind,
   host |-> s.host, bucket |-> s.bucket, dir |-> s.dir]
Rows == {SourceOf(s) : s \in Sources}
\* The directory a row stands for, with Kerberos or without, however it is spelled.
PlaceOf(s) ==
  [s EXCEPT !.kind = IF @ = "hdfsWithKerberos" THEN "hdfs" ELSE @, !.dir = Clean(@)]
Places == {PlaceOf(s) : s \in Rows}

Init ==
  /\ fs = <<>> /\ grant = {} /\ pv = <<>> /\ pvc = <<>> /\ link = {}
  /\ meta = [p \in Places |-> NoFile] /\ lock = [i \in Ids |-> Nobody]
  /\ req = [t \in Threads |-> Idle]
  /\ begun = 0 /\ faults = 0 /\ overlap = FALSE
  /\ deleted = {} /\ tenants = {} /\ muddled = FALSE

With(f, k, v) == [x \in DOMAIN f \cup {k} |-> IF x = k THEN v ELSE f[x]]
Without(f, ks) == [x \in DOMAIN f \ ks |-> f[x]]
Paths(i) == {l[2] : l \in {m \in link : m[1] = i}}
At(t, pc) == req[t].pc = pc
Goto(t, pc) == req' = [req EXCEPT ![t].pc = pc]
Done(t) == req' = [req EXCEPT ![t] = Idle]
Fail(t) == faults < MaxFaults /\ faults' = faults + 1 /\ Done(t)

\* Mutant: the second directory may lie above the first.
CheckFsNestedOneWay(p, q) == IsPrefix(TrimRight(q), TrimRight(p))
\* CheckFsNested(): one text goes on with the other, part by part; neither is
\* cleaned first.
CheckFsNested(p, q) ==
  IsPrefix(TrimRight(p), TrimRight(q)) \/ IsPrefix(TrimRight(q), TrimRight(p))

\* checkFsDir(): against the rows of the url's kind and host, in whatever bucket.
checkFsDir(s) == \A i \in DOMAIN fs :
  fs[i].kind = s.kind /\ fs[i].host = s.host => ~CheckFsNested(s.dir, fs[i].dir)

\* SupportLinkURLPrefix and the exclusion of local file systems.
LinkKinds == {"hdfs", "local", "s3", "sftp"}
MayLink(s) == s.kind \in LinkKinds \ {"local"}

-----------------------------------------------------------------------------
\* What the handlers' checks let through; a refusal changes nothing.

\* `whole': the url goes on to a path behind its host or bucket.  A directory of
\* the server itself may begin with neither a slash more nor "/root".
checkURLFormat(s) ==
  s.whole /\ (s.kind \in {"local", "mock"} => s.dir[2] \notin {Blank, Root})
checkLinkURLFormat(s) == checkURLFormat(s)

KerberosKeys == {"keytab", "principal", "protection", "kdc", "namenode", "realm"}
CheckKerberosProperties(given) == KerberosKeys \subseteq given

\* Of `given', the properties with a value.  The S3 bucket comes from the url; the
\* claim a mock names is one the cluster knows.
checkLinkProperties(s) ==
  /\ s.kind = "hdfs" => IF "keytab" \in s.given THEN CheckKerberosProperties(s.given)
                        ELSE {"user", "group"} \subseteq s.given
  /\ s.kind = "local" => "debug" \in s.given
  /\ s.kind = "s3" => {"accessKey", "secretKey", "endpoint"} \subseteq s.given
  /\ s.kind = "sftp" => {"user", "password"} \subseteq s.given
checkProperties(s) ==
  checkLinkProperties(s) /\ (s.kind = "mock" => {"pvc", "namespace"} \subseteq s.given)

\* A link is made at an empty directory or at a new name in a directory.
checkFsPathIsExist(p) ==
  /\ Clean(p) # <<Blank>> => Front(Clean(p)) \in Dirs
  /\ \A d \in Dirs : IsPrefix(Clean(p), d) => d = Clean(p)

ValidateCreateFileSystem(i, s) == checkURLFormat(s) /\ checkProperties(s) /\ checkFsDir(s)
ValidateDeleteFs(i) == i \in DOMAIN fs
CheckLinkPath(i, p) == \A q \in Paths(i) : ~CheckFsNested(p, q)
ValidateCreateLink(i, p, s) ==
  /\ s.kind \in LinkKinds /\ checkLinkURLFormat(s) /\ checkLinkProperties(s)
  /\ CheckLinkPath(i, p)
  /\ i \in DOMAIN fs /\ MayLink(fs[i]) /\ checkFsPathIsExist(p)
ValidateDeleteLink(i, p) == i \in DOMAIN fs /\ p \in Paths(i)

Arrive(t) ==
  /\ req[t] = Idle /\ begun < MaxRequests /\ begun' = begun + 1
  /\ overlap' = (overlap \/ \E o \in Threads \ {t} : req[o] # Idle)
Accept(t, r) ==
  /\ req' = [req EXCEPT ![t] = r]
  /\ UNCHANGED <<fs, grant, pv, pvc, link, meta, lock, faults, deleted, tenants, muddled>>

BeginCreate(t) == \E i \in Ids, s \in Sources :
  /\ ValidateCreateFileSystem(i, s)
  /\ Accept(t, [op |-> "create", pc |-> "create", id |-> i, src |-> SourceOf(s)])
BeginDelete(t) == \E i \in Ids :
  /\ ValidateDeleteFs(i)
  /\ Accept(t, [op |-> "delete", pc |-> "deletePVC", id |-> i, left |-> Namespaces])
BeginLink(t) == \E i \in Ids, p \in LinkPaths :
  /\ \E s \in Sources : ValidateCreateLink(i, p, s)
  /\ Accept(t, [op |-> "link", pc |-> "link", id |-> i, path |-> p])
BeginUnlink(t) == \E i \in Ids, p \in LinkPaths :
  /\ ValidateDeleteLink(i, p)
  /\ Accept(t, [op |-> "unlink", pc |-> "unlink", id |-> i, path |-> p])

\* CreateFileSystemClaims(): the rows of all ids or none; the k-th row gives the
\* owner of the k-th id, in whatever order the database returned them.
BeginClaims(t) ==
  /\ \E ids \in {s \in BoundedSeq(DOMAIN fs, 2) : s # <<>> /\ IsInjective(s)} :
     \E rows \in Injection(DOMAIN ids, Range(ids)) :
       /\ req' = [req EXCEPT ![t] =
            [op |-> "claims", pc |-> "getPV", ids |-> ids, rows |-> rows, k |-> 1, n |-> 1,
             mock |-> {k \in DOMAIN ids : fs[rows[k]].kind = "mock"}]]
       /\ muddled' = (muddled \/ ids # rows)
  /\ UNCHANGED <<fs, grant, pv, pvc, link, meta, lock, faults, deleted, tenants>>

-----------------------------------------------------------------------------
NotFs == <<pv, meta, lock, begun, overlap, muddled>>

\* models.CreatFileSystem(): the row, under its primary key, and its grant.  What
\* lies in the storage stays: a links file, too.
InsertFileSystem(i, s) ==
  IF i \in DOMAIN fs THEN UNCHANGED <<fs, grant, tenants>>
  ELSE /\ fs' = With(fs, i, s) /\ grant' = grant \cup {i}
       /\ tenants' = tenants \cup {<<i, s>>}

CreateFileSystem(t) ==
  /\ At(t, "create") /\ Done(t) /\ InsertFileSystem(req[t].id, req[t].src)
  /\ UNCHANGED <<pvc, link, faults, deleted>> /\ UNCHANGED NotFs

\* Mutant: the claim in the first namespace only.
DeletePVCFirst(t) ==
  /\ At(t, "deletePVC") /\ Goto(t, "delete")
  /\ pvc' = Without(pvc, {<<Head(req[t].left), req[t].id>>})
  /\ UNCHANGED <<fs, grant, pv, link, meta, lock, begun, faults, overlap, deleted, tenants, muddled>>
\* deletePVC(): the claim in each namespace, until one call fails.
DeletePVC(t) ==
  /\ At(t, "deletePVC")
  /\ \/ /\ req[t].left = <<>> /\ Goto(t, "delete") /\ UNCHANGED <<pvc, faults>>
     \/ /\ req[t].left # <<>>
        /\ \/ Fail(t) /\ UNCHANGED pvc
           \/ /\ pvc' = Without(pvc, {<<Head(req[t].left), req[t].id>>})
              /\ req' = [req EXCEPT ![t].left = Tail(@)] /\ UNCHANGED faults
  /\ UNCHANGED <<fs, grant, link, deleted, tenants>> /\ UNCHANGED NotFs

\* models.DeleteFileSystem(): the row and its links, not the grant, nor the links
\* file in the storage.
RemoveFileSystem(i) == fs' = Without(fs, {i}) /\ link' = {l \in link : l[1] # i}

DeleteFileSystem(t) ==
  /\ At(t, "delete")
  /\ \/ Fail(t) /\ UNCHANGED <<fs, link, deleted>>
     \/ /\ RemoveFileSystem(req[t].id)
        /\ deleted' = deleted \cup {req[t].id} /\ Done(t) /\ UNCHANGED faults
  /\ UNCHANGED <<grant, pvc, tenants>> /\ UNCHANGED NotFs

-----------------------------------------------------------------------------
NotClaims == <<fs, grant, link, meta, lock, begun, overlap, deleted, tenants, muddled>>
ClaimId(t) == req[t].ids[req[t].k]
Volume(t) == <<Namespaces[req[t].n], ClaimId(t)>>

\* The loops over ids and namespaces.
NextClaim(t) ==
  IF req[t].n < Len(Namespaces) THEN req' = [req EXCEPT ![t].n = @ + 1, ![t].pc = "getPV"]
  ELSE IF req[t].k < Len(req[t].ids)
  THEN req' = [req EXCEPT ![t].k = @ + 1, ![t].n = 1, ![t].pc = "getPV"]
  ELSE Done(t)

SkipMock(t) ==
  /\ At(t, "getPV") /\ req[t].k \in req[t].mock /\ NextClaim(t)
  /\ UNCHANGED <<pv, pvc, faults>> /\ UNCHANGED NotClaims

\* createPV() answers the empty name for a volume it finds.
GetPV(t) ==
  /\ At(t, "getPV") /\ req[t].k \notin req[t].mock
  /\ \/ Fail(t)
     \/ Goto(t, IF Volume(t) \in DOMAIN pv THEN "getPVCUnbound" ELSE "createPV") /\ UNCHANGED faults
  /\ UNCHANGED <<pv, pvc>> /\ UNCHANGED NotClaims

CreatePV(t) ==
  /\ At(t, "createPV")
  /\ \/ Fail(t) /\ UNCHANGED pv
     \/ /\ Volume(t) \in DOMAIN pv /\ Done(t) /\ UNCHANGED <<pv, faults>>
     \/ /\ Volume(t) \notin DOMAIN pv /\ pv' = With(pv, Volume(t), req[t].rows[req[t].k])
        /\ Goto(t, "getPVC") /\ UNCHANGED faults
  /\ UNCHANGED pvc /\ UNCHANGED NotClaims

GetPVC(t) ==
  /\ req[t].pc \in {"getPVC", "getPVCUnbound"}
  /\ \/ Fail(t)
     \/ /\ Volume(t) \in DOMAIN pvc /\ NextClaim(t) /\ UNCHANGED faults
     \/ /\ Volume(t) \notin DOMAIN pvc /\ UNCHANGED faults
        /\ Goto(t, IF At(t, "getPVC") THEN "createPVC" ELSE "createPVCUnbound")
  /\ UNCHANGED <<pv, pvc>> /\ UNCHANGED NotClaims

CreatePVC(t) ==
  /\ req[t].pc \in {"createPVC", "createPVCUnbound"}
  /\ \/ Fail(t) /\ UNCHANGED pvc
     \/ /\ Volume(t) \in DOMAIN pvc /\ Done(t) /\ UNCHANGED <<pvc, faults>>
     \/ /\ Volume(t) \notin DOMAIN pvc /\ NextClaim(t) /\ UNCHANGED faults
        /\ pvc' = With(pvc, Volume(t), IF At(t, "createPVC") THEN Volume(t) ELSE NoVolume)
  /\ UNCHANGED pv /\ UNCHANGED NotClaims

-----------------------------------------------------------------------------
NotLink == <<fs, grant, pv, pvc, begun, overlap, deleted, tenants, muddled>>

CreateLink(t) ==
  /\ At(t, "link") /\ Goto(t, "lock") /\ link' = link \cup {<<req[t].id, req[t].path>>}
  /\ UNCHANGED <<meta, lock, faults>> /\ UNCHANGED NotLink

DeleteLink(t) ==
  /\ At(t, "unlink")
  /\ \/ Fail(t) /\ UNCHANGED link
     \/ /\ link' = link \ {<<req[t].id, req[t].path>>} /\ Goto(t, "lock") /\ UNCHANGED faults
  /\ UNCHANGED <<meta, lock>> /\ UNCHANGED NotLink

\* The links are read with the lock held.
ReadLinks(t) ==
  req' = [req EXCEPT ![t] = [op |-> @.op, pc |-> "save", id |-> @.id, path |-> @.path,
                             links |-> {Paths(@.id)}]]
\* Mutant: no lock.
FsLockFree(t) ==
  /\ At(t, "lock") /\ ReadLinks(t) /\ UNCHANGED <<link, meta, lock, faults>> /\ UNCHANGED NotLink
\* PersistLinksMeta(): one lock for each file system, not for each place.
FsLock(t) ==
  /\ At(t, "lock") /\ lock[req[t].id] = Nobody /\ lock' = [lock EXCEPT ![req[t].id] = t]
  /\ ReadLinks(t) /\ UNCHANGED <<link, meta, faults>> /\ UNCHANGED NotLink

Unlock(t) == lock' = [lock EXCEPT ![req[t].id] = Nobody]
\* A failure undoes the row of a new link; a deletion only logs it.
PersistFailed(t) ==
  /\ Unlock(t)
  /\ IF req[t].op = "link"
     THEN req' = [req EXCEPT ![t] = [op |-> @.op, pc |-> "undo", id |-> @.id, path |-> @.path]]
     ELSE Done(t)
Faulty == faults < MaxFaults /\ faults' = faults + 1

\* The storage of the row, read anew, gets a temporary file; an error of Exist() is
\* taken for "no such file".  `old' will be the file moved away.
Save(t, pc) ==
  req' = [req EXCEPT ![t] = [op |-> @.op, pc |-> pc, id |-> @.id, path |-> @.path,
            links |-> @.links, old |-> NoFile, at |-> PlaceOf(fs[@.id])]]
SaveTemp(t) ==
  /\ At(t, "save")
  /\ \/ req[t].id \notin DOMAIN fs /\ PersistFailed(t) /\ UNCHANGED faults
     \/ Faulty /\ PersistFailed(t)
     \/ req[t].id \in DOMAIN fs /\ Faulty /\ Save(t, "rename") /\ UNCHANGED lock
     \/ /\ req[t].id \in DOMAIN fs /\ UNCHANGED <<lock, faults>>
        /\ Save(t, IF meta[PlaceOf(fs[req[t].id])] = NoFile THEN "rename" ELSE "moveAway")
  /\ UNCHANGED <<link, meta>> /\ UNCHANGED NotLink

\* It fails when another file system in the same place moved the file first.
MoveAway(t) ==
  /\ At(t, "moveAway")
  /\ \/ Faulty /\ PersistFailed(t) /\ UNCHANGED meta
     \/ meta[req[t].at] = NoFile /\ PersistFailed(t) /\ UNCHANGED <<meta, faults>>
     \/ /\ meta[req[t].at] # NoFile
        /\ req' = [req EXCEPT ![t].pc = "rename", ![t].old = meta[req[t].at]]
        /\ meta' = [meta EXCEPT ![req[t].at] = NoFile] /\ UNCHANGED <<lock, faults>>
  /\ UNCHANGED link /\ UNCHANGED NotLink

\* The rename of the new file; onto a file that has come meanwhile some storages
\* refuse it.  When it fails the old file is moved back, or that fails as well.
Rename(t) ==
  /\ At(t, "rename")
  /\ \/ /\ Faulty \/ (meta[req[t].at] # NoFile /\ UNCHANGED faults)
        /\ PersistFailed(t)
        /\ \/ UNCHANGED meta
           \/ req[t].old # NoFile /\ meta' = [meta EXCEPT ![req[t].at] = req[t].old]
     \/ /\ meta' = [meta EXCEPT ![req[t].at] = req[t].links]
        /\ Done(t) /\ Unlock(t) /\ UNCHANGED faults
  /\ UNCHANGED link /\ UNCHANGED NotLink

UndoLink(t) ==
  /\ At(t, "undo")
  /\ \/ Fail(t) /\ UNCHANGED link
     \/ link' = link \ {<<req[t].id, req[t].path>>} /\ Done(t) /\ UNCHANGED faults
  /\ UNCHANGED <<meta, lock>> /\ UNCHANGED NotLink

-----------------------------------------------------------------------------
\* The server dies and starts again: requests and locks are gone.
Crash ==
  /\ Faulty /\ \E t \in Threads : req[t] # Idle
  /\ req' = [t \in Threads |-> Idle] /\ lock' = [i \in Ids |-> Nobody]
  /\ UNCHANGED <<fs, grant, pv, pvc, link, meta, begun, overlap, deleted, tenants, muddled>>

Serve(t) ==
  \/ CreateFileSystem(t) \/ DeletePVC(t) \/ DeleteFileSystem(t)
  \/ SkipMock(t) \/ GetPV(t) \/ CreatePV(t) \/ GetPVC(t) \/ CreatePVC(t)
  \/ CreateLink(t) \/ DeleteLink(t) \/ FsLock(t) \/ SaveTemp(t) \/ MoveAway(t)
  \/ Rename(t) \/ UndoLink(t)
Receive(t) ==
  /\ Arrive(t)
  /\ BeginCreate(t) \/ BeginDelete(t) \/ BeginLink(t) \/ BeginUnlink(t) \/ BeginClaims(t)
Next == Crash \/ \E t \in Threads : Receive(t) \/ Serve(t)
Spec == Init /\ [][Next]_fvars

-----------------------------------------------------------------------------
Quiet == \A t \in Threads : req[t] = Idle

\* A text that leads where it says, but for slashes at its end.
Plain(p) == TrimRight(p) = Clean(p)
Tidy(s) == s.kind # "hdfsWithKerberos" /\ Plain(s.dir)
\* One directory is the other or lies in it.
Meet(p, q) == IsPrefix(Clean(p), Clean(q)) \/ IsPrefix(Clean(q), Clean(p))

\* Served one at a time, file systems of one storage neither share nor nest the
\* directories they lead to, whatever has come and gone, nor do the links of one
\* file system (checkFsDir(), checkLinkPath()).  Out of the check's reach, and
\* excepted, are overlapping requests, Kerberos rows, and a text that leads
\* elsewhere than its parts say: "//a" passes beside "/a", a link "a" beside "/a".
SourcesAreDisjoint ==
  ~overlap =>
    /\ \A i, j \in {k \in DOMAIN fs : Tidy(fs[k])} :
         i # j /\ fs[i].kind = fs[j].kind /\ fs[i].host = fs[j].host => ~Meet(fs[i].dir, fs[j].dir)
    /\ \A l, m \in {n \in link : Plain(n[2])} :
         l # m /\ l[1] = m[1] => ~Meet(l[2], m[2])

\* A file system in whose place there never was another, and never itself before.
Sole(i) ==
  i \notin deleted /\ \A m \in tenants : PlaceOf(m[2]) = PlaceOf(fs[i]) => m[1] = i
\* One that, served one at a time, shared its place with none at the same time.
Orderly(i) ==
  ~overlap /\ \A m \in tenants : PlaceOf(m[2]) = PlaceOf(fs[i]) => Tidy(m[2])
Current(i) ==
  LET file == meta[PlaceOf(fs[i])] IN
  file = {Paths(i)} \/ (file = NoFile /\ Paths(i) = {})

\* When nothing failed and every request is answered, the links file a mounter of i
\* finds lists the links of i (PersistLinksMeta()): however requests overlapped, if
\* i is the only file system its directory ever had; and otherwise, requests one at
\* a time, as soon as i has a link of its own.  Before that it may find the file
\* that the last one in the same directory left, which no deletion removes.
LinksFileIsCurrent ==
  Quiet /\ faults = 0 => \A i \in DOMAIN fs :
    Sole(i) \/ (Orderly(i) /\ Paths(i) # {}) => Current(i)

\* When nothing failed no link outlives its file system, though a file system
\* may be deleted while a link is being made for it (DeleteFileSystem()).
LinksHaveFileSystem == Quiet /\ faults = 0 => \A l \in link : l[1] \in DOMAIN fs

\* Both: what the lock and the transaction are for.
LinksAreKept == LinksFileIsCurrent /\ LinksHaveFileSystem

\* A deletion that fails half way keeps the row, so a claim always has its file
\* system while requests are served one at a time (deletePVC()).
ClaimsHaveFileSystem == ~overlap => \A v \in DOMAIN pvc : v[2] \in DOMAIN fs

\* Claims made one request at a time, with no failure and for ids never used
\* before, name their own volume, which names the right owner (createPV()).
ClaimsAreBound ==
  ~overlap /\ faults = 0 /\ ~muddled => \A v \in DOMAIN pvc : v[2] \notin deleted =>
    pvc[v] = v /\ v \in DOMAIN pv /\ pv[v] = v[2]

\* Both: what a claim stands for, from its creation to its deletion.
ClaimsAreSound == ClaimsHaveFileSystem /\ ClaimsAreBound

\* response.ClaimsSuccessMessage, "create pv and pvc success": with no failure
\* and no overlap every claim names a volume.
ClaimsNameVolumes == ~overlap /\ faults = 0 => \A v \in DOMAIN pvc : pvc[v] # NoVolume
-----------------------------------------------------------------------------
(* The inductive invariant behind the proofs *)

Persisting == {"save", "moveAway", "rename"}
Claiming == {"getPV", "createPV", "getPVC", "getPVCUnbound", "createPVC", "createPVCUnbound"}
Contents == {{P} : P \in SUBSET LinkPaths}

Creates == [op : {"create"}, pc : {"create"}, id : Ids, src : Rows]
Deletes == [op : {"delete"}, pc : {"deletePVC", "delete"}, id : Ids, left : Seq(Range(Namespaces))]
Links == [op : {"link"}, pc : {"link", "lock", "undo"}, id : Ids, path : LinkPaths]
Unlinks == [op : {"unlink"}, pc : {"unlink", "lock"}, id : Ids, path : LinkPaths]
Saves == [op : {"link", "unlink"}, pc : {"save"}, id : Ids, path : LinkPaths, links : Contents]
Moves == [op : {"link", "unlink"}, pc : {"moveAway", "rename"}, id : Ids, path : LinkPaths,
          links : Contents, old : Contents \cup {NoFile}, at : Places]
Claims == {r \in [op : {"claims"}, pc : Claiming, ids : Seq(Ids), rows : Seq(Ids), k : Nat, n : Nat,
                  mock : SUBSET Nat] :
             r.k \in DOMAIN r.ids /\ r.n \in DOMAIN Namespaces /\ Len(r.rows) = Len(r.ids)}
Requests == {Idle} \cup Creates \cup Deletes \cup Links \cup Unlinks \cup Saves \cup Moves \cup Claims

TypeOK ==
  /\ DOMAIN fs \subseteq Ids /\ fs \in [DOMAIN fs -> Rows] /\ tenants \subseteq Ids \X Rows
  /\ DOMAIN pv \subseteq Range(Namespaces) \X Ids /\ DOMAIN pvc \subseteq Range(Namespaces) \X Ids
  /\ link \subseteq Ids \X LinkPaths /\ deleted \subseteq Ids
  /\ meta \in [Places -> Contents \cup {NoFile}] /\ lock \in [Ids -> Threads \cup {Nobody}]
  /\ req \in [Threads -> Requests]
  /\ begun \in Nat /\ faults \in Nat /\ overlap \in BOOLEAN /\ muddled \in BOOLEAN

Serial == ~overlap => \A t, o \in Threads : req[t] # Idle /\ req[o] # Idle => t = o

\* What a request relies on after its checks while it is alone.
Checked ==
  ~overlap => \A t \in Threads :
    /\ req[t].op = "create" /\ Tidy(req[t].src) => checkFsDir(req[t].src)
    /\ At(t, "link") => CheckLinkPath(req[t].id, req[t].path)
DisjointInv == SourcesAreDisjoint /\ Checked

\* Whoever persists the links of a file system holds its lock.
LockInv ==
  \A i \in Ids, t \in Threads :
    lock[i] = t <=> req[t].pc \in Persisting /\ req[t].id = i

\* Whoever has written a file somewhere did so for a file system made there.
Moving == {"moveAway", "rename"}
TenantInv ==
  /\ \A i \in DOMAIN fs : <<i, fs[i]>> \in tenants
  /\ \A m \in tenants : m[1] \in deleted \/ (m[1] \in DOMAIN fs /\ fs[m[1]] = m[2])
  /\ \A p \in Places : meta[p] # NoFile => \E m \in tenants : PlaceOf(m[2]) = p
  /\ \A t \in Threads : req[t].pc \in Moving =>
       /\ \E m \in tenants : m[1] = req[t].id /\ PlaceOf(m[2]) = req[t].at
       /\ ~overlap => req[t].id \in DOMAIN fs /\ req[t].at = PlaceOf(fs[req[t].id])

\* Without a failure the links file is right, or a request will make it so; and
\* a row without a file system is taken back by the request that made it.
Written(i) ==
  \/ \E t \in Threads : At(t, "lock") /\ req[t].id = i
  \/ \E t \in Threads : req[t].pc \in Persisting /\ req[t].id = i /\ req[t].links = {Paths(i)}
  \/ lock[i] = Nobody /\ Current(i)
\* Nobody else moves the file this request is about to move.
Undisturbed(t) == ~overlap \/ (req[t].id \in DOMAIN fs /\ Sole(req[t].id))
LinkInv ==
  faults = 0 =>
    /\ \A t \in Threads : req[t].op \in {"link", "unlink"} =>
         req[t].id \in DOMAIN fs \/ (overlap /\ req[t].id \in deleted)
    /\ \A t \in Threads : req[t].op \in {"link", "unlink"} /\ Undisturbed(t) =>
         /\ ~At(t, "undo")
         /\ At(t, "moveAway") => meta[req[t].at] # NoFile
         /\ At(t, "rename") => meta[req[t].at] = NoFile
    /\ \A i \in DOMAIN fs : Sole(i) \/ (Orderly(i) /\ Paths(i) # {}) => Written(i)
    /\ \A l \in link :
         \/ l[1] \in DOMAIN fs
         \/ \E t \in Threads : /\ req[t].op = "link" /\ req[t].pc \in {"lock", "save", "undo"}
                               /\ req[t].id = l[1] /\ req[t].path = l[2]

\* Requests one at a time: claims are made for rows that are there, and a row
\* goes only when its claims have gone.
OwnedInv ==
  ~overlap =>
    /\ ClaimsHaveFileSystem
    /\ \A t \in Threads :
         /\ req[t].op = "claims" => Range(req[t].ids) \subseteq DOMAIN fs
         /\ req[t].op = "delete" =>
              \A v \in DOMAIN pvc : v[2] = req[t].id => v[1] \in Range(req[t].left)
         /\ At(t, "delete") => req[t].left = <<>>

\* Claims that never failed: a volume has its claim, unless it is being made or
\* its file system deleted.
BoundInv ==
  ~overlap /\ faults = 0 /\ ~muddled =>
    /\ ClaimsAreBound
    /\ \A t \in Threads : req[t].op = "claims" =>
         /\ req[t].rows = req[t].ids
         /\ req[t].pc \in {"getPVC", "getPVCUnbound", "createPVC", "createPVCUnbound"} =>
              Volume(t) \in DOMAIN pv
         /\ req[t].pc \in {"getPVCUnbound", "createPVCUnbound"} =>
              Volume(t) \in DOMAIN pvc \/ ClaimId(t) \in deleted
    /\ \A v \in DOMAIN pv :
         /\ pv[v] = v[2]
         /\ \/ v \in DOMAIN pvc \/ v[2] \in deleted
            \/ \E t \in Threads : req[t].op = "delete" /\ req[t].id = v[2]
            \/ \E t \in Threads : /\ req[t].op = "claims" /\ req[t].pc \in {"getPVC", "createPVC"}
                                  /\ Volume(t) = v

ServerInv ==
  TypeOK /\ Serial /\ LockInv /\ DisjointInv /\ TenantInv /\ LinkInv /\ OwnedInv /\ BoundInv
=============================================================================
