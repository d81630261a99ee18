------------------------------ MODULE S3Store ------------------------------
(***************************************************************************)
(* The object storage back end (ufs/s3.go): files and directories kept as  *)
(* objects, one per file and one, named with a slash, per directory.       *)
(* Every operation is several requests to the storage; other operations    *)
(* come between them, a request may fail, and the process may die.  A file *)
(* is written in a temporary file that Release uploads.                    *)
(***************************************************************************)
EXTENDS Naturals, Sequences, FiniteSets, Functions

CONSTANTS
    Threads,     \* callers of the storage
    Dirs,        \* names of directories
    Leaves,      \* names of files in the root
    Inner,       \* names of files in a directory
    MaxOps,      \* bound on operations
    MaxFaults    \* bound on failing requests and deaths of the process

VARIABLES
    objects,  \* key -> content: 0 is empty, n the n-th write
    thread,   \* what each caller is doing
    lock,     \* the file system's mutex, which Create holds
    handles,  \* open write handles: thread -> [path, tmp]
    version,  \* writes so far
    ops, faults,
    owed,     \* history: path -> the content a caller may count on there
    mixed     \* history: paths on which operations overlapped, and what they were renamed to

vars == <<objects, thread, lock, handles, version, ops, faults, owed, mixed>>

Free == "free"
Idle == [op |-> "idle"]
File(p) == [path |-> p, dir |-> FALSE]
Dir(p) == [path |-> p, dir |-> TRUE]
FilePaths == {<<n>> : n \in Leaves} \cup {<<d, n>> : d \in Dirs, n \in Inner}
DirPaths == {<<d>> : d \in Dirs}
AllPaths == FilePaths \cup DirPaths

\* The function f with k mapped to v.
With(f, k, v) == [x \in DOMAIN f \cup {k} |-> IF x = k THEN v ELSE f[x]]
Has(k) == k \in DOMAIN objects
Below(p) == {k \in DOMAIN objects : Len(k.path) > Len(p) /\ SubSeq(k.path, 1, Len(p)) = p}
Put(k, c) == objects' = With(objects, k, c)
Remove(k) == objects' = Restrict(objects, DOMAIN objects \ {k})

\* GetAttr: the object, else the directory object, else anything below the path.
\* When the second request fails for any reason but a missing key, the answer is
\* a directory, whether or not there is one.
Attr(p) == IF Has(File(p)) THEN "file" ELSE IF Has(Dir(p)) \/ Below(p) # {} THEN "dir" ELSE "none"
Attrs(p) == {Attr(p)} \cup (IF faults < MaxFaults THEN {"error", "ghost"} ELSE {})
Kind(a) == IF a = "ghost" THEN "dir" ELSE a
Failed(bad) == faults' = IF bad THEN faults + 1 ELSE faults

(* --------------------------- starting and ending ------------------------ *)

Uses(r) == IF r.op = "idle" THEN {} ELSE IF r.op = "rename" THEN {r.path, r.to} ELSE {r.path}
\* The names of the operations and open files that share a name with these.
Overlap(ps) ==
    UNION {u \in {Uses(thread[t]) : t \in Threads} \cup {{handles[t].path} : t \in DOMAIN handles} :
              u \cap ps # {}}

Start(t, r) ==
    /\ thread[t] = Idle /\ ops < MaxOps /\ ops' = ops + 1
    /\ thread' = [thread EXCEPT ![t] = r]
    /\ mixed' = IF Overlap(Uses(r)) = {} THEN mixed ELSE mixed \cup Uses(r) \cup Overlap(Uses(r))

Goto(t, at) == thread' = [thread EXCEPT ![t].at = at]
Stop(t) == thread' = [thread EXCEPT ![t] = Idle]
\* A request of the operation failed: it returns the error.
Fail(t) == Stop(t)
Owe(p, c) == owed' = With(owed, p, c)
Disown(ps) == owed' = Restrict(owed, DOMAIN owed \ ps)

Begin(t) ==
    /\ \/ \E p \in DirPaths, o \in {"mkdir", "rmdir"} : Start(t, [op |-> o, path |-> p, at |-> "look"])
       \/ \E p \in FilePaths, o \in {"create", "open", "truncate", "unlink"} :
              (t \notin DOMAIN handles \/ o \in {"truncate", "unlink"})
              /\ Start(t, [op |-> o, path |-> p,
                           at |-> IF o \in {"truncate", "unlink"} THEN "delete" ELSE "look"])
       \/ \E p, q \in FilePaths : p # q /\ Start(t, [op |-> "rename", path |-> p, to |-> q, at |-> "look"])
    /\ UNCHANGED <<objects, lock, handles, version, faults, owed>>

(* ------------------------------ operations ------------------------------ *)

At(t, op, at) == thread[t].op = op /\ thread[t].at = at
P(t) == thread[t].path

\* The first request: is the path what the operation wants?
Look(t, op, wanted, next) ==
    /\ At(t, op, "look")
    /\ \E a \in Attrs(P(t)) :
          /\ a = "ghost" => Attr(P(t)) = "none"
          /\ Failed(a \in {"error", "ghost"})
          /\ IF Kind(a) = wanted THEN Goto(t, next) ELSE Fail(t)
    /\ UNCHANGED <<objects, handles, version, ops, owed, mixed>>

\* The path itself must not be there; what is above or below it is not asked for.
MkdirLook(t) == Look(t, "mkdir", "none", "act") /\ UNCHANGED lock
RenameLook(t) == Look(t, "rename", "file", "act") /\ UNCHANGED lock
OpenLook(t) == Look(t, "open", "file", "act") /\ UNCHANGED lock
\* Create holds the mutex from here to its end.
CreateLook(t) ==
    /\ lock = Free /\ Look(t, "create", "none", "act")
    /\ lock' = IF thread'[t] = Idle THEN Free ELSE t

\* Rmdir lists: one key at most, taken for the directory's own.
RmdirList(t) ==
    /\ At(t, "rmdir", "look")
    /\ \/ /\ UNCHANGED faults
          /\ IF Cardinality(Below(P(t)) \cup ({Dir(P(t))} \cap DOMAIN objects)) <= 1
             THEN Goto(t, "delete") ELSE Fail(t)
       \/ faults < MaxFaults /\ faults' = faults + 1 /\ Fail(t)
    /\ UNCHANGED <<objects, lock, handles, version, ops, owed, mixed>>

Still == UNCHANGED <<version, ops, faults, mixed>>

MkdirPut(t) ==
    /\ At(t, "mkdir", "act") /\ Put(Dir(P(t)), 0) /\ Stop(t)
    /\ UNCHANGED <<lock, handles, owed>> /\ Still

\* createEmptyFile(), then a handle with an empty temporary file.
CreatePut(t) ==
    /\ At(t, "create", "act") /\ Put(File(P(t)), 0) /\ Owe(P(t), 0) /\ Stop(t)
    /\ lock' = Free /\ handles' = With(handles, t, [path |-> P(t), tmp |-> 0]) /\ Still

\* openForWrite(): the content is copied into a temporary file.
OpenGet(t) ==
    /\ At(t, "open", "act") /\ Stop(t)
    /\ handles' = IF Has(File(P(t)))
                    THEN With(handles, t, [path |-> P(t), tmp |-> objects[File(P(t))]])
                    ELSE handles
    /\ UNCHANGED <<objects, lock, owed>> /\ Still

\* Mutant: the old object goes first.
RenameDeleteFirst(t) ==
    /\ At(t, "rename", "act") /\ Remove(File(P(t))) /\ Stop(t)
    /\ UNCHANGED <<lock, handles, owed>> /\ Still
RenameCopy(t) ==
    /\ At(t, "rename", "act")
    /\ IF Has(File(P(t)))
         THEN Put(File(thread[t].to), objects[File(P(t))]) /\ Disown({thread[t].to}) /\ Goto(t, "delete")
         ELSE Fail(t) /\ UNCHANGED <<objects, owed>>
    /\ UNCHANGED <<lock, handles>> /\ Still

RenameDelete(t) ==
    /\ At(t, "rename", "delete") /\ Remove(File(P(t))) /\ Stop(t)
    /\ owed' = IF P(t) \notin DOMAIN owed THEN owed
                ELSE With(Restrict(owed, DOMAIN owed \ {P(t)}), thread[t].to, owed[P(t)])
    /\ mixed' = IF P(t) \in mixed THEN mixed \cup {thread[t].to} ELSE mixed
    /\ UNCHANGED <<lock, handles, version, ops, faults>>

UnlinkDelete(t) ==
    /\ At(t, "unlink", "delete") /\ Remove(File(P(t))) /\ Disown({P(t)}) /\ Stop(t)
    /\ UNCHANGED <<lock, handles>> /\ Still

RmdirDelete(t) ==
    /\ At(t, "rmdir", "delete") /\ Remove(Dir(P(t))) /\ Disown({P(t)}) /\ Stop(t)
    /\ UNCHANGED <<lock, handles>> /\ Still

\* Truncate: the file is deleted, then made again, if none is seen.
TruncateDelete(t) ==
    /\ At(t, "truncate", "delete") /\ Remove(File(P(t))) /\ Disown({P(t)})
    /\ thread' = [thread EXCEPT ![t] = [op |-> "again", path |-> @.path, at |-> "exists"]]
    /\ UNCHANGED <<lock, handles>> /\ Still

TruncatePut(t) ==
    /\ At(t, "again", "act") /\ Put(File(P(t)), 0) /\ Owe(P(t), 0) /\ Stop(t)
    /\ UNCHANGED <<lock, handles>> /\ Still

\* createEmptyFile of Truncate.
TruncateExists(t) ==
    /\ thread[t].op = "again" /\ thread[t].at = "exists"
    /\ \E a \in Attrs(thread[t].path) :
          /\ a = "ghost" => Attr(thread[t].path) = "none"
          /\ Failed(a \in {"error", "ghost"})
          /\ IF Kind(a) = "none" THEN Goto(t, "act") ELSE Fail(t)
    /\ UNCHANGED <<objects, lock, handles, version, ops, owed, mixed>>

\* Any making or deleting request may fail.
RequestFails(t) ==
    /\ faults < MaxFaults /\ faults' = faults + 1
    /\ thread[t].op # "idle" /\ thread[t].at \in {"act", "delete"}
    /\ Fail(t) /\ lock' = IF lock = t THEN Free ELSE lock
    /\ UNCHANGED <<objects, handles, version, ops, owed, mixed>>

Write(t) ==
    /\ t \in DOMAIN handles /\ thread[t] = Idle /\ version < MaxOps
    /\ version' = version + 1
    /\ handles' = [handles EXCEPT ![t].tmp = version + 1]
    /\ UNCHANGED <<objects, thread, lock, ops, faults, owed, mixed>>

\* Release uploads the temporary file, written to or not; a failure is only logged.
Release(t) ==
    /\ t \in DOMAIN handles /\ thread[t] = Idle
    /\ LET p == handles[t].path
       IN  \/ /\ Put(File(p), handles[t].tmp) /\ Owe(p, handles[t].tmp)
              /\ UNCHANGED <<faults, mixed>>
           \/ /\ faults < MaxFaults /\ faults' = faults + 1
              /\ UNCHANGED <<objects, owed, mixed>>
    /\ handles' = Restrict(handles, DOMAIN handles \ {t})
    /\ UNCHANGED <<thread, lock, version, ops>>

\* The process dies: its handles and operations end where they are.
Die ==
    /\ faults < MaxFaults /\ faults' = faults + 1
    /\ thread' = [t \in Threads |-> Idle] /\ handles' = <<>> /\ lock' = Free
    /\ UNCHANGED <<objects, version, ops, owed, mixed>>

Init ==
    /\ objects = <<>> /\ thread = [t \in Threads |-> Idle] /\ lock = Free
    /\ handles = <<>> /\ version = 0 /\ ops = 0 /\ faults = 0
    /\ owed = <<>> /\ mixed = {}

Next ==
    \/ \E t \in Threads :
          \/ Begin(t) \/ RequestFails(t) \/ Write(t) \/ Release(t)
          \/ MkdirLook(t) \/ MkdirPut(t) \/ RmdirList(t) \/ RmdirDelete(t)
          \/ RenameLook(t) \/ RenameCopy(t) \/ RenameDelete(t) \/ UnlinkDelete(t)
          \/ TruncateDelete(t) \/ TruncateExists(t) \/ TruncatePut(t)
          \/ CreateLook(t) \/ CreatePut(t) \/ OpenLook(t) \/ OpenGet(t)
    \/ Die

Spec == Init /\ [][Next]_vars

(* ------------------------------ properties ------------------------------ *)

\* What was uploaded is in the storage under its name at every moment, whatever
\* request fails and whenever the process dies, as long as no two operations
\* overlapped on the name, or on one it was renamed from: Rename deletes only what
\* it has copied.
UploadedIsKept ==
    \A p \in DOMAIN owed \ mixed : Has(File(p)) /\ objects[File(p)] = owed[p]

(* --------------- the inductive invariant behind the proofs -------------- *)

Requests ==
    {Idle} \cup [op : {"mkdir", "rmdir"}, path : DirPaths, at : {"look", "act", "delete"}]
           \cup [op : {"create", "open", "truncate", "unlink", "again"}, path : FilePaths,
                 at : {"look", "exists", "act", "delete"}]
           \cup {r \in [op : {"rename"}, path : FilePaths, to : FilePaths,
                        at : {"look", "act", "delete"}] : r.path # r.to}

TypeOK ==
    /\ thread \in [Threads -> Requests]
    /\ DOMAIN handles \subseteq Threads /\ \A t \in DOMAIN handles : handles[t].path \in FilePaths
    /\ DOMAIN owed \subseteq FilePaths

\* Two that use one name at the same time have all their names in mixed: two
\* operations, an operation and an open file, two open files.
Apart ==
    /\ \A t, u \in Threads :
          t # u /\ Uses(thread[t]) \cap Uses(thread[u]) # {} => Uses(thread[t]) \subseteq mixed
    /\ \A t \in Threads, u \in DOMAIN handles :
          handles[u].path \in Uses(thread[t]) => Uses(thread[t]) \subseteq mixed
    /\ \A t, u \in DOMAIN handles :
          t # u /\ handles[t].path = handles[u].path => handles[t].path \in mixed

\* A rename that is alone on its names deletes what it has copied.
Copied ==
    \A t \in Threads : At(t, "rename", "delete") /\ Uses(thread[t]) \cap mixed = {} =>
        /\ Has(File(P(t))) /\ Has(File(thread[t].to))
        /\ objects[File(thread[t].to)] = objects[File(P(t))]

StoreInv == TypeOK /\ Apart /\ Copied /\ UploadedIsKept
=============================================================================
