----------------------------- MODULE FileClient -----------------------------
(***************************************************************************)
(* The file client of one process: the inode table (meta/inode.go), the    *)
(* meta layer that finds the storage of a path (meta/default.go), the      *)
(* handles (vfs/handle.go, vfs/vfs.go), and the two callers of that layer: *)
(* the kernel through FUSE (fuse/pfs.go), which names nodes by number, and *)
(* the client library (fs/fs.go, fs/cache.go), which names them by path    *)
(* and remembers the number of each path.  A storage is a local directory  *)
(* tree (ufs/local.go); links are roots of further storages.               *)
(***************************************************************************)
EXTENDS Naturals, Sequences, FiniteSets, SequencesExt, Functions

CONSTANTS
    Names,      \* file names
    LinkPaths,  \* the paths a link may be at
    MaxDepth,   \* the longest path
    MaxNodes,   \* bound on the nodes of the table
    MaxObjects, \* bound on the files and directories ever made
    MaxHandles, \* bound on the handles ever opened
    MaxFaults   \* bound on failing calls to the storage

VARIABLES
    caller,  \* "kernel" or "client": who uses this process's VFS
    links,   \* the paths of the links (ufsMap)
    store,   \* key -> is it a directory: what the storages hold
    made,    \* how many files and directories were ever made
    nodes,   \* the inode table: a sequence of nodes, 1 is the root
    entry,   \* the client's entry cache: path -> node
    fresh,   \* the client's attr cache: the nodes whose attributes it holds
    fhs,     \* handleMap: node -> sequence of handles
    given,   \* the handles the caller holds: <<node, handle>>
    nextfh,  \* the next handle
    dead,    \* the removed directories, in which the kernel makes nothing any more
    moved,   \* history: the paths below which numbers may have gone astray
    faults   \* failing calls so far

vars == <<caller, links, store, made, nodes, entry, fresh, fhs, given, nextfh, dead, moved, faults>>

Paths == UNION {[1..d -> Names] : d \in 0..MaxDepth}
DirName(p) == SubSeq(p, 1, Len(p) - 1)

(* ------------------------------ storages ------------------------------ *)

\* GetUFS: the link the path is at or below, else the file system itself,
\* and the path inside that storage.
GetUFS(p) ==
    LET over == {l \in links : IsPrefix(l, p)}
    IN  IF over = {} THEN [ufs |-> <<>>, sub |-> p]
        ELSE LET l == CHOOSE x \in over : TRUE
             IN  [ufs |-> l, sub |-> SubSeq(p, Len(l) + 1, Len(p))]

Exists(k) == k \in DOMAIN store
DirAt(k) == Exists(k) /\ store[k]
Inside(k) == {j \in DOMAIN store : j.ufs = k.ufs /\ IsPrefix(k.sub, j.sub)}
Parent(k) == [k EXCEPT !.sub = DirName(@)]
MayMake(k) == ~Exists(k) /\ k.sub # <<>> /\ DirAt(Parent(k))

Put(f, k, v) == [x \in DOMAIN f \cup {k} |-> IF x = k THEN v ELSE f[x]]
With(k, dir) == Put(store, k, dir)
Without(ks) == Restrict(store, DOMAIN store \ ks)

\* os.Rename: neither below itself nor over a directory, a directory over nothing.
MayRename(k, j) ==
    /\ k.ufs = j.ufs /\ Exists(k) /\ k # j
    /\ ~IsPrefix(k.sub, j.sub) /\ j.sub # <<>> /\ DirAt(Parent(j))
    /\ Exists(j) => (~store[j] /\ ~store[k])

Renamed(k, j) ==
    LET to(x) == [x EXCEPT !.sub = j.sub \o SubSeq(@, Len(k.sub) + 1, Len(@))]
        kept == DOMAIN store \ (Inside(k) \cup {j})
    IN  [x \in kept \cup {to(y) : y \in Inside(k)} |->
            IF x \in kept THEN store[x] ELSE store[CHOOSE y \in Inside(k) : to(y) = x]]

(* --------------------------- the inode table --------------------------- *)

\* The map of the children: 0 where it has none.
NoChild == [n \in Names |-> 0]
\* "dir": the node has a child map; "folder": the caller was told it is a directory.
Root == [name |-> "", parent |-> 0, dir |-> TRUE, folder |-> TRUE, child |-> NoChild]

InodeToPath(ns, i) ==
    LET path[n \in DOMAIN ns] ==
            IF ns[n].parent = 0 THEN <<>> ELSE Append(path[ns[n].parent], ns[n].name)
    IN  path[i]

Child(ns, p, n) == ns[p].child[n]
SetChild(ns, p, n, i) == [ns EXCEPT ![p].child[n] = i]

NewChild(ns, p, n, dir, folder) ==
    SetChild(Append(ns, [name |-> n, parent |-> p, dir |-> dir, folder |-> folder, child |-> NoChild]),
             p, n, Len(ns) + 1)

\* RmChild: the name leaves the parent's map and the node forgets its parent.
RmChild(ns, p, n) ==
    LET i == Child(ns, p, n)
    IN  IF i = 0 THEN ns
        ELSE [SetChild(ns, p, n, 0) EXCEPT ![i].parent = 0]

PathIn(ns, p, n) == Append(InodeToPath(ns, p), n)
KeyOf(ns, i) == GetUFS(InodeToPath(ns, i))
KeyIn(ns, p, n) == GetUFS(PathIn(ns, p, n))

\* Meta.Lookup: the node of the name, made when the parent has none for it.
LookupFails(ns, p, n) == ~ns[p].dir \/ ~Exists(KeyIn(ns, p, n))
LookupNodes(ns, p, n) ==
    IF Child(ns, p, n) # 0 THEN ns
    ELSE LET d == store[KeyIn(ns, p, n)] IN NewChild(ns, p, n, d, d)
LookupNode(ns, p, n) == Child(LookupNodes(ns, p, n), p, n)

(* ------------------------ the client's path lookup ---------------------- *)

\* fs.lookup: the entry cache first, then the parent's node and a Meta.Lookup.
\* A world is the part of the state a lookup may change.
World == [ok |-> TRUE, ino |-> 1, nodes |-> nodes, entry |-> entry, fresh |-> fresh]

\* A path in the entry cache.
Found(w, p) ==
    LET i == w.entry[p]
    IN  [w EXCEPT !.ino = i,
                  !.ok = i \in w.fresh \/ Exists(KeyOf(w.nodes, i)),
                  !.fresh = IF Exists(KeyOf(w.nodes, i)) THEN @ \cup {i} ELSE @]

\* A path in the directory the world v was found for.
LookupIn(v, p) ==
    IF ~v.ok \/ LookupFails(v.nodes, v.ino, Last(p)) THEN [v EXCEPT !.ok = FALSE]
    ELSE LET i == LookupNode(v.nodes, v.ino, Last(p))
         IN  [ok |-> TRUE, ino |-> i, nodes |-> LookupNodes(v.nodes, v.ino, Last(p)),
              entry |-> Put(v.entry, p, i), fresh |-> v.fresh \cup {i}]

Lookup(w, p) ==
    LET found[n \in 0..Len(p)] ==
            LET q == SubSeq(p, 1, n)
            IN  IF q \in DOMAIN w.entry THEN Found(w, q)
                ELSE IF n = 0
                THEN [w EXCEPT !.ino = 1, !.entry = Put(@, <<>>, 1), !.fresh = @ \cup {1}]
                ELSE LookupIn(found[n - 1], q)
    IN  found[Len(p)]

\* Mutant: the entry stays.
ForgetNothing(e, p) == e
Forget(e, p) == Restrict(e, DOMAIN e \ {p})

\* Where an operation on a name happens: the kernel names any directory node it
\* was ever given, the client a path whose parent it looks up first.
FuseTargets ==
    {[at |-> [World EXCEPT !.ino = i], name |-> n, path |-> <<>>] :
        i \in {x \in 1..Len(nodes) \ dead : caller = "kernel" /\ nodes[x].folder}, n \in Names}
ClientTargets ==
    IF caller # "client" THEN {}
    ELSE {t \in {[at |-> Lookup(World, DirName(p)), name |-> Last(p), path |-> p] :
                p \in Paths \ {<<>>}} : t.at.ok}
InBounds(t) == Len(t.at.nodes) < MaxNodes /\ Len(PathIn(t.at.nodes, t.at.ino, t.name)) <= MaxDepth
Keeps(w) == nodes' = w.nodes /\ entry' = w.entry /\ fresh' = w.fresh

(* ----------------------------- operations ------------------------------ *)

FuseLookup ==
    /\ \E t \in FuseTargets :
          /\ InBounds(t) /\ ~LookupFails(nodes, t.at.ino, t.name)
          /\ nodes' = LookupNodes(nodes, t.at.ino, t.name)
    /\ UNCHANGED <<caller, links, store, made, entry, fresh, fhs, given, nextfh, dead, moved, faults>>

\* Stat: what the lookup found stays in the caches, whether it succeeds or not.
ClientStat ==
    /\ caller = "client"
    /\ \E p \in Paths : LET w == Lookup(World, p) IN Len(w.nodes) <= MaxNodes /\ Keeps(w)
    /\ UNCHANGED <<caller, links, store, made, fhs, given, nextfh, dead, moved, faults>>

\* Chmod and Chown: the attributes of the answer are cached.
ClientChmod ==
    /\ caller = "client"
    /\ \E w \in {v \in {Lookup(World, p) : p \in Paths} : v.ok} :
          /\ Len(w.nodes) <= MaxNodes /\ Exists(KeyOf(w.nodes, w.ino))
          /\ Keeps([w EXCEPT !.fresh = @ \cup {w.ino}])
    /\ UNCHANGED <<caller, links, store, made, fhs, given, nextfh, dead, moved, faults>>

\* Meta.Mkdir and Meta.Mknod: both make a node that counts as a directory.
Make(targets, dir) ==
    \E t \in targets :
        LET k == KeyIn(t.at.nodes, t.at.ino, t.name)
        IN  /\ InBounds(t) /\ made < MaxObjects /\ MayMake(k)
            /\ store' = With(k, dir) /\ made' = made + 1
            /\ nodes' = NewChild(t.at.nodes, t.at.ino, t.name, TRUE, dir)
            /\ entry' = t.at.entry /\ fresh' = t.at.fresh
            /\ UNCHANGED <<caller, links, fhs, given, nextfh, dead, moved, faults>>
FuseMkdir == Make(FuseTargets, TRUE)
FuseMknod == Make(FuseTargets, FALSE)
ClientMkdir == Make(ClientTargets, TRUE)

\* Handles of a node: newHandle appends, releaseHandle moves the last one into the gap.
NewHandle(i) ==
    fhs' = Put(fhs, i, Append(IF i \in DOMAIN fhs THEN fhs[i] ELSE <<>>, nextfh))
\* Mutant: the last one goes, whichever was meant.
ReleaseLast(hs, h) == SubSeq(hs, 1, Len(hs) - 1)
ReleaseHandle(hs, h) ==
    LET at == CHOOSE x \in 1..Len(hs) : hs[x] = h
    IN  [x \in 1..Len(hs) - 1 |-> IF x = at THEN hs[Len(hs)] ELSE hs[x]]
FindHandle(i, h) == i \in DOMAIN fhs /\ h \in Range(fhs[i])
Gives(i) == NewHandle(i) /\ given' = given \cup {<<i, nextfh>>} /\ nextfh' = nextfh + 1

\* Create opens the file when it is there already: a second node for it.
Create(targets) ==
    \E t \in targets :
        LET k == KeyIn(t.at.nodes, t.at.ino, t.name)
            i == Len(t.at.nodes) + 1
        IN  /\ InBounds(t) /\ nextfh <= MaxHandles
            /\ \/ Exists(k) /\ ~store[k] /\ UNCHANGED <<store, made>>
               \/ MayMake(k) /\ made < MaxObjects /\ store' = With(k, FALSE) /\ made' = made + 1
            /\ nodes' = NewChild(t.at.nodes, t.at.ino, t.name, FALSE, FALSE)
            /\ entry' = t.at.entry /\ fresh' = t.at.fresh
            /\ Gives(i)
            /\ UNCHANGED <<caller, links, dead, moved, faults>>

FuseCreate == Create(FuseTargets)
ClientCreate == Create(ClientTargets)

\* Open and OpenDir.  A handle whose storage cannot be opened stays in the map, and
\* nobody has it.
Open(worlds) ==
    /\ nextfh <= MaxHandles
    /\ \E w \in worlds :
          /\ Len(w.nodes) <= MaxNodes
          /\ Exists(KeyOf(w.nodes, w.ino))
          /\ Keeps(w)
          /\ \/ Gives(w.ino) /\ UNCHANGED faults
             \/ /\ faults < MaxFaults /\ faults' = faults + 1
                /\ NewHandle(w.ino) /\ nextfh' = nextfh + 1 /\ UNCHANGED given
    /\ UNCHANGED <<caller, links, store, made, dead, moved>>
FuseOpen == caller = "kernel" /\ Open({[World EXCEPT !.ino = i] : i \in 1..Len(nodes)})
ClientOpen == caller = "client" /\ Open({v \in {Lookup(World, p) : p \in Paths} : v.ok})

Release(g) ==
    /\ given' = given \ {g}
    /\ fhs' = IF ~FindHandle(g[1], g[2]) THEN fhs
              ELSE IF Len(fhs[g[1]]) > 1
                     THEN [fhs EXCEPT ![g[1]] = ReleaseHandle(@, g[2])]
                     ELSE Restrict(fhs, DOMAIN fhs \ {g[1]})
    /\ UNCHANGED <<caller, links, store, made, nodes, entry, fresh, nextfh, dead, moved, faults>>
FuseRelease == caller = "kernel" /\ \E g \in given : Release(g)
ClientClose == caller = "client" /\ \E g \in given : Release(g)

\* Taking a path away leaves numbers behind that lead elsewhere when the path is not
\* the one the client's caller named, or when a link is below it.
Strays(named, p) ==
    IF \/ caller = "client" /\ named # p
       \/ \E l \in links : IsPrefix(p, l) /\ p # l
      THEN {p} ELSE {}

\* Unlink and Rmdir: the storage, then the table, then the client's entry of the path.
Delete(targets, deletable) ==
    \E t \in targets :
        LET k == KeyIn(t.at.nodes, t.at.ino, t.name)
        IN  /\ Exists(k) /\ k \in deletable
            /\ Len(t.at.nodes) <= MaxNodes
            /\ store' = Without({k})
            /\ nodes' = RmChild(t.at.nodes, t.at.ino, t.name)
            /\ entry' = IF caller = "client" THEN Forget(t.at.entry, t.path) ELSE t.at.entry
            /\ fresh' = t.at.fresh
            /\ dead' = IF store[k] THEN dead \cup {Child(t.at.nodes, t.at.ino, t.name)} ELSE dead
            /\ moved' = moved \cup Strays(t.path, PathIn(t.at.nodes, t.at.ino, t.name))
            /\ UNCHANGED <<caller, links, made, fhs, given, nextfh, faults>>
PlainFiles == {k \in DOMAIN store : ~store[k]}
EmptyDirs == {k \in DOMAIN store : store[k] /\ Inside(k) = {k}}
FuseUnlink == Delete(FuseTargets, PlainFiles)
FuseRmdir == Delete(FuseTargets, EmptyDirs)
ClientUnlink == Delete(ClientTargets, PlainFiles)
ClientRmdir == Delete(ClientTargets, EmptyDirs)

\* Rename: within one storage; when the attributes of the new path cannot be read
\* the call fails after the storage has renamed, and the table keeps the old name.
RenameIn(w, p, n, q, m, named, forgets) ==
    LET k == KeyIn(w.nodes, p, n)
        j == KeyIn(w.nodes, q, m)
        old == PathIn(w.nodes, p, n)
    IN  /\ MayRename(k, j) /\ Len(w.nodes) < MaxNodes
        /\ Len(PathIn(w.nodes, q, m)) <= MaxDepth
        /\ \A x \in Inside(k) : Len(x.sub) - Len(k.sub) + Len(PathIn(w.nodes, q, m)) <= MaxDepth
        /\ store' = Renamed(k, j)
        /\ fresh' = w.fresh
        /\ \/ /\ nodes' = NewChild(RmChild(w.nodes, p, n), q, m, store[k], store[k])
              /\ moved' = moved \cup (IF store[k] THEN {old} ELSE Strays(named, old))
              /\ entry' = forgets /\ UNCHANGED faults
           \/ /\ faults < MaxFaults /\ faults' = faults + 1
              /\ moved' = moved \cup {old}
              /\ nodes' = w.nodes /\ entry' = w.entry
        /\ UNCHANGED <<caller, links, made, fhs, given, nextfh, dead>>

FuseRename ==
    \E s, t \in FuseTargets : RenameIn(World, s.at.ino, s.name, t.at.ino, t.name, <<>>, entry)
ClientRename ==
    /\ caller = "client"
    /\ \E old, new \in Paths \ {<<>>} :
          LET v == Lookup(World, DirName(old))
              w == Lookup(v, DirName(new))
          IN  /\ v.ok /\ w.ok
              /\ RenameIn(w, v.ino, Last(old), w.ino, Last(new), old, Forget(w.entry, old))

\* The attributes the client holds expire after ten seconds.
AttrExpires ==
    /\ caller = "client"
    /\ \E i \in fresh : fresh' = fresh \ {i}
    /\ UNCHANGED <<caller, links, store, made, nodes, entry, fhs, given, nextfh, dead, moved, faults>>

Init ==
    /\ caller \in {"kernel", "client"}
    /\ links \in {ls \in SUBSET LinkPaths : \A a, b \in ls : a # b => ~IsPrefix(a, b)}
    /\ store = [k \in {[ufs |-> u, sub |-> <<>>] : u \in links \cup {<<>>}} |-> TRUE]
    /\ made = 0 /\ nodes = <<Root>>
    /\ entry = <<>> /\ fresh = {}
    /\ fhs = <<>> /\ given = {} /\ nextfh = 1
    /\ dead = {} /\ moved = {} /\ faults = 0

Next ==
    \/ FuseLookup \/ FuseMkdir \/ FuseMknod \/ FuseCreate \/ FuseOpen \/ FuseRelease
    \/ FuseUnlink \/ FuseRmdir \/ FuseRename
    \/ ClientStat \/ ClientChmod \/ ClientMkdir \/ ClientCreate \/ ClientOpen \/ ClientClose
    \/ ClientUnlink \/ ClientRmdir \/ ClientRename \/ AttrExpires

Spec == Init /\ [][Next]_vars

(* ------------------------------ properties ------------------------------ *)

\* A name the table knows as a directory's can have children: otherwise NewChild
\* would write to a nil map and end the process.  It holds until numbers go astray:
\* operations in the node of a renamed directory act on the root.
DirectoriesHaveMaps ==
    moved = {} => \A i \in 1..Len(nodes) \ dead : \A n \in Names :
        LET c == Child(nodes, i, n)
        IN  c # 0 /\ DirAt(KeyOf(nodes, c)) => nodes[c].dir

\* An entry the client remembers resolves to the path it is remembered for, except
\* at or below a directory that was renamed, a path whose rename failed halfway, one
\* that was taken away with a link below it, or one taken away by another name.
EntriesResolve ==
    \A p \in DOMAIN entry :
        \/ InodeToPath(nodes, entry[p]) = p
        \/ \E d \in moved : IsPrefix(d, p)

\* The claim of fs.go:217: after a rename only the entry of the old path has to
\* be forgotten.  Entries below a renamed directory resolve elsewhere.
RenameForgetsEnough ==
    \A p \in DOMAIN entry : InodeToPath(nodes, entry[p]) = p

\* Every handle the caller holds is found under its node, and only once.
HandlesAreFound ==
    \A g \in given :
        /\ FindHandle(g[1], g[2])
        /\ Cardinality({x \in 1..Len(fhs[g[1]]) : fhs[g[1]][x] = g[2]}) = 1

\* What a directory lists is what a lookup in it finds: the names of its storage
\* and the links in it, unless the storage behind a link is gone.
Listed(p) ==
    LET k == GetUFS(p)
    IN  {Last(j.sub) : j \in {x \in DOMAIN store :
                x.ufs = k.ufs /\ Len(x.sub) = Len(k.sub) + 1 /\ IsPrefix(k.sub, x.sub)}}
        \cup (IF k.ufs # <<>> THEN {} ELSE {Last(l) : l \in {x \in links : DirName(x) = p}})
ListingMatchesLookup ==
    \A p \in Paths :
        Len(p) < MaxDepth /\ DirAt(GetUFS(p)) =>
            \A n \in Names :
                (n \in Listed(p)) <=>
                    Exists(GetUFS(Append(p, n))) \/ Append(p, n) \in links

\* The table, the entry cache and the listings agree with the storages, as far as
\* each of the three promises.
TreeIsSound == DirectoriesHaveMaps /\ EntriesResolve /\ ListingMatchesLookup

(* ----------------- the invariant behind the properties ------------------ *)

Astray(p) == \E d \in moved : IsPrefix(d, p)

\* Storages are trees, and a link is not below a link.
Keys == [ufs : links \cup {<<>>}, sub : Seq(Names)]
StoresAreTrees ==
    /\ links \subseteq Seq(Names) \ {<<>>} /\ \A a, b \in links : a # b => ~IsPrefix(a, b)
    /\ DOMAIN store \subseteq Keys
    /\ \A k \in DOMAIN store :
          /\ store[k] \in BOOLEAN
          /\ k.sub = <<>> => store[k]
          /\ k.sub # <<>> => DirAt(Parent(k))
    /\ Exists([ufs |-> <<>>, sub |-> <<>>])

\* A child knows its parent and its name.
Nodes ==
    [name : Names \cup {""}, parent : Nat, dir : BOOLEAN, folder : BOOLEAN,
     child : [Names -> Nat]]
TableIsTree(ns) ==
    /\ ns \in Seq(Nodes) /\ ns # <<>> /\ ns[1].parent = 0
    /\ \A i \in 1..Len(ns) :
          /\ ns[i].parent < i /\ (i # 1 => ns[i].name \in Names)
          /\ \A n \in Names :
                LET c == Child(ns, i, n)
                IN  c # 0 => c \in 1..Len(ns) /\ ns[c].parent = i /\ ns[c].name = n

\* What the client remembers is there, at the path its node resolves to.
EntriesLead(ns, en) ==
    \A p \in DOMAIN en :
        /\ p \in Seq(Names) /\ en[p] \in 1..Len(ns)
        /\ Astray(p) \/ (InodeToPath(ns, en[p]) = p /\ Exists(GetUFS(p)))

\* As long as nothing went astray, the nodes that the table leads to from the root
\* have each a path of their own, which exists; and only directories have children.
Attached(ns) ==
    {1} \cup {c \in 1..Len(ns) : ns[c].parent # 0 /\ Child(ns, ns[c].parent, ns[c].name) = c}
TableIsTidy(ns) ==
    /\ \A a, b \in Attached(ns) : InodeToPath(ns, a) = InodeToPath(ns, b) => a = b
    /\ \A c \in Attached(ns) : Exists(KeyOf(ns, c)) /\ ns[c].folder = store[KeyOf(ns, c)]
    /\ \A i \in 1..Len(ns) :
          /\ ns[i].child # NoChild => ns[i].folder /\ i \in Attached(ns)
          /\ ns[i].folder => ns[i].dir
CallersAreTidy(ns, en) ==
    /\ caller = "kernel" => \A i \in 1..Len(ns) \ dead : ns[i].folder => i \in Attached(ns)
    /\ caller = "client" =>
          /\ \A i \in 1..Len(ns) : ns[i].dir = ns[i].folder
          /\ \A p \in DOMAIN en :
                /\ ns[en[p]].folder => en[p] \in Attached(ns)
                /\ ns[en[p]].folder = store[GetUFS(p)]
Tidy(ns, en) == moved = {} => TableIsTidy(ns) /\ CallersAreTidy(ns, en)

\* The handles of a node differ, and the caller's are among them.
HandlesDiffer ==
    /\ nextfh \in Nat /\ given \subseteq Nat \X Nat
    /\ \A i \in DOMAIN fhs :
          /\ fhs[i] \in Seq(Nat)
          /\ \A x \in 1..Len(fhs[i]) :
                fhs[i][x] < nextfh /\ \A y \in 1..Len(fhs[i]) : fhs[i][x] = fhs[i][y] => x = y
    /\ \A g \in given : FindHandle(g[1], g[2])

ClientInv ==
    /\ caller \in {"kernel", "client"} /\ (caller = "kernel" => entry = <<>>)
    /\ moved \subseteq Seq(Names)
    /\ StoresAreTrees /\ TableIsTree(nodes) /\ EntriesLead(nodes, entry) /\ Tidy(nodes, entry)
    /\ HandlesDiffer
=============================================================================
