--------------------------- MODULE MCFileSystems ----------------------------
(****************************************************************************)
(* File systems as the server and its clients see them: the server's        *)
(* records of file systems, links and claims; the FUSE file system with its *)
(* inodes and handles; the cache of blocks that have been read; and the     *)
(* operations on whole trees. Each behaviour is one of them, chosen at the  *)
(* start.                                                                   *)
(****************************************************************************)
EXTENDS Integers, Sequences, TLC

CONSTANTS
  Ids, Sources, Namespaces, ServerLinks, Dirs, MaxRequests, Names,
  LinkPaths, MaxNodes, MaxObjects, MaxHandles, Files, Readers, Blocks,
  MaxVersion, MaxIds, MaxReads, Threads, MaxTree, MaxOps, MaxDepth,
  MaxFaults

VARIABLES
  which,   \* the component that runs; its variables are the only ones in use
  fs, grant, pv, pvc, link, meta, lock, req, begun, faults, overlap,
  deleted, tenants, muddled, caller, links, store, made, nodes, entry, fresh, fhs,
  given, nextfh, dead, moved, buffered, content, written, nextId, tiers,
  cache, fills, reader, writer, reads, flushed, late, stray, tree, stack,
  ret, ops, goal, undone

S == INSTANCE FileServer WITH LinkPaths <- ServerLinks
F == INSTANCE FileClient
R == INSTANCE ReadCache
T == INSTANCE ClientTree

all ==
  <<which,
    fs, grant, pv, pvc, link, meta, lock, req, begun, faults, overlap,
    deleted, tenants, muddled, caller, links, store, made, nodes, entry, fresh, fhs,
    given, nextfh, dead, moved, buffered, content, written, nextId, tiers,
    cache, fills, reader, writer, reads, flushed, late, stray, tree, stack,
    ret, ops, goal, undone>>

\* What the other components' variables hold.
Off == "off"

WithoutFileServer ==
  <<caller, links, store, made, nodes, entry, fresh, fhs, given, nextfh,
    dead, moved, buffered, content, written, nextId, tiers, cache, fills,
    reader, writer, reads, flushed, late, stray, tree, stack, ret, ops,
    goal, undone>>

WithoutFileClient ==
  <<fs, grant, pv, pvc, link, meta, lock, req, begun, overlap, deleted, tenants,
    muddled, buffered, content, written, nextId, tiers, cache, fills,
    reader, writer, reads, flushed, late, stray, tree, stack, ret, ops,
    goal, undone>>

WithoutReadCache ==
  <<fs, grant, pv, pvc, link, lock, req, begun, faults, overlap, deleted, tenants,
    muddled, caller, links, store, made, nodes, entry, fresh, fhs, given,
    nextfh, dead, moved, tree, stack, ret, ops, goal, undone>>

WithoutClientTree ==
  <<fs, grant, pv, pvc, link, meta, lock, req, begun, overlap, deleted, tenants,
    muddled, caller, links, store, made, nodes, entry, fresh, fhs, given,
    nextfh, dead, moved, buffered, content, written, nextId, tiers, cache,
    fills, reader, writer, reads, flushed, late, stray>>

Init ==
  \/ /\ which = "server" /\ S!Init
     /\ caller = Off /\ links = Off /\ store = Off /\ made = Off
     /\ nodes = Off /\ entry = Off /\ fresh = Off /\ fhs = Off
     /\ given = Off /\ nextfh = Off /\ dead = Off /\ moved = Off
     /\ buffered = Off /\ content = Off /\ written = Off /\ nextId = Off
     /\ tiers = Off /\ cache = Off /\ fills = Off /\ reader = Off
     /\ writer = Off /\ reads = Off /\ flushed = Off /\ late = Off
     /\ stray = Off /\ tree = Off /\ stack = Off /\ ret = Off /\ ops = Off
     /\ goal = Off /\ undone = Off
  \/ /\ which = "client" /\ F!Init
     /\ fs = Off /\ grant = Off /\ pv = Off /\ pvc = Off /\ link = Off
     /\ meta = Off /\ lock = Off /\ req = Off /\ begun = Off
     /\ overlap = Off /\ deleted = Off /\ tenants = Off /\ muddled = Off /\ buffered = Off
     /\ content = Off /\ written = Off /\ nextId = Off /\ tiers = Off
     /\ cache = Off /\ fills = Off /\ reader = Off /\ writer = Off
     /\ reads = Off /\ flushed = Off /\ late = Off /\ stray = Off
     /\ tree = Off /\ stack = Off /\ ret = Off /\ ops = Off /\ goal = Off
     /\ undone = Off
  \/ /\ which = "cache" /\ R!Init
     /\ fs = Off /\ grant = Off /\ pv = Off /\ pvc = Off /\ link = Off
     /\ lock = Off /\ req = Off /\ begun = Off /\ faults = Off
     /\ overlap = Off /\ deleted = Off /\ tenants = Off /\ muddled = Off /\ caller = Off
     /\ links = Off /\ store = Off /\ made = Off /\ nodes = Off
     /\ entry = Off /\ fresh = Off /\ fhs = Off /\ given = Off
     /\ nextfh = Off /\ dead = Off /\ moved = Off /\ tree = Off
     /\ stack = Off /\ ret = Off /\ ops = Off /\ goal = Off /\ undone = Off
  \/ /\ which = "tree" /\ T!Init
     /\ fs = Off /\ grant = Off /\ pv = Off /\ pvc = Off /\ link = Off
     /\ meta = Off /\ lock = Off /\ req = Off /\ begun = Off
     /\ overlap = Off /\ deleted = Off /\ tenants = Off /\ muddled = Off /\ caller = Off
     /\ links = Off /\ store = Off /\ made = Off /\ nodes = Off
     /\ entry = Off /\ fresh = Off /\ fhs = Off /\ given = Off
     /\ nextfh = Off /\ dead = Off /\ moved = Off /\ buffered = Off
     /\ content = Off /\ written = Off /\ nextId = Off /\ tiers = Off
     /\ cache = Off /\ fills = Off /\ reader = Off /\ writer = Off
     /\ reads = Off /\ flushed = Off /\ late = Off /\ stray = Off

Next ==
  \/ which = "server" /\ S!Next /\ UNCHANGED <<which, WithoutFileServer>>
  \/ which = "client" /\ F!Next /\ UNCHANGED <<which, WithoutFileClient>>
  \/ which = "cache" /\ R!Next /\ UNCHANGED <<which, WithoutReadCache>>
  \/ which = "tree" /\ T!Next /\ UNCHANGED <<which, WithoutClientTree>>

\* The two parts of a path that mean something to FileServer.
Blank == 0
Root == -1
ASSUME PartsAssumption == Blank = S!Blank /\ Root = S!Root

\* Asked for: "/1" of one HDFS, plain, with Kerberos and spelled "//1", "/1/2", and a
\* mock; the handlers refuse the mock in "/root" and the HDFS without a group.
Kerberos == {"keytab", "principal", "protection", "kdc", "namenode", "realm"}
Hdfs(dir, keys) ==
  [kind |-> "hdfs", host |-> 1, bucket |-> 0, dir |-> dir, whole |-> TRUE, given |-> keys]
Mock(dir) ==
  [kind |-> "mock", host |-> 0, bucket |-> 0, dir |-> dir, whole |-> TRUE,
   given |-> {"pvc", "namespace"}]
HdfsAndMock ==
  {Hdfs(<<Blank, 1>>, {"user", "group"}), Hdfs(<<Blank, 1, 2>>, {"user", "group"}),
   Hdfs(<<Blank, Blank, 1>>, {"user", "group"}), Hdfs(<<Blank, 1>>, Kerberos),
   Hdfs(<<Blank, 2>>, {"user"}), Mock(<<Blank, 1>>), Mock(<<Blank, Root, 1>>)}

\* Links at "/1", also spelled "1", at "/1/2" below it, and at "/2/1" in no
\* directory, which is refused; two namespaces; a link in a directory.
Nested == {<<Blank, 1>>, <<1>>, <<Blank, 1, 2>>, <<Blank, 2, 1>>}
OneDir == {<<Blank>>, <<Blank, 1>>}
CONSTANTS n1, n2
TwoNamespaces == <<n1, n2>>
OneLink == {<<"a", "b">>}

Alike == Permutations(Files) \cup Permutations(Threads) \cup Permutations(Ids)

Spec == Init /\ [][Next]_all

ASSUME NobodyAssumption == S!Nobody \notin Threads
ASSUME NamespacesAssumption ==
  Namespaces \in Seq({Namespaces[n] : n \in DOMAIN Namespaces}) /\ Namespaces # <<>>

ASSUME DepthAssumption == MaxDepth \in Nat

\* A link at the root itself matches no path (default.go:80).
ASSUME LinksAssumption == LinkPaths \subseteq Seq(Names) \ {<<>>}

-----------------------------------------------------------------------------
(* Properties *)

\* The file systems of a storage, and the links of each, lead to separate
\* directories, requests one at a time and paths spelled plainly (checkFsDir()).
SourcesAreDisjoint == which = "server" => S!SourcesAreDisjoint

\* The links file in a directory ends up with the links of its file system: however
\* requests overlap for the first one there, else as soon as it has links; and no
\* link outlives its file system (PersistLinksMeta()).
LinksAreKept == which = "server" => S!LinksAreKept

\* A claim has its file system, and its volume names the right owner
\* (CreateFileSystemClaims(), deletePVC()).
ClaimsAreSound == which = "server" => S!ClaimsAreSound

\* The kernel's view and the client's agree, whatever is looked up, removed and
\* forgotten, and whatever is renamed but for the entries below a directory renamed
\* while the kernel holds them: a directory lists what a lookup in it finds, an entry
\* leads to its node, and an open file's handle is found exactly once (inode.go,
\* handle.go).
ClientIsSound == which = "client" => F!TreeIsSound /\ F!HandlesAreFound

\* A read gets the file's own data, no older than the last Flush that was
\* answered, whatever the two tiers hold (cache.go).
ReadsAreRight == which = "cache" => R!ReadsAreRight

\* RemoveAll() that answers without an error has removed the path, also when a Stat,
\* a first Remove or a listing failed; it has not if somebody made something on or
\* below the path meanwhile, or if a last Remove failed, whose error the code drops.
\* MkdirAll() only fails if a file is in the way, if its Mkdir or the Stat after that
\* failed, or if somebody removed a directory on the path (pfs_client.go).
AnswersAreTrue ==
  [][which = "tree" =>
       \A t \in Threads :
         /\ T!Answers(t, "removeall", "ok") => goal[t].path \notin DOMAIN tree'
         /\ T!Answers(t, "mkdirall", "err") =>
              \E n \in 1..Len(goal[t].path) :
                T!Stat(SubSeq(goal[t].path, 1, n)) = "file"]_all
=============================================================================
