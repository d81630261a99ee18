------------------------------ MODULE Catalog ------------------------------
(***************************************************************************)
(* Clusters, the cache of their Kubernetes clients, the quota computed from *)
(* their nodes and pods (controller/cluster, models/cluster.go) and the     *)
(* pipeline templates (controller/pipeline, models/pipeline.go).  Requests  *)
(* interleave between their database calls and between the two writes of    *)
(* the client cache.                                                        *)
(***************************************************************************)
EXTENDS Integers, FiniteSets, FiniteSetsExt

CONSTANTS Names, Ids, Creds,    \* of clusters
          Contents,             \* pipeline files: a file has a name and a digest
          Threads, MaxRows, MaxRequests,
          Cpus, Mems            \* what nodes have and containers ask for: millicores, bytes

VARIABLES cluster,  \* key -> row of cluster_info, for the keys used so far
          client,   \* K8sClientMap: name -> the credential the client was made from
          credOf,   \* ClusterName2Credential
          pipeline, \* rows of the pipeline table
          req,      \* thread -> the request it serves
          begun, overlap,  \* requests so far; history: two were served at a time
          gone,     \* history: keys DeleteCluster() reported as deleted
          quota     \* the last quota computed, with what it was computed from

cvars == <<cluster, client, credOf, pipeline, req, begun, overlap, gone, quota>>

None == "none"
Idle == [op |-> "idle"]
Keys == DOMAIN cluster
Live(n) == {k \in Keys : cluster[k].name = n /\ ~cluster[k].deleted}
Name(c) == c.name
Digest(c) == c.md5

\* newQuota(): Quantity.Value() rounds milli-cores up to cores.
Cores(m) == -((-m) \div 1000)
NewQuota(r) == [cpu |-> Cores(r.cpu), mem |-> r.mem]
Sub(a, b) == [cpu |-> a.cpu - b.cpu, mem |-> a.mem - b.mem]
Add(a, b) == [cpu |-> a.cpu + b.cpu, mem |-> a.mem + b.mem]
Zero == [cpu |-> 0, mem |-> 0]
SumOf(s) == FoldSet(LAMBDA x, acc : Add(acc, x.q), Zero, s)

\* GetNodeQuotaList(): nodes that take no pods are left out; so are pods that
\* have ended.  A container is a record; the set keeps equal ones apart by `i'.
GetNodeQuotaList(nodes) ==
  LET use(n) == SumOf({[i |-> c.i, q |-> NewQuota(c)] : c \in {d \in n.containers : ~d.over}})
      node(n) == [i |-> n.i, total |-> NewQuota(n.has), idle |-> Sub(NewQuota(n.has), use(n))]
      list == {node(n) : n \in {m \in nodes : m.schedulable}}
  IN  [nodes |-> list,
       total |-> SumOf({[i |-> x.i, q |-> x.total] : x \in list}),
       idle |-> SumOf({[i |-> x.i, q |-> x.idle] : x \in list})]

NoQuota == [from |-> {}, is |-> GetNodeQuotaList({})]

Init ==
  /\ cluster = <<>> /\ client = [n \in Names |-> None] /\ credOf = [n \in Names |-> None]
  /\ pipeline = {} /\ req = [t \in Threads |-> Idle]
  /\ begun = 0 /\ overlap = FALSE /\ gone = {} /\ quota = NoQuota

Done(t) == req' = [req EXCEPT ![t] = Idle]
Step(t, r) == req' = [req EXCEPT ![t] = r]
At(t, op, n) == req[t].op = op /\ req[t].pc = n
NotCluster == <<client, credOf, pipeline, begun, overlap, quota>>

Begin(t) ==
  /\ req[t] = Idle /\ begun < MaxRequests /\ begun' = begun + 1
  /\ overlap' = (overlap \/ \E o \in Threads \ {t} : req[o] # Idle)
  /\ \/ \E n \in Names, i \in Ids, c \in Creds :
          Step(t, [op |-> "create", pc |-> 1, n |-> n, i |-> i, c |-> c])
     \/ \E n \in Names, i \in Ids \cup {None}, c \in Creds \cup {None} :
          Step(t, [op |-> "update", pc |-> 1, n |-> n, i |-> i, c |-> c])
     \/ \E n \in Names, op \in {"delete", "quota"} : Step(t, [op |-> op, pc |-> 1, n |-> n])
     \/ \E p \in Contents : Step(t, [op |-> "createPipeline", pc |-> 1, p |-> p])
  /\ quota' = NoQuota
  /\ UNCHANGED <<cluster, client, credOf, pipeline, gone>>

-----------------------------------------------------------------------------
\* models.CreateCluster(): the row's id is unique, deleted clusters keep theirs.
InsertCluster(i, n, c) ==
  IF Cardinality(Keys) = MaxRows \/ \E k \in Keys : cluster[k].id = i
  THEN UNCHANGED cluster
  ELSE cluster' = [k \in Keys \cup {Cardinality(Keys) + 1} |->
         IF k \in Keys THEN cluster[k]
         ELSE [id |-> i, name |-> n, cred |-> c, deleted |-> FALSE]]

\* validateCreateClusterRequest() trims and fills in defaults.
CreateCluster(t) ==
  /\ At(t, "create", 1) /\ Done(t) /\ InsertCluster(req[t].i, req[t].n, req[t].c)
  /\ UNCHANGED gone /\ UNCHANGED NotCluster

\* models.GetClusterByName(): First() takes the live row with the least key.
ReadCluster(t) ==
  /\ req[t].op \in {"update", "delete"} /\ req[t].pc = 1
  /\ IF Live(req[t].n) = {} THEN Done(t)
     ELSE LET k == Min(Live(req[t].n))
          IN  Step(t, [op |-> req[t].op, pc |-> 2, key |-> k, id |-> cluster[k].id,
                       row |-> IF req[t].op = "delete" THEN [cluster[k] EXCEPT !.deleted = TRUE]
                               ELSE [cluster[k] EXCEPT
                                       !.id = IF req[t].i = None THEN @ ELSE req[t].i,
                                       !.cred = IF req[t].c = None THEN @ ELSE req[t].c]])
  /\ UNCHANGED <<cluster, gone>> /\ UNCHANGED NotCluster

\* Mutant: Save(), with every column.
UpdatesAll(row, copy) == copy
\* models.UpdateCluster(): every column that is not zero in the copy, so a live
\* copy leaves deleted_at alone, where the id is still the one that was read.
Updates(row, copy) == [copy EXCEPT !.deleted = @ \/ row.deleted]
WriteCluster(t) ==
  /\ req[t].op \in {"update", "delete"} /\ req[t].pc = 2 /\ Done(t)
  /\ LET hit == {k \in Keys : cluster[k].id = req[t].id}
         clash == \E k \in Keys \ hit : cluster[k].id = req[t].row.id
     IN  /\ cluster' = IF clash THEN cluster
                       ELSE [k \in Keys |-> IF k \in hit THEN Updates(cluster[k], req[t].row)
                                                         ELSE cluster[k]]
         /\ gone' = IF req[t].op = "delete" /\ ~clash THEN gone \cup {req[t].key} ELSE gone
  /\ UNCHANGED NotCluster

-----------------------------------------------------------------------------
(* ListClusterQuota() for one cluster.  GetK8sClient() gives the cached     *)
(* client when its credential is the row's, else makes one and stores the   *)
(* client and the credential, one map after the other.                      *)
NotQuota == <<cluster, pipeline, begun, overlap, gone>>

GetK8sClient(t) ==
  /\ At(t, "quota", 1)
  /\ IF Live(req[t].n) = {} THEN Done(t)
     ELSE LET c == cluster[Min(Live(req[t].n))].cred
          IN  Step(t, [op |-> "quota", n |-> req[t].n, c |-> c,
                       pc |-> IF client[req[t].n] # None /\ credOf[req[t].n] = c THEN 4 ELSE 2])
  /\ UNCHANGED <<client, credOf, quota>> /\ UNCHANGED NotQuota

StoreClient(t) ==
  /\ At(t, "quota", 2) /\ Step(t, [req[t] EXCEPT !.pc = 3])
  /\ client' = [client EXCEPT ![req[t].n] = req[t].c]
  /\ UNCHANGED <<credOf, quota>> /\ UNCHANGED NotQuota

StoreCredential(t) ==
  /\ At(t, "quota", 3) /\ Step(t, [req[t] EXCEPT !.pc = 4])
  /\ credOf' = [credOf EXCEPT ![req[t].n] = req[t].c]
  /\ UNCHANGED <<client, quota>> /\ UNCHANGED NotQuota

Sizes == [cpu : Cpus, mem : Mems]
ListClusterQuota(t) ==
  /\ At(t, "quota", 4) /\ Done(t)
  /\ \E has \in Sizes, a, b \in Sizes, over, up \in BOOLEAN :
       LET nodes == {[i |-> 1, has |-> has, schedulable |-> TRUE, containers |->
                       {[i |-> 1, cpu |-> a.cpu, mem |-> a.mem, over |-> FALSE],
                        [i |-> 2, cpu |-> b.cpu, mem |-> b.mem, over |-> over]}],
                     [i |-> 2, has |-> has, schedulable |-> up, containers |-> {}]}
       IN  quota' = [from |-> nodes, is |-> GetNodeQuotaList(nodes)]
  /\ UNCHANGED <<client, credOf>> /\ UNCHANGED NotQuota

-----------------------------------------------------------------------------
NotPipeline == <<cluster, client, credOf, begun, overlap, gone, quota>>

\* validatePipeline(): the same content once per file system.
ValidatePipeline(t) ==
  /\ At(t, "createPipeline", 1)
  /\ IF \E p \in pipeline : Digest(p) = Digest(req[t].p) THEN Done(t)
     ELSE Step(t, [req[t] EXCEPT !.pc = 2])
  /\ UNCHANGED pipeline /\ UNCHANGED NotPipeline

\* models.CreatePipeline(): the insert and the id, in one transaction, under
\* the unique indexes idx_fs_name and idx_fs_md5.
InsertPipeline(new) ==
  pipeline' = IF \E p \in pipeline : Digest(p) = Digest(new) \/ Name(p) = Name(new)
              THEN pipeline ELSE pipeline \cup {new}

CreatePipeline(t) ==
  /\ At(t, "createPipeline", 2) /\ Done(t) /\ InsertPipeline(req[t].p)
  /\ UNCHANGED NotPipeline

DeletePipeline ==
  /\ \E p \in pipeline : pipeline' = pipeline \ {p}
  /\ UNCHANGED <<cluster, client, credOf, req, begun, overlap, gone, quota>>

Handlers(t) ==
  \/ CreateCluster(t) \/ ReadCluster(t) \/ WriteCluster(t)
  \/ GetK8sClient(t) \/ StoreClient(t) \/ StoreCredential(t) \/ ListClusterQuota(t)
  \/ ValidatePipeline(t) \/ CreatePipeline(t)
Next == (\E t \in Threads : Begin(t) \/ Handlers(t)) \/ DeletePipeline
Spec == Init /\ [][Next]_cvars

-----------------------------------------------------------------------------
\* A deleted cluster never comes back, not even when an update that read it
\* before writes its copy after the deletion (UpdateCluster(), DeleteCluster()).
DeletedStaysDeleted ==
  [][\A k \in Keys : cluster[k].deleted => cluster'[k].deleted]_cvars

\* With one request at a time a deletion that is reported has taken effect, and
\* the cached client is the one of the cached credential (GetK8sClient()).
OneByOne ==
  ~overlap => /\ \A k \in gone : cluster[k].deleted
              /\ \A n \in Names : (\A t \in Threads : req[t] = Idle) => client[n] = credOf[n]

\* What the cached credential says of the cached client, requests overlapping.
ClientIsCurrent ==
  (\A t \in Threads : req[t] = Idle) => \A n \in Names : client[n] = credOf[n]

\* What containers ask for, in millicores.
Asked(s) == FoldSet(LAMBDA c, acc : [cpu |-> acc.cpu + c.cpu, mem |-> acc.mem + c.mem], Zero, s)

\* The idle resources of a node that takes pods: memory is exact, and cores are
\* never overstated by a whole core, though every request is rounded up.
QuotaIsHonest ==
  \A n \in quota.from : n.schedulable =>
    \E x \in quota.is.nodes :
      LET asked == Asked({c \in n.containers : ~c.over})
      IN  /\ x.i = n.i /\ x.idle.mem = n.has.mem - asked.mem
          /\ x.idle.cpu * 1000 < n.has.cpu - asked.cpu + 1000
          /\ quota.is.idle.mem <= quota.is.total.mem

\* Two requests may both find no pipeline of their content or name: the table
\* still holds one row per content and one per name.
PipelinesAreUnique ==
  \A p, q \in pipeline : Digest(p) = Digest(q) \/ Name(p) = Name(q) => p = q

\* What the tables, the client cache and the quota promise together.
CatalogIsSound == OneByOne /\ QuotaIsHonest /\ PipelinesAreUnique

-----------------------------------------------------------------------------
(* The invariant behind OneByOne *)

Row == [id : Ids, name : Names, cred : Creds, deleted : BOOLEAN]
Requests ==
  {Idle} \cup [op : {"create"}, pc : {1}, n : Names, i : Ids, c : Creds]
  \cup [op : {"update"}, pc : {1}, n : Names, i : Ids \cup {None}, c : Creds \cup {None}]
  \cup [op : {"update", "delete"}, pc : {2}, key : Nat, id : Ids, row : Row]
  \cup [op : {"delete", "quota"}, pc : {1}, n : Names]
  \cup [op : {"quota"}, pc : {2, 3, 4}, n : Names, c : Creds]
  \cup [op : {"createPipeline"}, pc : {1, 2}, p : Contents]

\* Keys are given out in order and never taken back.
TypeOK ==
  /\ \E m \in Nat : cluster \in [1..m -> Row]
  /\ client \in [Names -> Creds \cup {None}] /\ credOf \in [Names -> Creds \cup {None}]
  /\ req \in [Threads -> Requests] /\ overlap \in BOOLEAN

\* No two requests are served at a time.
Alone == \A t, o \in Threads : t # o => req[t] = Idle \/ req[o] = Idle
\* A deletion is still to write the row it read, which has not changed since.
DeletesItsRow ==
  \A t \in Threads : At(t, "delete", 2) =>
    /\ req[t].key \in Keys /\ cluster[req[t].key].id = req[t].id
    /\ req[t].row.id = req[t].id /\ req[t].row.deleted
\* A client without its credential has one on its way, from the request that made it.
ClientOnItsWay ==
  /\ \A t \in Threads : At(t, "quota", 3) => client[req[t].n] = req[t].c
  /\ \A n \in Names : client[n] = credOf[n] \/ \E t \in Threads : At(t, "quota", 3) /\ req[t].n = n

OneByOneInv ==
  ~overlap => /\ Alone /\ DeletesItsRow /\ ClientOnItsWay
              /\ \A k \in gone : k \in Keys /\ cluster[k].deleted

CatalogInv == TypeOK /\ OneByOneInv /\ QuotaIsHonest /\ PipelinesAreUnique
=============================================================================
