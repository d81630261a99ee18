------------------------------ MODULE Listing ------------------------------
(***************************************************************************)
(* The list requests of the API server and a client that follows their     *)
(* markers from page to page while other requests insert and delete rows.  *)
(* Runs, run caches, artifact events, pipelines, clusters, queues, users   *)
(* and grants are paged by primary key, by queries that ask for no order;  *)
(* file systems and links by creation time, with a marker cut to seconds.  *)
(* The handlers share one shape, written once (QueryRows, QueryFails,      *)
(* IsLastPk), and differ in who may list what, which is written per kind.  *)
(***************************************************************************)
EXTENDS Naturals, Sequences, FiniteSets, SequencesExt

CONSTANTS Root, Users, Tags,
          MaxRows,   \* bound on the rows ever inserted
          MaxGrants, \* bound on the rows of the grant table
          MaxTime,   \* bound on the clock
          Limits,    \* page sizes the clients ask for; 0: none
          MaxErrors  \* bound on failing queries

VARIABLES kind,    \* the table this behaviour lists
          rows,    \* its rows: pk, owner, tag, and the time they were made
          granted, \* the grant table: who was granted which queue, and as what
          made,    \* rows inserted so far: the auto-increment key
          now,     \* the clock, finer than a second
          client,  \* the request being served, and what its client got so far
          kept,    \* history: rows there ever since the client began
          errors   \* queries that failed so far

lvars == <<kind, rows, granted, made, now, client, kept, errors>>

OwnKinds == {"run", "runCache", "artifactEvent", "pipeline"}
RootKinds == {"cluster", "user", "grant"}
TimeKinds == {"fs", "link"}
Kinds == OwnKinds \cup RootKinds \cup TimeKinds \cup {"queue"}
Callers == Users \cup {Root}

Idle == [pc |-> "idle"]

\* common/encrypt.go: the client gets the last key of a page sealed, and can only
\* send back what it got.
NoMarker == [sealed |-> 0]
EncryptPk(k) == [sealed |-> k]
DecryptPk(m) == m.sealed

\* A time formatted as 2006-01-02 15:04:05: the second it lies in, here of two
\* moments.
Second(t) == t - (t % 2)

Init ==
  /\ kind \in Kinds /\ rows = {} /\ granted = {} /\ made = 0 /\ now = 0
  /\ client = Idle /\ kept = {} /\ errors = 0

-----------------------------------------------------------------------------
(* Other requests.  A row of the user table is its own owner.  No two rows  *)
(* are made at one moment, and a queue's name, for which its key stands, is *)
(* not used again.                                                          *)
Insert ==
  \E o \in Callers, g \in Tags :
    /\ made < MaxRows
    /\ made' = made + 1 /\ now' = now + 1
    /\ rows' = rows \cup {[pk |-> made + 1, owner |-> o, tag |-> g, time |-> now + 1]}
    /\ UNCHANGED <<kind, granted, client, kept, errors>>

\* DeleteQueue() deletes the grants of the queue with it.
Delete ==
  \E r \in rows :
    /\ rows' = rows \ {r} /\ kept' = kept \ {r.pk}
    /\ granted' = {g \in granted : g.queue # r.pk \/ g.type # "queue"}
    /\ UNCHANGED <<kind, made, now, client, errors>>

Tick ==
  /\ kind \in TimeKinds /\ now < MaxTime /\ now' = now + 1
  /\ UNCHANGED <<kind, rows, granted, made, client, kept, errors>>

\* A grant names its resource; a file system may have the name of a queue.
GrantTypes == {"queue", "fs"}
CreateGrant ==
  \E r \in rows, u \in Users, ty \in GrantTypes :
    /\ kind = "queue" /\ Cardinality(granted) < MaxGrants
    /\ granted' = granted \cup {[queue |-> r.pk, user |-> u, type |-> ty]}
    /\ UNCHANGED <<kind, rows, made, now, client, kept, errors>>

GrantsOf(table, u, r) == {g \in table : g.queue = r.pk /\ g.user = u}
\* A queue listed for others than root is one they have a grant of.
Entitled(table, u, r) == kind = "queue" /\ u # Root => GrantsOf(table, u, r) # {}

DeleteGrant ==
  \E g \in granted :
    /\ granted' = granted \ {g}
    /\ kept' = {r.pk : r \in {q \in rows :
                  q.pk \in kept /\ (client # Idle => Entitled(granted', client.caller, q))}}
    /\ UNCHANGED <<kind, rows, made, now, client, errors>>

-----------------------------------------------------------------------------
(* The routers: what the client may ask for.  An empty filter is no filter, *)
(* and not every listing has both.                                          *)
UserFilters == {{}} \cup {{o} : o \in IF kind \in OwnKinds \cup {"grant"} THEN Callers ELSE {}}
TagFilters == {{}} \cup {{g} : g \in IF kind \in {"user", "grant", "link"} THEN {} ELSE Tags}
Ask(callers, limits) ==
  \E u \in callers, n \in limits, us \in UserFilters, gs \in TagFilters :
    /\ client = Idle
    /\ client' = [pc |-> "query", caller |-> u, limit |-> n, users |-> us, tags |-> gs,
                  marker |-> NoMarker, got |-> <<>>, page |-> <<>>,
                  lied |-> FALSE, ordered |-> TRUE, cuts |-> {}]
    /\ kept' = {r.pk : r \in {q \in rows : Entitled(granted, u, q)}}
    /\ UNCHANGED <<kind, rows, granted, made, now, errors>>

Positive == Limits \ {0}
RouterListRun == kind = "run" /\ Ask(Callers, Positive)
RouterListPipeline == kind = "pipeline" /\ Ask(Callers, Positive)
RouterListRunCache == kind = "runCache" /\ Ask(Callers, Positive)
RouterListArtifactEvent == kind = "artifactEvent" /\ Ask(Callers, Positive)
RouterListCluster == kind = "cluster" /\ Ask({Root}, Limits)
RouterListQueue == kind = "queue" /\ Ask(Callers, Limits)
RouterListUser == kind = "user" /\ Ask({Root}, Limits)
RouterListGrant == kind = "grant" /\ Ask({Root}, Limits)
\* MaxKeys 0 becomes the default, so that there is always a limit.  The caller is
\* the user the request names, or else the one who sends it.
RouterListFs == kind = "fs" /\ Ask(Callers, Positive)
RouterGetLink == kind = "link" /\ Ask(Callers, Positive)

-----------------------------------------------------------------------------
(* The queries of the models.  Each finds hits: rows, and in a join with    *)
(* the grant table a row once for each grant.                               *)
NoGrant == [queue |-> 0]
Hits(set) == {[row |-> r, by |-> NoGrant] : r \in set}
RowsOf(hits) == {h.row : h \in hits}
Match(users, tags) ==
  {r \in rows : (users = {} \/ r.owner \in users) /\ (tags = {} \/ r.tag \in tags)}
PkPage(hits) == {h \in hits : h.row.pk > DecryptPk(client.marker)}

\* A caller other than root sees its own rows, whatever filter it sends.
OwnOnly == IF client.caller = Root THEN client.users ELSE {client.caller}

ListRun == PkPage(Hits(Match(OwnOnly, client.tags)))
ListPipeline == PkPage(Hits(Match(OwnOnly, client.tags)))
ListRunCache == PkPage(Hits(Match(OwnOnly, client.tags)))
ListArtifactEvent == PkPage(Hits(Match(OwnOnly, client.tags)))
ListCluster == PkPage(Hits(Match({}, client.tags)))
ListUser == PkPage(Hits({r \in rows : r.owner # Root}))
ListGrant == PkPage(Hits(Match(client.users, {})))
\* The join is on the name alone, whatever type the grant is of.
ListQueue ==
  PkPage(IF client.caller = Root THEN Hits(Match({}, client.tags))
         ELSE UNION {{[row |-> r, by |-> g] : g \in GrantsOf(granted, client.caller, r)} :
                       r \in Match({}, client.tags)})
\* The first page starts at the current second.
TimeMarker == IF client.marker = NoMarker THEN Second(now) ELSE client.marker.time
ListFileSystem ==
  Hits({r \in Match(IF client.caller = Root THEN {} ELSE {client.caller}, client.tags) :
          r.time <= TimeMarker})
ListLink == Hits({r \in rows : r.time <= TimeMarker})

ModelList ==
  CASE kind = "run" -> ListRun [] kind = "pipeline" -> ListPipeline
    [] kind = "runCache" -> ListRunCache [] kind = "artifactEvent" -> ListArtifactEvent
    [] kind = "cluster" -> ListCluster [] kind = "user" -> ListUser
    [] kind = "grant" -> ListGrant [] kind = "queue" -> ListQueue
    [] kind = "fs" -> ListFileSystem [] kind = "link" -> ListLink

\* What the database may answer to a query with a limit and without ORDER BY: as
\* many hits as the limit allows, whichever and in whatever order.
PageSize(hits, n) == IF n = 0 \/ n > Cardinality(hits) THEN Cardinality(hits) ELSE n
Answers(hits, n) == {s \in [1..PageSize(hits, n) -> hits] : IsInjective(s)}
RowsIn(s) == [i \in DOMAIN s |-> s[i].row]

\* The answer happens to be the one ORDER BY pk would give.
InKeyOrder(p, set) ==
  /\ \A i, j \in DOMAIN p : i < j => p[i].pk <= p[j].pk
  /\ \A r \in set : (\E i \in DOMAIN p : p[i] = r) \/ (p # <<>> /\ r.pk > Last(p).pk)
\* ORDER BY created_at DESC.
NewestFirst(p, set) ==
  /\ \A i, j \in DOMAIN p : i < j => p[i].time > p[j].time
  /\ \A r \in set : (\E i \in DOMAIN p : p[i] = r) \/ (p # <<>> /\ r.time < Last(p).time)

-----------------------------------------------------------------------------
(* The controllers.  A handler asks the model for a page; when the query    *)
(* fails it refuses the request, or logs the error and answers an empty     *)
(* page.                                                                    *)
QueryRows(k) ==
  /\ client.pc = "query" /\ kind = k
  /\ \E s \in Answers(ModelList, client.limit) :
       client' = [client EXCEPT !.page = RowsIn(s), !.pc = IF s = <<>> THEN "done" ELSE "last",
                                !.ordered = @ /\ InKeyOrder(RowsIn(s), RowsOf(ModelList))]
  /\ UNCHANGED <<kind, rows, granted, made, now, kept, errors>>

QueryFails(k, answer) ==
  /\ client.pc = "query" /\ kind = k /\ errors < MaxErrors
  /\ errors' = errors + 1 /\ client' = answer
  /\ UNCHANGED <<kind, rows, granted, made, now, kept>>
Refused == Idle
EmptyPage == [client EXCEPT !.pc = "done", !.lied = TRUE]

HandleListRun == QueryRows("run") \/ QueryFails("run", EmptyPage)
HandleListPipeline == QueryRows("pipeline") \/ QueryFails("pipeline", Refused)
HandleListRunCache == QueryRows("runCache") \/ QueryFails("runCache", EmptyPage)
HandleListArtifactEvent == QueryRows("artifactEvent") \/ QueryFails("artifactEvent", EmptyPage)
HandleListCluster == QueryRows("cluster") \/ QueryFails("cluster", Refused)
HandleListUser == QueryRows("user") \/ QueryFails("user", Refused)
HandleListGrant == QueryRows("grant") \/ QueryFails("grant", EmptyPage)
HandleListQueue == QueryRows("queue") \/ QueryFails("queue", EmptyPage)

PageKeys(s) == [i \in DOMAIN s |-> s[i].pk]

\* models.GetLast...(): the row with the greatest key; a failing query gives a
\* row without a key.
GetLast(fails) == IF fails \/ rows = {} THEN 0 ELSE Max({r.pk : r \in rows})
\* Mutant: off by one, a page never has more rows than the limit.
TruncatedByLength(fails) == Len(client.page) > client.limit
\* IsLast...Pk(), a second query: any marker but the last row's key says that
\* there is more.
Truncated(fails) == GetLast(fails) # Last(client.page).pk
IsLastPk(k) ==
  /\ client.pc = "last" /\ kind = k
  /\ \E fails \in BOOLEAN :
       /\ fails => errors < MaxErrors
       /\ errors' = IF fails THEN errors + 1 ELSE errors
       /\ client' = [client EXCEPT
            !.got = @ \o PageKeys(client.page), !.page = <<>>,
            !.marker = EncryptPk(Last(client.page).pk),
            !.pc = IF Truncated(fails) THEN "query" ELSE "done"]
  /\ UNCHANGED <<kind, rows, granted, made, now, kept>>
IsLastRunPk == IsLastPk("run")
IsLastPipelinePk == IsLastPk("pipeline")
IsLastRunCachePk == IsLastPk("runCache")
IsLastArtifactEventPk == IsLastPk("artifactEvent")
IsLastClusterPk == IsLastPk("cluster")
IsLastUserPk == IsLastPk("user")
IsLastGrantPk == IsLastPk("grant")
IsLastQueuePk == IsLastPk("queue")

\* FileSystemService.ListFileSystem(), LinkService.GetLink(): one row more than a
\* page is asked for; it is cut off, and the second it was made in is the marker.
QueryTimed ==
  /\ client.pc = "query" /\ kind \in TimeKinds
  /\ \E s \in Answers(ModelList, client.limit + 1) :
       LET p == RowsIn(s)
           cut == Second(Last(p).time)
       IN  /\ NewestFirst(p, RowsOf(ModelList))
           /\ client' = IF Len(p) > client.limit
                        THEN [client EXCEPT !.got = @ \o PageKeys(Front(p)), !.marker = [time |-> cut],
                                            !.cuts = @ \cup {TimeMarker, cut}]
                        ELSE [client EXCEPT !.got = @ \o PageKeys(p), !.pc = "done",
                                            !.cuts = @ \cup {TimeMarker}]
  /\ UNCHANGED <<kind, rows, granted, made, now, kept, errors>>

HandleListFs == QueryTimed \/ QueryFails("fs", Refused) \/ QueryFails("link", Refused)

\* The client starts over.
Restart ==
  /\ client.pc = "done" /\ client' = Idle
  /\ UNCHANGED <<kind, rows, granted, made, now, kept, errors>>

Routers ==
  \/ RouterListRun \/ RouterListPipeline \/ RouterListRunCache \/ RouterListArtifactEvent
  \/ RouterListCluster \/ RouterListQueue \/ RouterListUser \/ RouterListGrant
  \/ RouterListFs \/ RouterGetLink

Handlers ==
  \/ HandleListRun \/ HandleListPipeline \/ HandleListRunCache \/ HandleListArtifactEvent
  \/ HandleListCluster \/ HandleListUser \/ HandleListGrant \/ HandleListQueue
  \/ IsLastRunPk \/ IsLastPipelinePk \/ IsLastRunCachePk \/ IsLastArtifactEventPk
  \/ IsLastClusterPk \/ IsLastUserPk \/ IsLastGrantPk \/ IsLastQueuePk

Others == Insert \/ Delete \/ Tick \/ CreateGrant \/ DeleteGrant
Next == Others \/ Routers \/ Handlers \/ HandleListFs \/ Restart
Spec == Init /\ [][Next]_lvars

-----------------------------------------------------------------------------
\* What the client may see of a row.  What it sees of the queues is what was
\* granted to it then, which may have been taken back since.
MaySee(r) ==
  CASE kind \in OwnKinds -> r.owner \in OwnOnly \/ OwnOnly = {}
    [] kind = "fs" -> client.caller \in {Root, r.owner}
    [] kind = "user" -> r.owner # Root
    [] kind = "grant" -> client.users = {} \/ r.owner \in client.users
    [] OTHER -> TRUE
Wanted(r) == MaySee(r) /\ (kind \in {"user", "grant", "link"} \/ client.tags = {} \/ r.tag \in client.tags)

\* The row was made in the second of a marker: created_at <= that second may leave
\* it out.
Blurred(r) == kind \in TimeKinds /\ Second(r.time) \in client.cuts
\* A row comes once for each grant of the caller.
Joined == kind = "queue" /\ client.caller # Root

\* A client that is told there is nothing more has seen every row it asked for
\* that was there, and granted, all the time, whatever was inserted or deleted
\* between its pages.  Not when a query failed and the handler answered an empty
\* page for it, nor when the database gave a page out of the order of the keys,
\* which no query asks it to keep, nor for a row made in the second of a marker.
PagesAreComplete ==
  client.pc = "done" /\ ~client.lied /\ client.ordered
    => \A r \in rows : r.pk \in kept /\ Wanted(r) /\ ~Blurred(r) => Contains(client.got, r.pk)

\* No row is handed out twice, but by the join and again out of order; and none
\* that its caller may not see.
PagesAreExact ==
  client # Idle =>
    /\ client.ordered /\ ~Joined => IsInjective(client.got)
    /\ \A r \in rows : Contains(client.got, r.pk) => MaySee(r)

\* Both, for all ten listings.
PagesAreRight == PagesAreComplete /\ PagesAreExact

-----------------------------------------------------------------------------
(* The invariant behind PagesAreRight *)

Row(n) == [pk : 1..n, owner : Callers, tag : Tags, time : Nat]
ClientType ==
  [pc : {"query", "last", "done"}, caller : Callers, limit : Limits, users : SUBSET Callers,
   tags : SUBSET Tags, marker : [sealed : Nat] \cup [time : Nat], got : Seq(1..made),
   page : Seq(Row(made)), lied : BOOLEAN, ordered : BOOLEAN, cuts : SUBSET Nat]
TypeOK ==
  /\ kind \in Kinds /\ made \in Nat /\ now \in Nat /\ rows \subseteq Row(made)
  /\ \A r \in rows : r.time <= now
  /\ \A r, q \in rows : r.pk = q.pk \/ r.time = q.time => r = q
  /\ kept \subseteq {r.pk : r \in rows} /\ IsFiniteSet(granted) /\ client \in ClientType \cup {Idle}
  /\ client # Idle => \A r \in rows : r.pk \in kept => Entitled(granted, client.caller, r)

Waits(r) == r.pk \in kept /\ Wanted(r)
Got(k) == \E i \in DOMAIN client.got : client.got[i] = k
OnPage(k) == \E i \in DOMAIN client.page : client.page[i].pk = k
Rising(s) == \A i, j \in DOMAIN s : i < j => s[i] < s[j]

\* Nobody gets what it may not see, now or once the page is handed out.
RightsInv == client # Idle => \A r \in rows : Got(r.pk) \/ OnPage(r.pk) => MaySee(r)

\* By primary key, in order: what was handed out lies up to the marker, the page
\* beyond it, and nothing is left out up to the last of them.
PkInv ==
  client # Idle /\ kind \notin TimeKinds =>
    /\ client.pc # "done" => client.marker \in [sealed : Nat]
    /\ client.pc = "last" => client.page # <<>>
    /\ client.ordered =>
         /\ ~Joined => Rising(client.got) /\ Rising(PageKeys(client.page))
         /\ client.pc # "done" => \A i \in DOMAIN client.got : client.got[i] <= client.marker.sealed
         /\ client.pc = "query" =>
              \A r \in rows : Waits(r) /\ r.pk <= client.marker.sealed => Got(r.pk)
         /\ client.pc = "last" =>
              /\ \A i \in DOMAIN client.page : /\ client.page[i].pk > client.marker.sealed
                                               /\ client.page[i].pk <= Last(client.page).pk
              /\ \A r \in rows : Waits(r) /\ r.pk <= Last(client.page).pk => Got(r.pk) \/ OnPage(r.pk)
         /\ client.pc = "done" /\ ~client.lied => \A r \in rows : Waits(r) => Got(r.pk)

\* By time: what was handed out is newer than the marker, and complete down to it,
\* but for the seconds of the markers.
TimeInv ==
  client # Idle /\ kind \in TimeKinds =>
    /\ IsInjective(client.got)
    /\ client.pc # "last" /\ client.page = <<>>
    /\ client.pc = "query" /\ client.marker = NoMarker => client.got = <<>>
    /\ client.pc = "query" /\ client.marker # NoMarker =>
         /\ client.marker \in [time : Nat]
         /\ \A r \in rows : Got(r.pk) => r.time > client.marker.time
         /\ \A r \in rows : Waits(r) /\ r.time > client.marker.time => Got(r.pk) \/ Blurred(r)
    /\ client.pc = "done" => \A r \in rows : Waits(r) => Got(r.pk) \/ Blurred(r)

ListingInv == TypeOK /\ RightsInv /\ PkInv /\ TimeInv
=============================================================================
