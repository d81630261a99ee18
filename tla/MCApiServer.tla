---------------------------- MODULE MCApiServer -----------------------------
(****************************************************************************)
(* The records the API server keeps: accounts, tokens, grants and queues;   *)
(* the ten listings; clusters, pipelines and flavours; and runs that wait   *)
(* for their image. They share nothing that decides the properties below,   *)
(* so each behaviour is one of them, chosen at the start.                   *)
(****************************************************************************)
EXTENDS Integers

CONSTANTS
  Root, Users, Queues, Passwords, Threads, Tags, Names, Ids, Creds,
  Contents, Cpus, Mems, Limits, Runs, Workers, MaxWrites, MaxEvents,
  MaxRequests, MaxRows, MaxGrants, MaxTime, CatalogRows, MaxErrors, MaxRetries, MaxFaults,
  ImageFaults

VARIABLES
  which,   \* the component that runs; its variables are the only ones in use
  user, tokens, grants, queue, vc, command, events, req, writes, since,
  faults, begun, overlap, kind, rows, granted, made, now, client, kept, errors, cluster,
  credOf, pipeline, gone, quota, tar, record, thread, resuming, worker,
  called, up, gaveUp, retries

T == INSTANCE Tenancy
L == INSTANCE Listing
C == INSTANCE Catalog WITH MaxRows <- CatalogRows
I == INSTANCE ImageHandler WITH MaxFaults <- ImageFaults

all ==
  <<which,
    user, tokens, grants, queue, vc, command, events, req, writes, since,
    faults, begun, overlap, kind, rows, granted, made, now, client, kept, errors, cluster,
    credOf, pipeline, gone, quota, tar, record, thread, resuming, worker,
    called, up, gaveUp, retries>>

\* What the other components' variables hold.
Off == "off"

WithoutTenancy ==
  <<kind, rows, granted, made, now, client, kept, errors, cluster, credOf, pipeline, gone,
    quota, tar, record, thread, resuming, worker, called, up, gaveUp,
    retries>>

WithoutListing ==
  <<user, tokens, grants, queue, vc, command, events, req, writes, since,
    faults, begun, overlap, cluster, credOf, pipeline, gone, quota, tar,
    record, thread, resuming, worker, called, up, gaveUp, retries>>

WithoutCatalog ==
  <<user, tokens, grants, queue, vc, command, events, writes, since, faults,
    kind, rows, granted, made, now, kept, errors, tar, record, thread, resuming, worker,
    called, up, gaveUp, retries>>

WithoutImageHandler ==
  <<user, tokens, grants, vc, command, events, req, writes, since, begun,
    overlap, kind, rows, granted, made, now, client, kept, errors, cluster, credOf,
    pipeline, gone, quota>>

Init ==
  \/ /\ which = "tenancy" /\ T!Init
     /\ kind = Off /\ rows = Off /\ granted = Off /\ now = Off /\ made = Off /\ client = Off /\ kept = Off
     /\ errors = Off /\ cluster = Off /\ credOf = Off /\ pipeline = Off
     /\ gone = Off /\ quota = Off /\ tar = Off /\ record = Off
     /\ thread = Off /\ resuming = Off /\ worker = Off /\ called = Off
     /\ up = Off /\ gaveUp = Off /\ retries = Off
  \/ /\ which = "listing" /\ L!Init
     /\ user = Off /\ tokens = Off /\ grants = Off /\ queue = Off
     /\ vc = Off /\ command = Off /\ events = Off /\ req = Off
     /\ writes = Off /\ since = Off /\ faults = Off /\ begun = Off
     /\ overlap = Off /\ cluster = Off /\ credOf = Off /\ pipeline = Off
     /\ gone = Off /\ quota = Off /\ tar = Off /\ record = Off
     /\ thread = Off /\ resuming = Off /\ worker = Off /\ called = Off
     /\ up = Off /\ gaveUp = Off /\ retries = Off
  \/ /\ which = "catalog" /\ C!Init
     /\ user = Off /\ tokens = Off /\ grants = Off /\ queue = Off
     /\ vc = Off /\ command = Off /\ events = Off /\ writes = Off
     /\ since = Off /\ faults = Off /\ kind = Off /\ rows = Off
     /\ granted = Off /\ now = Off
     /\ made = Off /\ kept = Off /\ errors = Off /\ tar = Off
     /\ record = Off /\ thread = Off /\ resuming = Off /\ worker = Off
     /\ called = Off /\ up = Off /\ gaveUp = Off /\ retries = Off
  \/ /\ which = "image" /\ I!Init
     /\ user = Off /\ tokens = Off /\ grants = Off /\ vc = Off
     /\ command = Off /\ events = Off /\ req = Off /\ writes = Off
     /\ since = Off /\ begun = Off /\ overlap = Off /\ kind = Off
     /\ granted = Off /\ now = Off /\ rows = Off /\ made = Off /\ client = Off /\ kept = Off
     /\ errors = Off /\ cluster = Off /\ credOf = Off /\ pipeline = Off
     /\ gone = Off /\ quota = Off

Next ==
  \/ which = "tenancy" /\ T!Next /\ UNCHANGED <<which, WithoutTenancy>>
  \/ which = "listing" /\ L!Next /\ UNCHANGED <<which, WithoutListing>>
  \/ which = "catalog" /\ C!Next /\ UNCHANGED <<which, WithoutCatalog>>
  \/ which = "image" /\ I!Next /\ UNCHANGED <<which, WithoutImageHandler>>

ASSUME PasswordsAssumption == Passwords # {}
ASSUME LimitsAssumption == Limits \subseteq Nat
ASSUME SizesAssumption == Cpus \subseteq Nat /\ Mems \subseteq Nat
ASSUME IdleAssumption == I!Idle \notin Runs

\* Two pipelines of one name and different contents, and one of another name.
Yamls == {[name |-> "a", md5 |-> 1], [name |-> "a", md5 |-> 2], [name |-> "b", md5 |-> 1]}

Spec == Init /\ [][Next]_all

-----------------------------------------------------------------------------
(* Properties *)

\* Once a password is changed, whatever requests run meanwhile, no token made
\* with the old one is accepted (BaseAuth()).
TokensDieWithPassword == which = "tenancy" => T!TokensDieWithPassword

\* A grant does not outlive its queue, nor, between requests, its account
\* (DeleteQueue(), DeleteUser()).
GrantsHaveOwners == which = "tenancy" => T!GrantsHaveOwners

\* When requests, the cluster and the informer have come to rest, the table of
\* queues says what the cluster says (UpdateQueue() of the queue controller).
QueuesAgree == which = "tenancy" => T!QueuesAgree

\* A client gets no row it may not see, and one that follows the markers gets each
\* row that stays, and once, while rows and grants come and go between its requests;
\* this if the database answers in the order of the keys, no query fails, and but for
\* rows of a marker's second and repetitions by the queues' join (List... of models).
PagesAreRight == which = "listing" => L!PagesAreRight

\* What Catalog promises of clients, quotas and pipelines; and a cluster that was
\* deleted stays deleted, although updates that began before are still to write
\* their whole record (UpdateCluster()).
CatalogIsKept ==
  /\ [](which = "catalog" => C!CatalogIsSound)
  /\ [][which = "catalog" =>
          \A k \in C!Keys : cluster[k].deleted => cluster'[k].deleted]_all

\* Kills, panics and restarts at any moment: a run that waits for its image is
\* always in somebody's hands, unless a call about it failed
\* (InitAndResumeRuns(), processHandleInfo()).
NoRunForgotten == which = "image" => I!NoRunForgotten
=============================================================================
