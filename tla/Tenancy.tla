------------------------------ MODULE Tenancy ------------------------------
(***************************************************************************)
(* Users, login tokens, grants and queues of the API server                *)
(* (controller/user, controller/grant, controller/queue, their models, the *)
(* token middleware) with the queues of Volcano and the informer that      *)
(* copies their state into the database.                                   *)
(*                                                                         *)
(* A request is a record in req[t]; every database or cluster call of a    *)
(* handler is a step of its own, so requests interleave between the calls. *)
(* The handlers' checks of the caller need no state and are guards of      *)
(* Begin; a request they refuse changes nothing and is left out.           *)
(***************************************************************************)
EXTENDS Naturals, Sequences, FiniteSets

CONSTANTS Root,       \* the administrator (models.ROOT)
          Users,      \* other account names
          Queues,     \* queue names
          Passwords,
          Threads,    \* requests served at the same time
          MaxWrites,  \* bound on password writes
          MaxFaults,  \* bound on failing calls
          MaxRequests,\* bound on requests
          MaxEvents   \* bound on queue updates the informer has not seen yet

VARIABLES user,    \* account -> hash of its password, or NoRow
          tokens,  \* tokens given out so far
          grants,  \* rows of the grant table
          queue,   \* queue name -> status of its row, or "none"
          vc,      \* queue name -> state of the Volcano queue, or "none"
          command, \* queues a close command is waiting for
          events,  \* Volcano updates the informer has not handled yet
          req,     \* thread -> the request it serves
          writes,  \* password writes so far: bcrypt salts every one of them
          since,   \* history: account -> the write its password is from
          faults,  \* calls that failed so far
          begun,   \* requests served so far
          overlap  \* history: two requests were once served at the same time

tvars == <<user, tokens, grants, queue, vc, command, events, req, writes, since,
           faults, begun, overlap>>

Accounts == Users \cup {Root}
Resources == [type : {"queue"}, id : Queues] \cup [type : {"user"}, id : Users]
NoRow == [pw |-> "none", salt |-> 0]
UserOps == {"createUser", "updateUser", "deleteUser"}
GrantOps == {"createGrant", "deleteGrant"}
QueueOps == {"createQueue", "closeQueue", "deleteQueue"}
Idle == [op |-> "idle"]
Exists(u) == user[u] # NoRow
HasResource(r) == IF r.type = "queue" THEN queue[r.id] # "none" ELSE Exists(r.id)

\* Mutant: no salt.
EncodePassWordPlain(pw) == [pw |-> pw, salt |-> 0]
\* controller/user EncodePassWord(): bcrypt puts a fresh salt into every hash.
EncodePassWord(pw) == [pw |-> pw, salt |-> writes + 1]

Init ==
  /\ user = [a \in Accounts |-> IF a = Root THEN [pw |-> CHOOSE p \in Passwords : TRUE,
                                                  salt |-> 1] ELSE NoRow]
  /\ tokens = {} /\ grants = {}
  /\ queue = [q \in Queues |-> "none"] /\ vc = [q \in Queues |-> "none"]
  /\ command = {} /\ events = <<>>
  /\ req = [t \in Threads |-> Idle]
  /\ writes = 1 /\ since = [a \in Accounts |-> IF a = Root THEN 1 ELSE 0]
  /\ faults = 0 /\ begun = 0 /\ overlap = FALSE

Go(t, n) == req' = [req EXCEPT ![t].pc = n]
Done(t) == req' = [req EXCEPT ![t] = Idle]
At(t, op, n) == req[t].op = op /\ req[t].pc = n
\* The next call of the request when `ok', its end otherwise.
Next1(t, ok, n) == IF ok THEN Go(t, n) ELSE Done(t)

-----------------------------------------------------------------------------
\* The token holds the hash.
GenerateToken(a) == [user |-> a, hash |-> user[a], at |-> since[a]]

\* Login() with a password.
Login(a, pw) ==
  /\ Exists(a) /\ user[a].pw = pw
  /\ tokens' = tokens \cup {GenerateToken(a)}
  /\ UNCHANGED <<user, grants, queue, vc, command, events, req, writes, since, faults, begun, overlap>>

\* BaseAuth() logs the token's user in again, with the hash as the password.
BaseAuth(tok) == Exists(tok.user) /\ user[tok.user] = tok.hash

\* What the routers let through, with the checks they make themselves: root's alone, but for
\* the change of one's own password.
UserRequests(a) == {r \in [op : UserOps, pc : {1}, u : Accounts, pw : Passwords] :
                      a = Root \/ (r.op = "updateUser" /\ r.u = a)}
GrantRequests(a) == IF a # Root THEN {}
                    ELSE [op : GrantOps, pc : {1}, u : Users, r : Resources]
QueueRequests(a) == IF a # Root THEN {} ELSE [op : QueueOps, pc : {1}, q : Queues]

\* A request that BaseAuth() let pass, by the router it went to.
Begin(t) ==
  \E tok \in tokens :
    /\ req[t] = Idle /\ BaseAuth(tok)
    /\ begun < MaxRequests /\ begun' = begun + 1
    /\ \E r \in UserRequests(tok.user) \cup GrantRequests(tok.user) \cup QueueRequests(tok.user) :
          req' = [req EXCEPT ![t] = r]
    /\ overlap' = (overlap \/ \E o \in Threads \ {t} : req[o] # Idle)
    /\ UNCHANGED <<user, tokens, grants, queue, vc, command, events, writes, since, faults>>

\* A call of the request fails and the handler returns (or drops the error, as
\* models.DeleteQueue() and the status update of CreateQueue() do): nothing
\* that the call or a later one would have done happens.
Fail(t) ==
  /\ req[t] # Idle /\ faults < MaxFaults
  /\ faults' = faults + 1 /\ Done(t)
  /\ UNCHANGED <<user, tokens, grants, queue, vc, command, events, writes, since, begun, overlap>>

-----------------------------------------------------------------------------
SetPassword(u, pw) ==
  /\ writes < MaxWrites
  /\ user' = [user EXCEPT ![u] = EncodePassWord(pw)]
  /\ writes' = writes + 1 /\ since' = [since EXCEPT ![u] = writes + 1]

RemoveUser(u) == user' = [user EXCEPT ![u] = NoRow]

NotUser == <<tokens, queue, vc, command, events, faults, begun, overlap>>

\* models.CreateUser(): the unique index refuses a second row of the name.
CreateUser(t) ==
  /\ At(t, "createUser", 1) /\ Done(t)
  /\ IF Exists(req[t].u) THEN UNCHANGED <<user, writes, since>>
                         ELSE SetPassword(req[t].u, req[t].pw)
  /\ UNCHANGED grants /\ UNCHANGED NotUser

UpdateUserCheck(t) ==
  /\ At(t, "updateUser", 1) /\ Next1(t, Exists(req[t].u), 2)
  /\ UNCHANGED <<user, writes, since, grants>> /\ UNCHANGED NotUser

\* UpdateColumn(): no row, nothing written and no error.
UpdateUserWrite(t) ==
  /\ At(t, "updateUser", 2) /\ Done(t)
  /\ IF Exists(req[t].u) THEN SetPassword(req[t].u, req[t].pw)
                         ELSE UNCHANGED <<user, writes, since>>
  /\ UNCHANGED grants /\ UNCHANGED NotUser

DeleteUserCheck(t) ==
  /\ At(t, "deleteUser", 1) /\ Next1(t, Exists(req[t].u) /\ req[t].u # Root, 2)
  /\ UNCHANGED <<user, writes, since, grants>> /\ UNCHANGED NotUser

DeleteUserRow(t) ==
  /\ At(t, "deleteUser", 2) /\ Go(t, 3)
  /\ RemoveUser(req[t].u)
  /\ UNCHANGED <<writes, since, grants>> /\ UNCHANGED NotUser

\* models.DeleteGrantByUserName(), by the name only.
DeleteUserGrants(t) ==
  /\ At(t, "deleteUser", 3) /\ Done(t)
  /\ grants' = {g \in grants : g.user # req[t].u}
  /\ UNCHANGED <<user, writes, since>> /\ UNCHANGED NotUser

-----------------------------------------------------------------------------
GrantRows(u, r) == {g \in grants : g.user = u /\ g.r = r}
NotGrant == <<user, tokens, queue, vc, command, events, writes, since, begun, overlap>>

\* checkQueue() or checkUser() of the resource, then checkUser() of the user.
CheckResource(t) ==
  /\ req[t].op \in GrantOps /\ req[t].pc = 1
  /\ Next1(t, HasResource(req[t].r), 2)
  /\ UNCHANGED <<grants, faults>> /\ UNCHANGED NotGrant

CheckUser(t) ==
  /\ req[t].op \in GrantOps /\ req[t].pc = 2
  /\ Next1(t, Exists(req[t].u), 3)
  /\ UNCHANGED <<grants, faults>> /\ UNCHANGED NotGrant

\* GetGrant(): CreateGrant() reads an error of the query as `no such grant'.
CreateGrantCheck(t) ==
  /\ At(t, "createGrant", 3)
  /\ \/ Next1(t, GrantRows(req[t].u, req[t].r) = {}, 4) /\ UNCHANGED faults
     \/ Go(t, 4) /\ faults < MaxFaults /\ faults' = faults + 1
  /\ UNCHANGED grants /\ UNCHANGED NotGrant

\* models.CreateGrant() has no unique key but the new id: `fresh' remembers
\* whether what was checked still holds when the row is inserted.
InsertGrant(u, r) == grants' = grants \cup {[user |-> u, r |-> r, fresh |-> HasResource(r)]}

CreateGrantInsert(t) ==
  /\ At(t, "createGrant", 4) /\ Done(t) /\ InsertGrant(req[t].u, req[t].r)
  /\ UNCHANGED faults /\ UNCHANGED NotGrant

DeleteGrantCheck(t) ==
  /\ At(t, "deleteGrant", 3) /\ Next1(t, GrantRows(req[t].u, req[t].r) # {}, 4)
  /\ UNCHANGED <<grants, faults>> /\ UNCHANGED NotGrant

DeleteGrant(t) ==
  /\ At(t, "deleteGrant", 4) /\ Done(t)
  /\ grants' = grants \ GrantRows(req[t].u, req[t].r)
  /\ UNCHANGED faults /\ UNCHANGED NotGrant

-----------------------------------------------------------------------------
NotQueue == <<user, tokens, writes, since, begun, overlap>>
SetQueue(q, s) == queue' = [queue EXCEPT ![q] = IF @ = "none" THEN @ ELSE s]

\* Mutant: the grants of the queue stay.
DeleteQueueTxRow(q) == queue' = [queue EXCEPT ![q] = "none"] /\ UNCHANGED grants
\* models.DeleteQueue(): the row and the grants of the queue in one transaction.
DeleteQueueTx(q) ==
  /\ queue' = [queue EXCEPT ![q] = "none"]
  /\ grants' = {g \in grants : g.r # [type |-> "queue", id |-> q]}

\* IsQueueExist() answers `no' when the query fails.
CreateQueueExist(t) ==
  /\ At(t, "createQueue", 1)
  /\ \/ Next1(t, queue[req[t].q] = "none", 2) /\ UNCHANGED faults
     \/ Go(t, 2) /\ faults < MaxFaults /\ faults' = faults + 1
  /\ UNCHANGED <<grants, queue, vc, command, events>> /\ UNCHANGED NotQueue

CreateQueueInsert(t) ==
  /\ At(t, "createQueue", 2) /\ Next1(t, queue[req[t].q] = "none", 3)
  /\ queue' = [queue EXCEPT ![req[t].q] = IF @ = "none" THEN "creating" ELSE @]
  /\ UNCHANGED <<grants, vc, command, events, faults>> /\ UNCHANGED NotQueue

\* VCQueue.CreateQueue(): the cluster refuses a name it has, or the call fails.
CreateQueueVC(t) ==
  /\ At(t, "createQueue", 3)
  /\ \/ vc[req[t].q] = "none" /\ vc' = [vc EXCEPT ![req[t].q] = "new"] /\ Go(t, 4)
     \/ UNCHANGED vc /\ Go(t, 5)
  /\ UNCHANGED <<grants, queue, command, events, faults>> /\ UNCHANGED NotQueue

CreateQueueOpen(t) ==
  /\ At(t, "createQueue", 4) /\ Done(t) /\ SetQueue(req[t].q, "open")
  /\ UNCHANGED <<grants, vc, command, events, faults>> /\ UNCHANGED NotQueue

CreateQueueRollback(t) ==
  /\ At(t, "createQueue", 5) /\ Done(t) /\ DeleteQueueTx(req[t].q)
  /\ UNCHANGED <<vc, command, events, faults>> /\ UNCHANGED NotQueue

CloseQueueRead(t) ==
  /\ At(t, "closeQueue", 1) /\ Next1(t, queue[req[t].q] # "none", 2)
  /\ UNCHANGED <<grants, queue, vc, command, events, faults>> /\ UNCHANGED NotQueue

\* executeQueueAction(): a Command object for the queue, if the cluster has it.
CloseQueueCommand(t) ==
  /\ At(t, "closeQueue", 2) /\ Next1(t, vc[req[t].q] # "none", 3)
  /\ command' = IF vc[req[t].q] # "none" THEN command \cup {req[t].q} ELSE command
  /\ UNCHANGED <<grants, queue, vc, events, faults>> /\ UNCHANGED NotQueue

CloseQueueRecord(t) ==
  /\ At(t, "closeQueue", 3) /\ Done(t) /\ SetQueue(req[t].q, "closed")
  /\ UNCHANGED <<grants, vc, command, events, faults>> /\ UNCHANGED NotQueue

DeleteQueueRead(t) ==
  /\ At(t, "deleteQueue", 1) /\ Next1(t, queue[req[t].q] = "closed", 2)
  /\ UNCHANGED <<grants, queue, vc, command, events, faults>> /\ UNCHANGED NotQueue

\* VCQueue.DeleteQueue(); the command goes with its owner.
DeleteQueueVC(t) ==
  /\ At(t, "deleteQueue", 2) /\ Next1(t, vc[req[t].q] # "none", 3)
  /\ vc' = [vc EXCEPT ![req[t].q] = "none"] /\ command' = command \ {req[t].q}
  /\ UNCHANGED <<grants, queue, events, faults>> /\ UNCHANGED NotQueue

DeleteQueueRow(t) ==
  /\ At(t, "deleteQueue", 3) /\ Done(t) /\ DeleteQueueTx(req[t].q)
  /\ UNCHANGED <<vc, command, events, faults>> /\ UNCHANGED NotQueue

-----------------------------------------------------------------------------
\* Volcano (external) opens a new queue and carries out a close command.
Volcano(q) ==
  \E s \in {<<"new", "open">>, <<"open", "closing">>, <<"closing", "closed">>} :
    /\ vc[q] = s[1] /\ Len(events) < MaxEvents
    /\ s[1] = "open" => q \in command
    /\ command' = IF s[1] = "open" THEN command \ {q} ELSE command
    /\ vc' = [vc EXCEPT ![q] = s[2]] /\ events' = Append(events, [q |-> q, s |-> s[2]])
    /\ UNCHANGED <<user, tokens, grants, queue, req, writes, since, faults, begun, overlap>>

\* Mutant: the newest update first.
UpdateQueueCacheLast ==
  /\ events # <<>> /\ events' = SubSeq(events, 1, Len(events) - 1)
  /\ SetQueue(events[Len(events)].q, events[Len(events)].s)
  /\ UNCHANGED <<user, tokens, grants, vc, command, req, writes, since, faults, begun, overlap>>
\* updateQueueCache(): the informer hands the updates on in their order.
UpdateQueueCache ==
  /\ events # <<>> /\ events' = Tail(events)
  /\ SetQueue(Head(events).q, Head(events).s)
  /\ UNCHANGED <<user, tokens, grants, vc, command, req, writes, since, faults, begun, overlap>>

Handlers(t) ==
  \/ CreateUser(t) \/ UpdateUserCheck(t) \/ UpdateUserWrite(t)
  \/ DeleteUserCheck(t) \/ DeleteUserRow(t) \/ DeleteUserGrants(t)
  \/ CheckResource(t) \/ CheckUser(t) \/ CreateGrantCheck(t) \/ CreateGrantInsert(t)
  \/ DeleteGrantCheck(t) \/ DeleteGrant(t)
  \/ CreateQueueExist(t) \/ CreateQueueInsert(t) \/ CreateQueueVC(t)
  \/ CreateQueueOpen(t) \/ CreateQueueRollback(t)
  \/ CloseQueueRead(t) \/ CloseQueueCommand(t) \/ CloseQueueRecord(t)
  \/ DeleteQueueRead(t) \/ DeleteQueueVC(t) \/ DeleteQueueRow(t)

Next ==
  \/ \E a \in Accounts, pw \in Passwords : Login(a, pw)
  \/ \E t \in Threads : Begin(t) \/ Fail(t) \/ Handlers(t)
  \/ \E q \in Queues : Volcano(q)
  \/ UpdateQueueCache

Spec == Init /\ [][Next]_tvars

-----------------------------------------------------------------------------
Quiet == \A t \in Threads : req[t] = Idle
\* One request at a time and no failing call so far.
Calm == ~overlap /\ faults = 0

\* A token is good for the password it was given for and no other: it dies with
\* the next change of the password and with the account, even when the account
\* comes back with the same password (Login(), BaseAuth(), EncodePassWord()).
TokensDieWithPassword ==
  \A tok \in tokens : BaseAuth(tok) => tok.at = since[tok.user]

\* No grant outlives its queue, whatever runs at the same time or fails, unless
\* its queue was already gone when CreateGrant() inserted it.
GrantsDieWithQueue ==
  \A g \in grants : g.r.type = "queue" /\ g.fresh => queue[g.r.id] # "none"

\* Between requests that ran one by one, every grant belongs to an account, so
\* that an account created later starts with none (DeleteUser(), CreateGrant()).
GrantsHaveUser ==
  Calm /\ Quiet => \A g \in grants : Exists(g.user)

\* Both: what DeleteQueue() and DeleteUser() promise for the grants they clean up.
GrantsHaveOwners == GrantsDieWithQueue /\ GrantsHaveUser

\* Once the requests, that ran one by one, the cluster and the informer are
\* done, the queue table says what the cluster says - updates of an earlier
\* queue of the same name that arrive late included.
QueuesAgree ==
  Calm /\ Quiet /\ events = <<>> /\ command = {} /\ (\A q \in Queues : vc[q] \notin {"new", "closing"})
    => \A q \in Queues : queue[q] = vc[q]

-----------------------------------------------------------------------------
(* The inductive invariant behind the proofs *)

Requests ==
  {Idle} \cup [op : UserOps, pc : 1..5, u : Accounts, pw : Passwords]
         \cup [op : GrantOps, pc : 1..5, u : Users, r : Resources]
         \cup [op : QueueOps, pc : 1..5, q : Queues]

Hashes == [pw : Passwords \cup {"none"}, salt : Nat]
RowStates == {"creating", "open", "closing", "closed"}
VolcanoStates == {"new", "open", "closing", "closed"}

TypeOK ==
  /\ user \in [Accounts -> Hashes]
  /\ tokens \subseteq [user : Accounts, hash : Hashes, at : Nat]
  /\ grants \subseteq [user : Users, r : Resources, fresh : BOOLEAN]
  /\ queue \in [Queues -> RowStates \cup {"none"}]
  /\ vc \in [Queues -> VolcanoStates \cup {"none"}] /\ command \subseteq Queues
  /\ events \in Seq([q : Queues, s : {"open", "closing", "closed"}])
  /\ req \in [Threads -> Requests]
  /\ writes \in Nat /\ since \in [Accounts -> Nat]
  /\ faults \in Nat /\ overlap \in BOOLEAN

\* The salt of a hash tells which write it is from, in the table and in a token.
SaltInv ==
  /\ \A a \in Accounts : Exists(a) => user[a].salt = since[a]
  /\ \A tok \in tokens : tok.hash.salt = tok.at

\* As long as requests run one by one: only DeleteUser() comes between the end
\* of an account and that of its grants.
OneByOne == \A t, o \in Threads : req[t] # Idle /\ req[o] # Idle => t = o

OwnerInv ==
  Calm =>
    /\ OneByOne
    /\ \A g \in grants :
         Exists(g.user) \/ \E t \in Threads : At(t, "deleteUser", 3) /\ req[t].u = g.user
    /\ \A t \in Threads :
         req[t].op = "createGrant" /\ req[t].pc \in {3, 4} => Exists(req[t].u)

\* The last update of q that the informer has not handled.
Latest(q, s) ==
  \E i \in 1..Len(events) :
    events[i] = [q |-> q, s |-> s] /\ \A j \in i + 1..Len(events) : events[j].q # q

\* Where a request about q is, as long as requests run one by one.
Serving(q, op, pcs) ==
  \E t \in Threads : req[t].op = op /\ req[t].pc \in pcs /\ req[t].q = q

\* A row and its queue come and go together, but for the request that makes or
\* removes them, and the row says what the cluster says or is about to: the
\* informer or a close command is still to act.
Agree(q) ==
  /\ vc[q] = "none" => q \notin command
  /\ vc[q] # "none" => queue[q] # "none"
  /\ queue[q] # "none" /\ vc[q] = "none" =>
       Serving(q, "createQueue", {3, 5}) \/ Serving(q, "deleteQueue", {3})
  /\ Serving(q, "createQueue", {2}) => queue[q] = "none"
  /\ Serving(q, "createQueue", {3, 5}) => vc[q] = "none"
  /\ Serving(q, "createQueue", {3}) => queue[q] # "none"
  /\ Serving(q, "createQueue", {4}) => vc[q] \in {"new", "open"} /\ q \notin command
  /\ Serving(q, "closeQueue", {3}) => vc[q] \in {"closing", "closed"} \/ q \in command
  /\ Serving(q, "deleteQueue", {3}) => vc[q] = "none"
  /\ vc[q] \in {"open", "closing", "closed"} =>
       \/ Latest(q, vc[q])
       \/ /\ \A i \in 1..Len(events) : events[i].q # q
          /\ \/ queue[q] = vc[q]
             \/ queue[q] = "closed" /\ (vc[q] = "closing" \/ q \in command)

AgreeInv == Calm => \A q \in Queues : Agree(q)
=============================================================================
