--------------------------- MODULE ApiServerProofs ---------------------------
(***************************************************************************)
(* Proofs about the records of the API server, for any sets of accounts,   *)
(* queues, runs and threads and any bounds.                                *)
(***************************************************************************)
EXTENDS MCApiServer, Sequences, FiniteSetTheorems, WellFoundedInduction, TLAPS

-----------------------------------------------------------------------------
(* The image handler *)

ImageInv == I!TypeOK /\ I!NoRunForgotten

LEMMA ImageInit == I!Init => ImageInv
BY DEF I!Init, I!TypeOK, I!NoRunForgotten, ImageInv

\* Every step of a handler, a goroutine or the server keeps the types.
LEMMA ImageTypes == ASSUME I!TypeOK, I!Next PROVE I!TypeOK'
<1>1. ASSUME NEW r \in Runs, I!CreateRun(r) \/ I!RetryRun(r) \/ I!DeleteRun(r)
      PROVE  I!TypeOK'
  BY <1>1 DEF I!TypeOK, I!CreateRun, I!RetryRun, I!DeleteRun
<1>2. ASSUME NEW r \in Runs, I!ListImageIDsByFsIDErr(r) PROVE I!TypeOK'
  BY <1>2 DEF I!TypeOK, I!ListImageIDsByFsIDErr, I!Leaves, I!Fail
<1>3. ASSUME NEW r \in Runs, I!HandleTarImage(r) PROVE I!TypeOK'
  <2>1. queue' \in Seq(Runs)
    BY <1>3 DEF I!TypeOK, I!HandleTarImage
  <2>2. thread' \in [Runs -> BOOLEAN]
    BY <1>3 DEF I!TypeOK, I!HandleTarImage, I!Leaves
  <2>. QED
    BY <1>3, <2>1, <2>2 DEF I!TypeOK, I!HandleTarImage
<1>4. ASSUME NEW r \in Runs, I!handleImageCallbackFunc(r) PROVE I!TypeOK'
  BY <1>4 DEF I!TypeOK, I!handleImageCallbackFunc, I!Fail
<1>5. ASSUME NEW w \in Workers, I!process(w) PROVE I!TypeOK'
  <2>1. Head(queue) \in Runs /\ queue' \in Seq(Runs)
    BY <1>5 DEF I!TypeOK, I!process
  <2>. QED
    BY <1>5, <2>1 DEF I!TypeOK, I!process
<1>6. ASSUME NEW w \in Workers, I!processHandleInfo(w) PROVE I!TypeOK'
  BY <1>6 DEF I!TypeOK, I!processHandleInfo
<1>7. ASSUME I!Die PROVE I!TypeOK'
  <2>1. queue' \in Seq(Runs)
    BY <1>7 DEF I!Die
  <2>2. worker' \in [Workers -> Runs \cup {I!Idle}]
    BY <1>7 DEF I!Die
  <2>. QED
    BY <1>7, <2>1, <2>2 DEF I!TypeOK, I!Die
<1>8. CASE I!InitPFImageHandler \/ I!ResumeErr
  BY <1>8 DEF I!TypeOK, I!InitPFImageHandler, I!ResumeErr
<1>. QED
  BY <1>1, <1>2, <1>3, <1>4, <1>5, <1>6, <1>7, <1>8
     DEF I!Next, I!Go, I!Work, I!processImage, I!Killed

\* Whoever holds a run keeps it or hands it on, unless its record ends.
LEMMA ImageHolds ==
  ASSUME ImageInv, I!TypeOK', I!Next, NEW q \in Runs,
         up', record'[q] = "Initiating"
  PROVE  I!Held(q)'
<1>1. record[q] = "Initiating" /\ up => I!Held(q)
  BY DEF ImageInv, I!NoRunForgotten
<1>2. ASSUME NEW r \in Runs, I!CreateRun(r) PROVE I!Held(q)'
  BY <1>1, <1>2 DEF ImageInv, I!TypeOK, I!Held, I!CreateRun
<1>3. ASSUME NEW r \in Runs, I!RetryRun(r) \/ I!DeleteRun(r) PROVE I!Held(q)'
  BY <1>1, <1>3 DEF ImageInv, I!TypeOK, I!Held, I!RetryRun, I!DeleteRun
<1>4. ASSUME NEW r \in Runs, I!ListImageIDsByFsIDErr(r) PROVE I!Held(q)'
  BY <1>1, <1>4
     DEF ImageInv, I!TypeOK, I!Held, I!ListImageIDsByFsIDErr, I!Leaves, I!Fail
<1>5. ASSUME NEW r \in Runs, I!HandleTarImage(r) PROVE I!Held(q)'
  <2>1. /\ Len(queue') = Len(queue) + 1 /\ queue'[Len(queue) + 1] = r
        /\ Len(queue) \in Nat /\ \A i \in 1..Len(queue) : queue'[i] = queue[i]
    BY <1>5 DEF ImageInv, I!TypeOK, I!HandleTarImage
  <2>2. CASE q = r
    BY <2>1, <2>2 DEF I!Held
  <2>3. CASE q # r
    BY <1>1, <1>5, <2>1, <2>3
       DEF ImageInv, I!TypeOK, I!Held, I!HandleTarImage, I!Leaves
  <2>. QED
    BY <2>2, <2>3
<1>6. ASSUME NEW w \in Workers, I!process(w) PROVE I!Held(q)'
  <2>1. /\ Len(queue) \in Nat \ {0} /\ worker'[w] = queue[1]
        /\ \A i \in 2..Len(queue) : i - 1 \in 1..Len(queue') /\ queue'[i - 1] = queue[i]
    BY <1>6 DEF ImageInv, I!TypeOK, I!process
  <2>2. \A v \in Workers : worker[v] = q => worker'[v] = q
    BY <1>6, IdleAssumption DEF ImageInv, I!TypeOK, I!process
  <2>3. CASE \E i \in 1..Len(queue) : queue[i] = q
    BY <2>1, <2>3 DEF I!Held
  <2>. QED
    BY <1>1, <1>6, <2>2, <2>3 DEF I!Held, I!process
<1>7. ASSUME NEW w \in Workers, I!processHandleInfo(w) PROVE I!Held(q)'
  BY <1>1, <1>7 DEF ImageInv, I!TypeOK, I!Held, I!processHandleInfo
<1>8. ASSUME NEW r \in Runs, I!handleImageCallbackFunc(r) PROVE I!Held(q)'
  BY <1>1, <1>8 DEF ImageInv, I!TypeOK, I!Held, I!handleImageCallbackFunc, I!Fail
<1>9. CASE I!InitPFImageHandler \/ I!ResumeErr
  BY <1>9 DEF I!Held, I!InitPFImageHandler, I!ResumeErr, I!ListActive, I!Active
<1>10. ~ I!Die
  BY DEF I!Die
<1>. QED
  BY <1>2, <1>3, <1>4, <1>5, <1>6, <1>7, <1>8, <1>9, <1>10
     DEF I!Next, I!Go, I!Work, I!processImage, I!Killed

LEMMA ImageNext == ASSUME ImageInv, I!Next PROVE ImageInv'
<1>1. I!TypeOK'
  BY ImageTypes DEF ImageInv
<1>2. I!NoRunForgotten'
  BY <1>1, ImageHolds DEF I!NoRunForgotten
<1>. QED
  BY <1>1, <1>2 DEF ImageInv

\* Whatever is killed, panics or fails, and however the goroutines of the image
\* handler interleave, a run that waits for its image is in somebody's hands.
THEOREM RunsAreHeld == Spec => []NoRunForgotten
<1> DEFINE Inv == which = "image" => ImageInv
<1>1. Init => Inv
  BY ImageInit DEF Init
<1>2. Inv /\ [Next]_all => Inv'
  <2> SUFFICES ASSUME Inv, [Next]_all, which' = "image" PROVE ImageInv'
    OBVIOUS
  <2>1. CASE UNCHANGED all
    BY <2>1 DEF all, ImageInv, I!TypeOK, I!NoRunForgotten, I!Held
  <2>2. CASE which = "image" /\ I!Next
    BY <2>2, ImageNext
  <2>. QED
    BY <2>1, <2>2 DEF Next
<1>3. Inv => NoRunForgotten
  BY DEF ImageInv, NoRunForgotten
<1>. QED
  BY <1>1, <1>2, <1>3, PTL DEF Spec

-----------------------------------------------------------------------------
(* Accounts, tokens, grants and queues: types *)

LEMMA TenancyInitTypes == T!Init => T!TypeOK
<1> SUFFICES ASSUME T!Init PROVE T!TypeOK
  OBVIOUS
<1>1. (CHOOSE p \in Passwords : TRUE) \in Passwords
  BY PasswordsAssumption
<1>2. user \in [T!Accounts -> T!Hashes]
  BY <1>1 DEF T!Init, T!Accounts, T!Hashes, T!NoRow
<1>3. req \in [Threads -> T!Requests] /\ since \in [T!Accounts -> Nat]
  BY DEF T!Init, T!Requests, T!Accounts
<1>4. events \in Seq([q : Queues, s : {"open", "closing", "closed"}])
  BY DEF T!Init
<1>. QED
  BY <1>2, <1>3, <1>4 DEF T!Init, T!TypeOK

\* A request stays one when its handler goes on to the next call or returns.
LEMMA RequestType ==
  ASSUME T!TypeOK, NEW t \in Threads, NEW n \in 1..5, req[t] # T!Idle,
         T!Go(t, n) \/ T!Done(t)
  PROVE  req' \in [Threads -> T!Requests]
<1>1. req \in [Threads -> T!Requests] /\ req[t] \in T!Requests
  BY DEF T!TypeOK
<1>2. CASE T!Done(t)
  BY <1>1, <1>2 DEF T!Done, T!Requests
<1>3. CASE T!Go(t, n)
  <2>1. [req[t] EXCEPT !.pc = n] \in T!Requests
    BY <1>1 DEF T!Requests
  <2>. QED
    BY <1>1, <1>3, <2>1 DEF T!Go
<1>. QED
  BY <1>2, <1>3

\* What a request of each kind carries.
LEMMA RequestFields ==
  ASSUME T!TypeOK, NEW t \in Threads
  PROVE  /\ req[t].op \in T!UserOps =>
              req[t] # T!Idle /\ req[t].u \in T!Accounts /\ req[t].pw \in Passwords
         /\ req[t].op \in T!GrantOps =>
              req[t] # T!Idle /\ req[t].u \in Users /\ req[t].r \in T!Resources
         /\ req[t].op \in T!QueueOps => req[t] # T!Idle /\ req[t].q \in Queues
BY DEF T!TypeOK, T!Requests, T!UserOps, T!GrantOps, T!QueueOps, T!Idle

LEMMA UserTypes ==
  ASSUME T!TypeOK, NEW t \in Threads,
         \/ T!CreateUser(t) \/ T!UpdateUserCheck(t) \/ T!UpdateUserWrite(t)
         \/ T!DeleteUserCheck(t) \/ T!DeleteUserRow(t) \/ T!DeleteUserGrants(t)
  PROVE  T!TypeOK'
<1>1. req[t].op \in T!UserOps
  BY DEF T!CreateUser, T!UpdateUserCheck, T!UpdateUserWrite, T!DeleteUserCheck,
         T!DeleteUserRow, T!DeleteUserGrants, T!At, T!UserOps
<1>2. req[t] # T!Idle /\ req[t].u \in T!Accounts /\ req[t].pw \in Passwords
  BY <1>1, RequestFields
<1>3. req' \in [Threads -> T!Requests]
  <2>1. \E n \in 1..5 : T!Go(t, n) \/ T!Done(t)
    BY DEF T!CreateUser, T!UpdateUserCheck, T!UpdateUserWrite, T!DeleteUserCheck,
           T!DeleteUserRow, T!DeleteUserGrants, T!Next1
  <2>. QED
    BY <1>2, <2>1, RequestType
<1>4. /\ user' \in [T!Accounts -> T!Hashes] /\ writes' \in Nat
      /\ since' \in [T!Accounts -> Nat]
  <2>1. ASSUME T!SetPassword(req[t].u, req[t].pw)
        PROVE  /\ user' \in [T!Accounts -> T!Hashes] /\ writes' \in Nat
               /\ since' \in [T!Accounts -> Nat]
    BY <1>2, <2>1 DEF T!TypeOK, T!SetPassword, T!EncodePassWord, T!Hashes
  <2>2. ASSUME T!RemoveUser(req[t].u) PROVE user' \in [T!Accounts -> T!Hashes]
    BY <1>2, <2>2 DEF T!TypeOK, T!RemoveUser, T!NoRow, T!Hashes
  <2>. QED
    BY <2>1, <2>2 DEF T!TypeOK, T!CreateUser, T!UpdateUserCheck, T!UpdateUserWrite,
                      T!DeleteUserCheck, T!DeleteUserRow, T!DeleteUserGrants
<1>5. grants' \subseteq grants /\ UNCHANGED T!NotUser
  BY DEF T!CreateUser, T!UpdateUserCheck, T!UpdateUserWrite, T!DeleteUserCheck,
         T!DeleteUserRow, T!DeleteUserGrants
<1>. QED
  BY <1>3, <1>4, <1>5 DEF T!TypeOK, T!NotUser

LEMMA GrantTypes ==
  ASSUME T!TypeOK, NEW t \in Threads,
         \/ T!CheckResource(t) \/ T!CheckUser(t) \/ T!CreateGrantCheck(t)
         \/ T!CreateGrantInsert(t) \/ T!DeleteGrantCheck(t) \/ T!DeleteGrant(t)
  PROVE  T!TypeOK'
<1>1. req[t].op \in T!GrantOps
  BY DEF T!CheckResource, T!CheckUser, T!CreateGrantCheck, T!CreateGrantInsert,
         T!DeleteGrantCheck, T!DeleteGrant, T!At, T!GrantOps
<1>2. req[t] # T!Idle /\ req[t].u \in Users /\ req[t].r \in T!Resources
  BY <1>1, RequestFields
<1>3. req' \in [Threads -> T!Requests]
  <2>1. \E n \in 1..5 : T!Go(t, n) \/ T!Done(t)
    BY DEF T!CheckResource, T!CheckUser, T!CreateGrantCheck, T!CreateGrantInsert,
           T!DeleteGrantCheck, T!DeleteGrant, T!Next1
  <2>. QED
    BY <1>2, <2>1, RequestType
<1>4. T!HasResource(req[t].r) \in BOOLEAN
  BY DEF T!HasResource, T!Exists
<1>5. grants' \subseteq [user : Users, r : T!Resources, fresh : BOOLEAN]
  BY <1>2, <1>4 DEF T!TypeOK, T!CheckResource, T!CheckUser, T!CreateGrantCheck,
     T!CreateGrantInsert, T!InsertGrant, T!DeleteGrantCheck, T!DeleteGrant
<1>6. faults' \in Nat /\ UNCHANGED T!NotGrant
  BY DEF T!TypeOK, T!CheckResource, T!CheckUser, T!CreateGrantCheck,
     T!CreateGrantInsert, T!DeleteGrantCheck, T!DeleteGrant
<1>. QED
  BY <1>3, <1>5, <1>6 DEF T!TypeOK, T!NotGrant

LEMMA QueueTypes ==
  ASSUME T!TypeOK, NEW t \in Threads,
         \/ T!CreateQueueExist(t) \/ T!CreateQueueInsert(t) \/ T!CreateQueueVC(t)
         \/ T!CreateQueueOpen(t) \/ T!CreateQueueRollback(t)
         \/ T!CloseQueueRead(t) \/ T!CloseQueueCommand(t) \/ T!CloseQueueRecord(t)
         \/ T!DeleteQueueRead(t) \/ T!DeleteQueueVC(t) \/ T!DeleteQueueRow(t)
  PROVE  T!TypeOK'
<1>. USE DEF T!CreateQueueExist, T!CreateQueueInsert, T!CreateQueueVC, T!CreateQueueOpen,
             T!CreateQueueRollback, T!CloseQueueRead, T!CloseQueueCommand,
             T!CloseQueueRecord, T!DeleteQueueRead, T!DeleteQueueVC, T!DeleteQueueRow
<1>1. req[t].op \in T!QueueOps
  BY DEF T!At, T!QueueOps
<1>2. req[t] # T!Idle /\ req[t].q \in Queues
  BY <1>1, RequestFields
<1>3. req' \in [Threads -> T!Requests]
  <2>1. \E n \in 1..5 : T!Go(t, n) \/ T!Done(t)
    BY DEF T!Next1
  <2>. QED
    BY <1>2, <2>1, RequestType
<1>4. queue' \in [Queues -> T!RowStates \cup {"none"}]
  BY <1>2 DEF T!TypeOK, T!SetQueue, T!DeleteQueueTx, T!RowStates
<1>5. vc' \in [Queues -> T!VolcanoStates \cup {"none"}] /\ command' \subseteq Queues
  BY <1>2 DEF T!TypeOK, T!VolcanoStates
<1>6. grants' \subseteq grants /\ faults' \in Nat /\ events' = events /\ UNCHANGED T!NotQueue
  BY DEF T!TypeOK, T!DeleteQueueTx
<1>. QED
  BY <1>3, <1>4, <1>5, <1>6 DEF T!TypeOK, T!NotQueue

LEMMA HeadType ==
  ASSUME T!TypeOK, events # <<>>
  PROVE  /\ Tail(events) \in Seq([q : Queues, s : {"open", "closing", "closed"}])
         /\ Head(events).q \in Queues /\ Head(events).s \in {"open", "closing", "closed"}
<1> DEFINE E == [q : Queues, s : {"open", "closing", "closed"}]
<1>1. Head(events) \in E /\ Tail(events) \in Seq(E)
  <2>1. events \in Seq(E) /\ events # <<>>
    BY DEF T!TypeOK
  <2> HIDE DEF E
  <2>. QED
    BY <2>1
<1>. QED
  BY <1>1

LEMMA TenancyTypes == ASSUME T!TypeOK, T!Next PROVE T!TypeOK'
<1>1. ASSUME NEW a \in T!Accounts, NEW pw \in Passwords, T!Login(a, pw) PROVE T!TypeOK'
  <2>1. T!GenerateToken(a) \in [user : T!Accounts, hash : T!Hashes, at : Nat]
    BY DEF T!TypeOK, T!GenerateToken
  <2>. QED
    BY <1>1, <2>1 DEF T!TypeOK, T!Login
<1>2. ASSUME NEW t \in Threads, T!Begin(t) PROVE T!TypeOK'
  <2>1. PICK tok \in tokens :
          \E r \in T!UserRequests(tok.user) \cup T!GrantRequests(tok.user)
                     \cup T!QueueRequests(tok.user) : req' = [req EXCEPT ![t] = r]
    BY <1>2 DEF T!Begin
  <2>2. T!UserRequests(tok.user) \cup T!GrantRequests(tok.user)
          \cup T!QueueRequests(tok.user) \subseteq T!Requests
    BY DEF T!UserRequests, T!GrantRequests, T!QueueRequests, T!Requests
  <2>3. req' \in [Threads -> T!Requests]
    BY <2>1, <2>2 DEF T!TypeOK
  <2>4. overlap' \in BOOLEAN
    BY <1>2 DEF T!Begin, T!TypeOK
  <2>. QED
    BY <1>2, <2>3, <2>4 DEF T!TypeOK, T!Begin
<1>3. ASSUME NEW t \in Threads, T!Fail(t) PROVE T!TypeOK'
  <2>1. req' \in [Threads -> T!Requests]
    BY <1>3, RequestType DEF T!Fail
  <2>. QED
    BY <1>3, <2>1 DEF T!TypeOK, T!Fail
<1>4. ASSUME NEW q \in Queues, T!Volcano(q) PROVE T!TypeOK'
  <2>1. PICK s \in {<<"new", "open">>, <<"open", "closing">>, <<"closing", "closed">>} :
          /\ vc' = [vc EXCEPT ![q] = s[2]] /\ events' = Append(events, [q |-> q, s |-> s[2]])
          /\ command' = IF s[1] = "open" THEN command \ {q} ELSE command
          /\ UNCHANGED <<user, tokens, grants, queue, req, writes, since, faults, overlap>>
    BY <1>4 DEF T!Volcano
  <2>2. s[2] \in {"open", "closing", "closed"}
    OBVIOUS
  <2>3. events' \in Seq([q : Queues, s : {"open", "closing", "closed"}])
    BY <2>1, <2>2 DEF T!TypeOK
  <2>4. vc' \in [Queues -> T!VolcanoStates \cup {"none"}] /\ command' \subseteq Queues
    BY <2>1, <2>2 DEF T!TypeOK, T!VolcanoStates
  <2>. QED
    BY <2>1, <2>3, <2>4 DEF T!TypeOK
<1>5. CASE T!UpdateQueueCache
  <2>1. /\ events' \in Seq([q : Queues, s : {"open", "closing", "closed"}])
        /\ Head(events).q \in Queues /\ Head(events).s \in {"open", "closing", "closed"}
    BY <1>5, HeadType DEF T!UpdateQueueCache
  <2>2. queue' \in [Queues -> T!RowStates \cup {"none"}]
    BY <1>5, <2>1 DEF T!TypeOK, T!UpdateQueueCache, T!SetQueue, T!RowStates
  <2>. QED
    BY <1>5, <2>1, <2>2 DEF T!TypeOK, T!UpdateQueueCache
<1>. QED
  BY <1>1, <1>2, <1>3, <1>4, <1>5, UserTypes, GrantTypes, QueueTypes
     DEF T!Next, T!Handlers

-----------------------------------------------------------------------------
(* Tokens *)

\* A new password brings a new salt, and with it a new hash.
LEMMA TenancySalts ==
  ASSUME T!TypeOK, T!SaltInv, T!Next PROVE T!SaltInv'
<1>1. ASSUME UNCHANGED <<user, since, tokens>> PROVE T!SaltInv'
  BY <1>1 DEF T!SaltInv, T!Exists
<1>2. ASSUME NEW a \in T!Accounts, NEW pw \in Passwords, T!Login(a, pw) PROVE T!SaltInv'
  BY <1>2 DEF T!SaltInv, T!Exists, T!Login, T!GenerateToken
<1>3. ASSUME NEW u \in T!Accounts, NEW pw, T!SetPassword(u, pw), UNCHANGED tokens
      PROVE  T!SaltInv'
  BY <1>3 DEF T!TypeOK, T!SaltInv, T!Exists, T!SetPassword, T!EncodePassWord
<1>4. ASSUME NEW u \in T!Accounts, T!RemoveUser(u), UNCHANGED <<since, tokens>>
      PROVE  T!SaltInv'
  BY <1>4 DEF T!TypeOK, T!SaltInv, T!Exists, T!RemoveUser
<1>5. ASSUME NEW t \in Threads, T!CreateUser(t) \/ T!UpdateUserWrite(t) \/ T!DeleteUserRow(t)
      PROVE  T!SaltInv'
  <2>1. req[t].u \in T!Accounts /\ UNCHANGED tokens
    BY <1>5, RequestFields DEF T!CreateUser, T!UpdateUserWrite, T!DeleteUserRow, T!At,
                               T!UserOps, T!NotUser
  <2>. QED
    BY <1>1, <1>3, <1>4, <1>5, <2>1 DEF T!CreateUser, T!UpdateUserWrite, T!DeleteUserRow
<1>. QED
  BY <1>1, <1>2, <1>5, ZenonT(60)
     DEF T!Next, T!Handlers, T!Begin, T!Fail, T!Volcano, T!UpdateQueueCache,
         T!UpdateUserCheck, T!DeleteUserCheck, T!DeleteUserGrants, T!NotUser,
         T!CheckResource, T!CheckUser, T!CreateGrantCheck, T!CreateGrantInsert,
         T!DeleteGrantCheck, T!DeleteGrant, T!NotGrant, T!CreateQueueExist,
         T!CreateQueueInsert, T!CreateQueueVC, T!CreateQueueOpen, T!CreateQueueRollback,
         T!CloseQueueRead, T!CloseQueueCommand, T!CloseQueueRecord, T!DeleteQueueRead,
         T!DeleteQueueVC, T!DeleteQueueRow, T!NotQueue

-----------------------------------------------------------------------------
(* Grants *)

\* Where a step leaves the queues and grants alone, or takes grants away.
LEMMA QueueGrants ==
  ASSUME T!TypeOK, T!GrantsDieWithQueue, T!Next PROVE T!GrantsDieWithQueue'
<1>1. ASSUME grants' \subseteq grants,
             \A q \in Queues : queue[q] # "none" => queue'[q] # "none"
      PROVE  T!GrantsDieWithQueue'
  BY <1>1 DEF T!TypeOK, T!GrantsDieWithQueue, T!Resources
<1>2. ASSUME NEW q \in Queues, T!DeleteQueueTx(q) PROVE T!GrantsDieWithQueue'
  BY <1>2 DEF T!TypeOK, T!GrantsDieWithQueue, T!Resources, T!DeleteQueueTx
<1>3. ASSUME NEW t \in Threads, T!CreateGrantInsert(t) PROVE T!GrantsDieWithQueue'
  <2>1. /\ grants' = grants \cup {[user |-> req[t].u, r |-> req[t].r,
                                   fresh |-> T!HasResource(req[t].r)]}
        /\ queue' = queue
    BY <1>3 DEF T!CreateGrantInsert, T!InsertGrant, T!NotGrant
  <2> SUFFICES ASSUME NEW g \in grants', g.r.type = "queue", g.fresh
               PROVE  queue[g.r.id] # "none"
    BY <2>1 DEF T!GrantsDieWithQueue
  <2>2. CASE g \in grants
    BY <2>2 DEF T!GrantsDieWithQueue
  <2>3. CASE g = [user |-> req[t].u, r |-> req[t].r, fresh |-> T!HasResource(req[t].r)]
    <3>1. g.r = req[t].r /\ T!HasResource(req[t].r)
      BY <2>3
    <3>. QED
      BY <3>1 DEF T!HasResource
  <2>. QED
    BY <2>1, <2>2, <2>3
<1>4. ASSUME NEW t \in Threads, T!CreateQueueRollback(t) \/ T!DeleteQueueRow(t)
      PROVE  T!GrantsDieWithQueue'
  BY <1>2, <1>4, RequestFields DEF T!CreateQueueRollback, T!DeleteQueueRow, T!At, T!QueueOps
<1>5. ASSUME NEW q, NEW s \in {"creating", "open", "closing", "closed"}, T!SetQueue(q, s)
      PROVE  \A p \in Queues : queue[p] # "none" => queue'[p] # "none"
  BY <1>5 DEF T!TypeOK, T!SetQueue
<1>6. CASE T!UpdateQueueCache
  <2>1. Head(events).s \in {"open", "closing", "closed"}
    BY <1>6, HeadType DEF T!UpdateQueueCache
  <2>. QED
    BY <1>1, <1>5, <1>6, <2>1 DEF T!UpdateQueueCache
<1>7. ASSUME NEW t \in Threads,
             T!CreateQueueInsert(t) \/ T!CreateQueueOpen(t) \/ T!CloseQueueRecord(t)
      PROVE  T!GrantsDieWithQueue'
  BY <1>1, <1>5, <1>7
     DEF T!TypeOK, T!CreateQueueInsert, T!CreateQueueOpen, T!CloseQueueRecord
<1>8. ASSUME NEW t \in Threads, \/ T!CreateUser(t) \/ T!UpdateUserCheck(t)
               \/ T!UpdateUserWrite(t) \/ T!DeleteUserCheck(t) \/ T!DeleteUserRow(t)
               \/ T!DeleteUserGrants(t)
      PROVE  grants' \subseteq grants /\ UNCHANGED queue
  BY <1>8 DEF T!CreateUser, T!UpdateUserCheck, T!UpdateUserWrite, T!DeleteUserCheck,
              T!DeleteUserRow, T!DeleteUserGrants, T!NotUser
<1>. QED
  BY <1>1, <1>3, <1>4, <1>6, <1>7, <1>8
     DEF T!Next, T!Handlers, T!Login, T!Begin, T!Fail, T!Volcano,
         T!CheckResource, T!CheckUser, T!CreateGrantCheck,
         T!DeleteGrantCheck, T!DeleteGrant, T!NotGrant, T!CreateQueueExist,
         T!CreateQueueVC, T!CloseQueueRead, T!CloseQueueCommand, T!DeleteQueueRead,
         T!DeleteQueueVC, T!NotQueue

\* A handler only moves its own request, and counts the faults it drops.
LEMMA HandlerFrame ==
  ASSUME T!TypeOK, NEW t \in Threads, T!Handlers(t)
  PROVE  /\ req[t] # T!Idle /\ UNCHANGED overlap
         /\ \A o \in Threads \ {t} : req'[o] = req[o]
         /\ faults' = faults \/ faults' = faults + 1
<1>1. req[t].op # "idle" => req[t] # T!Idle
  BY DEF T!Idle
<1>2. req \in [Threads -> T!Requests]
  BY DEF T!TypeOK
<1>. USE DEF T!At, T!Go, T!Done, T!Next1
<1>3. CASE \/ T!CreateUser(t) \/ T!UpdateUserCheck(t) \/ T!UpdateUserWrite(t)
           \/ T!DeleteUserCheck(t) \/ T!DeleteUserRow(t) \/ T!DeleteUserGrants(t)
  BY <1>1, <1>2, <1>3
     DEF T!CreateUser, T!UpdateUserCheck, T!UpdateUserWrite, T!DeleteUserCheck,
         T!DeleteUserRow, T!DeleteUserGrants, T!NotUser
<1>4. CASE \/ T!CheckResource(t) \/ T!CheckUser(t) \/ T!CreateGrantCheck(t)
           \/ T!CreateGrantInsert(t) \/ T!DeleteGrantCheck(t) \/ T!DeleteGrant(t)
  BY <1>1, <1>2, <1>4
     DEF T!CheckResource, T!CheckUser, T!CreateGrantCheck, T!CreateGrantInsert,
         T!DeleteGrantCheck, T!DeleteGrant, T!NotGrant, T!GrantOps
<1>5. CASE \/ T!CreateQueueExist(t) \/ T!CreateQueueInsert(t) \/ T!CreateQueueVC(t)
           \/ T!CreateQueueOpen(t) \/ T!CreateQueueRollback(t)
  BY <1>1, <1>2, <1>5
     DEF T!CreateQueueExist, T!CreateQueueInsert, T!CreateQueueVC, T!CreateQueueOpen,
         T!CreateQueueRollback, T!NotQueue
<1>6. CASE \/ T!CloseQueueRead(t) \/ T!CloseQueueCommand(t) \/ T!CloseQueueRecord(t)
           \/ T!DeleteQueueRead(t) \/ T!DeleteQueueVC(t) \/ T!DeleteQueueRow(t)
  BY <1>1, <1>2, <1>6
     DEF T!CloseQueueRead, T!CloseQueueCommand, T!CloseQueueRecord, T!DeleteQueueRead,
         T!DeleteQueueVC, T!DeleteQueueRow, T!NotQueue
<1>. QED
  BY <1>3, <1>4, <1>5, <1>6 DEF T!Handlers

\* Requests that run one by one did so before, and then no other is served.
LEMMA CalmSteps ==
  ASSUME T!TypeOK, T!Calm => T!OneByOne, T!Next, T!Calm'
  PROVE  /\ T!Calm /\ T!OneByOne'
         /\ \A t \in Threads : T!Handlers(t) \/ T!Begin(t) =>
              \A o \in Threads \ {t} : req[o] = T!Idle /\ req'[o] = T!Idle
         /\ \A t \in Threads : ~ T!Fail(t)
<1>0. faults \in Nat /\ overlap \in BOOLEAN /\ req \in [Threads -> T!Requests]
  BY DEF T!TypeOK
<1>1. ASSUME NEW t \in Threads, T!Handlers(t)
      PROVE  /\ T!Calm /\ T!OneByOne'
             /\ \A o \in Threads \ {t} : req[o] = T!Idle /\ req'[o] = T!Idle
  <2>1. T!Calm
    BY <1>0, <1>1, HandlerFrame DEF T!Calm
  <2>. QED
    BY <1>1, <2>1, HandlerFrame DEF T!OneByOne
<1>2. ASSUME NEW t \in Threads, T!Begin(t)
      PROVE  /\ T!Calm /\ T!OneByOne'
             /\ \A o \in Threads \ {t} : req[o] = T!Idle /\ req'[o] = T!Idle
  <2>1. T!Calm /\ \A o \in Threads \ {t} : req[o] = T!Idle
    BY <1>0, <1>2 DEF T!Calm, T!Begin
  <2>2. \A o \in Threads \ {t} : req'[o] = req[o]
    BY <1>0, <1>2 DEF T!Begin
  <2>. QED
    BY <2>1, <2>2 DEF T!OneByOne
<1>3. ASSUME NEW t \in Threads, T!Fail(t) PROVE FALSE
  BY <1>0, <1>3 DEF T!Fail, T!Calm
<1>4. ASSUME UNCHANGED <<req, faults, overlap>> PROVE T!Calm /\ T!OneByOne'
  BY <1>4 DEF T!Calm, T!OneByOne
<1>5. ASSUME \/ \E a \in T!Accounts, pw \in Passwords : T!Login(a, pw)
             \/ \E q \in Queues : T!Volcano(q)
             \/ T!UpdateQueueCache
      PROVE  UNCHANGED <<req, faults, overlap>>
  BY <1>5 DEF T!Login, T!Volcano, T!UpdateQueueCache
<1>. QED
  BY <1>1, <1>2, <1>3, <1>4, <1>5 DEF T!Next

\* What moving a request on changes in it, and what the last step of one leaves.
LEMMA MoveFields ==
  ASSUME T!TypeOK, NEW t \in Threads, NEW n, T!Go(t, n), req[t] # T!Idle
  PROVE  /\ req'[t].op = req[t].op /\ req'[t].pc = n
         /\ req[t].op \in T!UserOps \cup T!GrantOps => req'[t].u = req[t].u
         /\ req[t].op \in T!GrantOps => req'[t].r = req[t].r
         /\ req[t].op \in T!QueueOps => req'[t].q = req[t].q
<1>1. req'[t] = [req[t] EXCEPT !.pc = n]
  BY DEF T!TypeOK, T!Go
<1>2. CASE req[t] \in [op : T!UserOps, pc : 1..5, u : T!Accounts, pw : Passwords]
  BY <1>1, <1>2 DEF T!UserOps, T!GrantOps, T!QueueOps
<1>3. CASE req[t] \in [op : T!GrantOps, pc : 1..5, u : Users, r : T!Resources]
  BY <1>1, <1>3 DEF T!UserOps, T!GrantOps, T!QueueOps
<1>4. CASE req[t] \in [op : T!QueueOps, pc : 1..5, q : Queues]
  BY <1>1, <1>4 DEF T!UserOps, T!GrantOps, T!QueueOps
<1>. QED
  BY <1>2, <1>3, <1>4 DEF T!TypeOK, T!Requests

LEMMA DoneFields ==
  ASSUME T!TypeOK, NEW t \in Threads, T!Done(t) PROVE req'[t] = T!Idle /\ req'[t].op = "idle"
BY DEF T!TypeOK, T!Done, T!Idle

\* Under requests that run one by one, a grant without account is being removed.
LEMMA TenancyOwners ==
  ASSUME T!TypeOK, T!OwnerInv, T!Next PROVE T!OwnerInv'
<1> SUFFICES ASSUME T!Calm' PROVE T!OwnerInv'
  BY DEF T!OwnerInv
<1>1. /\ T!Calm /\ T!OneByOne'
      /\ \A t \in Threads : T!Handlers(t) \/ T!Begin(t) =>
           \A o \in Threads \ {t} : req[o] = T!Idle /\ req'[o] = T!Idle
      /\ \A t \in Threads : ~ T!Fail(t)
  BY CalmSteps DEF T!OwnerInv
<1> DEFINE Going(u) == \E t \in Threads : T!At(t, "deleteUser", 3) /\ req[t].u = u
           Owned == \A g \in grants : T!Exists(g.user) \/ Going(g.user)
           Granting == \A t \in Threads :
             req[t].op = "createGrant" /\ req[t].pc \in {3, 4} => T!Exists(req[t].u)
<1>2. Owned /\ Granting
  BY <1>1 DEF T!OwnerInv
<1>3. /\ req \in [Threads -> T!Requests] /\ user \in [T!Accounts -> T!Hashes]
      /\ writes \in Nat /\ \A g \in grants : g.user \in T!Accounts
      /\ T!Idle.op = "idle"
  BY DEF T!TypeOK, T!Accounts, T!Idle
<1> SUFFICES Owned' /\ Granting'
  BY <1>1 DEF T!OwnerInv
<1>4. ASSUME UNCHANGED <<req, user, grants>> PROVE Owned' /\ Granting'
  BY <1>2, <1>4 DEF T!Exists, T!At
<1>5. ASSUME NEW t \in Threads, T!Handlers(t) \/ T!Begin(t),
             \A a \in T!Accounts : T!Exists(a) => T!Exists(a)', grants' \subseteq grants,
             ~ T!At(t, "deleteUser", 3),
             req'[t].op = "createGrant" /\ req'[t].pc \in {3, 4} =>
               req[t].op = "createGrant" /\ req[t].pc \in {3, 4} /\ req'[t].u = req[t].u
      PROVE  Owned' /\ Granting'
  <2>1. \A u : ~ Going(u)
    BY <1>1, <1>3, <1>5 DEF T!At
  <2>2. Owned'
    BY <1>2, <1>3, <1>5, <2>1
  <2>3. \A o \in Threads : req'[o].op = "createGrant" => o = t
    BY <1>1, <1>3, <1>5
  <2>4. req[t].op = "createGrant" => req[t].u \in T!Accounts
    BY RequestFields DEF T!GrantOps, T!Accounts
  <2>. QED
    BY <1>2, <1>5, <2>2, <2>3, <2>4
<1>6. ASSUME NEW u \in T!Accounts, NEW pw, T!SetPassword(u, pw), NEW a \in T!Accounts,
             T!Exists(a)
      PROVE  T!Exists(a)'
  BY <1>3, <1>6 DEF T!Exists, T!SetPassword, T!EncodePassWord, T!NoRow
<1>7. ASSUME NEW t \in Threads, T!CreateUser(t) \/ T!UpdateUserCheck(t)
                                  \/ T!UpdateUserWrite(t) \/ T!DeleteUserCheck(t)
      PROVE  Owned' /\ Granting'
  <2>1. T!Handlers(t) /\ req[t].u \in T!Accounts /\ UNCHANGED grants
    BY <1>7, RequestFields DEF T!Handlers, T!CreateUser, T!UpdateUserCheck,
       T!UpdateUserWrite, T!DeleteUserCheck, T!At, T!UserOps
  <2>2. \A a \in T!Accounts : T!Exists(a) => T!Exists(a)'
    BY <1>6, <1>7, <2>1 DEF T!CreateUser, T!UpdateUserCheck, T!UpdateUserWrite,
                            T!DeleteUserCheck, T!Exists
  <2>3. ~ T!At(t, "deleteUser", 3) /\ req'[t].op # "createGrant"
    <3>1. /\ req[t].op \in T!UserOps /\ ~ T!At(t, "deleteUser", 3) /\ req[t] # T!Idle
          /\ T!Go(t, 2) \/ T!Done(t)
      BY <1>3, <1>7 DEF T!CreateUser, T!UpdateUserCheck, T!UpdateUserWrite,
                        T!DeleteUserCheck, T!At, T!Next1, T!UserOps
    <3>. QED
      BY <3>1, MoveFields, DoneFields DEF T!UserOps
  <2>. QED
    BY <1>5, <2>1, <2>2, <2>3
<1>8. ASSUME NEW t \in Threads, T!DeleteUserRow(t) PROVE Owned' /\ Granting'
  <2>1. /\ T!Handlers(t) /\ req[t].u \in T!Accounts /\ grants' = grants
        /\ req[t].op = "deleteUser" /\ req[t].pc = 2
        /\ req'[t].op = "deleteUser" /\ req'[t].pc = 3 /\ req'[t].u = req[t].u
        /\ \A a \in T!Accounts : a # req[t].u /\ T!Exists(a) => T!Exists(a)'
    BY <1>3, <1>8, RequestFields DEF T!Handlers, T!DeleteUserRow, T!RemoveUser, T!At,
       T!Go, T!Exists, T!UserOps
  <2>2. \A u : ~ Going(u)
    BY <1>1, <1>3, <2>1 DEF T!At
  <2>3. Going(req[t].u)'
    BY <2>1 DEF T!At
  <2>4. Owned'
    BY <1>2, <1>3, <2>1, <2>2, <2>3
  <2>. QED
    BY <1>1, <1>3, <2>1, <2>4
<1>9. ASSUME NEW t \in Threads, T!DeleteUserGrants(t) PROVE Owned' /\ Granting'
  <2>1. /\ T!Handlers(t) /\ user' = user /\ T!At(t, "deleteUser", 3)
        /\ grants' = {g \in grants : g.user # req[t].u} /\ req'[t] = T!Idle
    BY <1>3, <1>9 DEF T!Handlers, T!DeleteUserGrants, T!Done
  <2>2. \A u : Going(u) => u = req[t].u
    BY <1>1, <1>3, <2>1 DEF T!At
  <2>3. Owned'
    BY <1>2, <2>1, <2>2 DEF T!Exists
  <2>. QED
    BY <1>1, <1>3, <2>1, <2>3
<1>10. ASSUME NEW t \in Threads, T!CheckUser(t) PROVE Owned' /\ Granting'
  <2>1. /\ T!Handlers(t) /\ UNCHANGED <<user, grants>> /\ req[t].op \in T!GrantOps
        /\ ~ T!At(t, "deleteUser", 3)
        /\ req'[t].op = "createGrant" => req'[t].u = req[t].u /\ T!Exists(req[t].u)
    <3>1. /\ T!Handlers(t) /\ UNCHANGED <<user, grants>> /\ req[t].op \in T!GrantOps
          /\ ~ T!At(t, "deleteUser", 3) /\ req[t] # T!Idle
          /\ (T!Go(t, 3) /\ T!Exists(req[t].u)) \/ T!Done(t)
      BY <1>3, <1>10 DEF T!Handlers, T!CheckUser, T!Next1, T!NotGrant, T!GrantOps, T!At
    <3>. QED
      BY <3>1, MoveFields, DoneFields
  <2>2. \A u : ~ Going(u)
    BY <1>1, <1>3, <2>1 DEF T!At
  <2>3. Owned'
    BY <1>2, <2>1, <2>2 DEF T!Exists
  <2>. QED
    BY <1>1, <1>3, <2>1, <2>3 DEF T!Exists
<1>11. ASSUME NEW t \in Threads, T!CreateGrantInsert(t) PROVE Owned' /\ Granting'
  <2>1. /\ T!Handlers(t) /\ user' = user /\ T!At(t, "createGrant", 4) /\ req'[t] = T!Idle
        /\ \A g \in grants' : g \in grants \/ g.user = req[t].u
    BY <1>3, <1>11 DEF T!Handlers, T!CreateGrantInsert, T!InsertGrant, T!Done, T!NotGrant
  <2>2. T!Exists(req[t].u) /\ \A u : ~ Going(u)
    BY <1>1, <1>2, <1>3, <2>1 DEF T!At
  <2>3. Owned'
    BY <1>2, <2>1, <2>2 DEF T!Exists
  <2>. QED
    BY <1>1, <1>3, <2>1, <2>3
<1>12. ASSUME NEW t \in Threads,
              \/ T!CheckResource(t) \/ T!CreateGrantCheck(t)
              \/ T!DeleteGrantCheck(t) \/ T!DeleteGrant(t)
       PROVE  Owned' /\ Granting'
  <2>1. T!Handlers(t) /\ user' = user /\ grants' \subseteq grants /\ ~ T!At(t, "deleteUser", 3)
    BY <1>12 DEF T!Handlers, T!CheckResource, T!CreateGrantCheck, T!DeleteGrantCheck,
       T!DeleteGrant, T!NotGrant, T!At, T!GrantOps
  <2>2. req'[t].op = "createGrant" /\ req'[t].pc \in {3, 4} =>
          req[t].op = "createGrant" /\ req[t].pc \in {3, 4} /\ req'[t].u = req[t].u
    <3>1. /\ req[t].op \in T!GrantOps /\ req[t] # T!Idle
          /\ \/ T!Go(t, 2)
             \/ T!Go(t, 4) /\ (req[t].op = "createGrant" => req[t].pc = 3)
             \/ T!Done(t)
      BY <1>3, <1>12 DEF T!CheckResource, T!CreateGrantCheck, T!DeleteGrantCheck,
         T!DeleteGrant, T!At, T!Next1, T!GrantOps
    <3>. QED
      BY <3>1, MoveFields, DoneFields
  <2>. QED
    BY <1>5, <2>1, <2>2 DEF T!Exists
<1>13. ASSUME NEW t \in Threads,
              \/ T!CreateQueueExist(t) \/ T!CreateQueueInsert(t) \/ T!CreateQueueVC(t)
              \/ T!CreateQueueOpen(t) \/ T!CreateQueueRollback(t)
              \/ T!CloseQueueRead(t) \/ T!CloseQueueCommand(t) \/ T!CloseQueueRecord(t)
              \/ T!DeleteQueueRead(t) \/ T!DeleteQueueVC(t) \/ T!DeleteQueueRow(t)
       PROVE  Owned' /\ Granting'
  <2>. USE DEF T!CreateQueueExist, T!CreateQueueInsert, T!CreateQueueVC, T!CreateQueueOpen,
               T!CreateQueueRollback, T!CloseQueueRead, T!CloseQueueCommand,
               T!CloseQueueRecord, T!DeleteQueueRead, T!DeleteQueueVC, T!DeleteQueueRow
  <2>1. T!Handlers(t) /\ user' = user /\ grants' \subseteq grants /\ ~ T!At(t, "deleteUser", 3)
    BY <1>13 DEF T!Handlers, T!NotQueue, T!At, T!DeleteQueueTx
  <2>2. req'[t].op # "createGrant"
    <3>1. req[t].op \in T!QueueOps /\ req[t] # T!Idle /\ \E n \in 1..5 : T!Go(t, n) \/ T!Done(t)
      BY <1>3, <1>13 DEF T!At, T!Next1, T!QueueOps
    <3>. QED
      BY <3>1, MoveFields, DoneFields DEF T!QueueOps
  <2>. QED
    BY <1>5, <2>1, <2>2 DEF T!Exists
<1>14. ASSUME NEW t \in Threads, T!Begin(t) PROVE Owned' /\ Granting'
  <2>1. req[t] = T!Idle /\ UNCHANGED <<user, grants>> /\ req'[t].pc = 1
    BY <1>3, <1>14 DEF T!Begin, T!UserRequests, T!GrantRequests, T!QueueRequests
  <2>. QED
    BY <1>3, <1>5, <1>14, <2>1 DEF T!Exists, T!At
<1>15. ASSUME \/ \E a \in T!Accounts, pw \in Passwords : T!Login(a, pw)
              \/ \E q \in Queues : T!Volcano(q)
              \/ T!UpdateQueueCache
       PROVE  Owned' /\ Granting'
  BY <1>4, <1>15 DEF T!Login, T!Volcano, T!UpdateQueueCache
<1>. QED
  BY <1>1, <1>7, <1>8, <1>9, <1>10, <1>11, <1>12, <1>13, <1>14, <1>15
     DEF T!Next, T!Handlers

-----------------------------------------------------------------------------
\* What an update appended to those the informer has not seen says of each queue.
LEMMA LatestAppend ==
  ASSUME T!TypeOK, NEW q, NEW s, events' = Append(events, [q |-> q, s |-> s])
  PROVE  /\ T!Latest(q, s)'
         /\ \A p : p # q =>
              /\ \A x : T!Latest(p, x) => T!Latest(p, x)'
              /\ (\A i \in 1..Len(events) : events[i].q # p) =>
                   \A i \in 1..Len(events') : events'[i].q # p
<1> DEFINE E == [q : Queues, s : {"open", "closing", "closed"}]
           e == [q |-> q, s |-> s]
<1>1. events \in Seq(E)
  BY DEF T!TypeOK
<1> HIDE DEF E
<1>2. /\ Len(events) \in Nat /\ Len(events') = Len(events) + 1
      /\ events'[Len(events) + 1] = e
      /\ \A i \in 1..Len(events) : events'[i] = events[i]
  BY <1>1 DEF e
<1>3. e = [q |-> q, s |-> s] /\ e.q = q
  OBVIOUS
<1> HIDE DEF e
<1>4. T!Latest(q, s)'
  BY <1>2, <1>3 DEF T!Latest
<1>5. ASSUME NEW p, p # q, NEW x, T!Latest(p, x) PROVE T!Latest(p, x)'
  <2>1. PICK i \in 1..Len(events) : events[i] = [q |-> p, s |-> x]
          /\ \A j \in i + 1..Len(events) : events[j].q # p
    BY <1>5 DEF T!Latest
  <2>2. \A j \in i + 1..Len(events') : events'[j].q # p
    <3>1. PICK n \in Nat : n = Len(events) /\ Len(events') = n + 1
      BY <1>2
    <3>2. ASSUME NEW j \in i + 1..Len(events') PROVE events'[j].q # p
      <4>1. CASE j = n + 1
        BY <1>2, <1>3, <1>5, <3>1, <4>1
      <4>2. CASE j # n + 1
        <5>1. j \in i + 1..n /\ j \in 1..n
          BY <2>1, <3>1, <3>2, <4>2
        <5> QED
          BY <1>2, <2>1, <3>1, <5>1
      <4> QED
        BY <4>1, <4>2
    <3> QED
      BY <3>2
  <2>3. i \in 1..Len(events') /\ events'[i] = [q |-> p, s |-> x]
    BY <1>2, <2>1
  <2>. QED
    BY <2>2, <2>3 DEF T!Latest
<1>6. ASSUME NEW p, p # q, \A i \in 1..Len(events) : events[i].q # p
      PROVE  \A i \in 1..Len(events') : events'[i].q # p
  BY <1>2, <1>3, <1>6
<1>. QED
  BY <1>4, <1>5, <1>6

\* What the updates behind the first one still say once it is handled.
LEMMA LatestTail ==
  ASSUME T!TypeOK, events # <<>>, events' = Tail(events)
  PROVE  /\ \A p, x : T!Latest(p, x) =>
              \/ T!Latest(p, x)'
              \/ /\ Head(events) = [q |-> p, s |-> x]
                 /\ \A i \in 1..Len(events') : events'[i].q # p
         /\ \A p : (\A i \in 1..Len(events) : events[i].q # p) =>
              /\ Head(events).q # p
              /\ \A i \in 1..Len(events') : events'[i].q # p
<1> DEFINE E == [q : Queues, s : {"open", "closing", "closed"}]
<1>1. events \in Seq(E)
  BY DEF T!TypeOK
<1> HIDE DEF E
<1>2. /\ Len(events) \in Nat \ {0} /\ Len(events') = Len(events) - 1
      /\ Head(events) = events[1]
      /\ \A i \in 1..Len(events') : events'[i] = events[i + 1]
  BY <1>1
<1>3. ASSUME NEW p, NEW x, T!Latest(p, x), ~ T!Latest(p, x)'
      PROVE  Head(events) = [q |-> p, s |-> x] /\ \A i \in 1..Len(events') : events'[i].q # p
  <2>1. PICK i \in 1..Len(events) : events[i] = [q |-> p, s |-> x]
          /\ \A j \in i + 1..Len(events) : events[j].q # p
    BY <1>3 DEF T!Latest
  <2>2. CASE i = 1
    BY <1>2, <2>1, <2>2
  <2>3. CASE i # 1
    <3>1. i - 1 \in 1..Len(events') /\ events'[i - 1] = [q |-> p, s |-> x]
      BY <1>2, <2>1, <2>3
    <3>2. \A j \in (i - 1) + 1..Len(events') : events'[j].q # p
      BY <1>2, <2>1, <2>3
    <3>. QED
      BY <1>3, <3>1, <3>2 DEF T!Latest
  <2>. QED
    BY <2>2, <2>3
<1>4. ASSUME NEW p, \A i \in 1..Len(events) : events[i].q # p
      PROVE  Head(events).q # p /\ \A i \in 1..Len(events') : events'[i].q # p
  BY <1>2, <1>4
<1>. QED
  BY <1>3, <1>4

\* A queue that nothing happens to stays in agreement.
LEMMA AgreeFrame ==
  ASSUME NEW q, T!Agree(q), UNCHANGED events,
         queue'[q] = queue[q], vc'[q] = vc[q], q \in command' <=> q \in command,
         \A op \in T!QueueOps, pcs \in SUBSET (2..5) :
           T!Serving(q, op, pcs)' <=> T!Serving(q, op, pcs)
  PROVE  T!Agree(q)'
<1> DEFINE Same(op, pcs) == T!Serving(q, op, pcs)' <=> T!Serving(q, op, pcs)
<1>1. /\ Same("createQueue", {2}) /\ Same("createQueue", {3}) /\ Same("createQueue", {4})
      /\ Same("createQueue", {3, 5}) /\ Same("closeQueue", {3}) /\ Same("deleteQueue", {3})
  BY DEF T!QueueOps
<1>2. \A x : T!Latest(q, x)' <=> T!Latest(q, x)
  BY DEF T!Latest
<1>. QED
  BY <1>1, <1>2 DEF T!Agree

\* Where the one request that is being served is.
LEMMA ServedAlone ==
  ASSUME NEW t \in Threads, \A o \in Threads \ {t} : req[o] = T!Idle, NEW q,
         NEW op \in T!QueueOps, NEW pcs
  PROVE  T!Serving(q, op, pcs) <=> req[t].op = op /\ req[t].pc \in pcs /\ req[t].q = q
BY DEF T!Serving, T!Idle, T!QueueOps

\* A step of a queue request that runs alone and of which no call fails.
LEMMA QueueStepsAgree ==
  ASSUME T!TypeOK, T!AgreeInv, T!Calm, T!Calm', NEW t \in Threads,
         \A o \in Threads \ {t} : req[o] = T!Idle /\ req'[o] = T!Idle,
         \/ T!CreateQueueExist(t) \/ T!CreateQueueInsert(t) \/ T!CreateQueueVC(t)
         \/ T!CreateQueueOpen(t) \/ T!CreateQueueRollback(t)
         \/ T!CloseQueueRead(t) \/ T!CloseQueueCommand(t) \/ T!CloseQueueRecord(t)
         \/ T!DeleteQueueRead(t) \/ T!DeleteQueueVC(t) \/ T!DeleteQueueRow(t)
  PROVE  \A q \in Queues : T!Agree(q)'
<1> DEFINE Before(op, pcs) == req[t].op = op /\ req[t].pc \in pcs
           After(op, pcs) == req'[t].op = op /\ req'[t].pc \in pcs
<1>1. req[t].op \in T!QueueOps /\ req[t] # T!Idle
  BY DEF T!CreateQueueExist, T!CreateQueueInsert, T!CreateQueueVC, T!CreateQueueOpen,
     T!CreateQueueRollback, T!CloseQueueRead, T!CloseQueueCommand, T!CloseQueueRecord,
     T!DeleteQueueRead, T!DeleteQueueVC, T!DeleteQueueRow, T!At, T!QueueOps, T!Idle
<1>0. PICK p \in Queues : p = req[t].q
  BY <1>1, RequestFields
<1>2. /\ queue \in [Queues -> T!RowStates \cup {"none"}]
      /\ vc \in [Queues -> T!VolcanoStates \cup {"none"}]
      /\ faults \in Nat /\ \A q \in Queues : T!Agree(q)
  BY DEF T!TypeOK, T!AgreeInv
<1>3. \/ req'[t] = T!Idle /\ req'[t].op = "idle"
      \/ \E n \in 2..5 : T!Go(t, n) /\ req'[t].op = req[t].op /\ req'[t].pc = n /\ req'[t].q = p
  <2>1. T!Done(t) \/ \E n \in 2..5 : T!Go(t, n)
    BY DEF T!CreateQueueExist, T!CreateQueueInsert, T!CreateQueueVC, T!CreateQueueOpen,
       T!CreateQueueRollback, T!CloseQueueRead, T!CloseQueueCommand, T!CloseQueueRecord,
       T!DeleteQueueRead, T!DeleteQueueVC, T!DeleteQueueRow, T!Next1
  <2>. QED
    BY <1>0, <1>1, <2>1, MoveFields, DoneFields
<1>4. \A q, pcs : \A op \in T!QueueOps :
        /\ T!Serving(q, op, pcs) <=> Before(op, pcs) /\ q = p
        /\ T!Serving(q, op, pcs)' <=> After(op, pcs) /\ q = p
  <2>1. ASSUME NEW q, NEW op \in T!QueueOps, NEW pcs
        PROVE  T!Serving(q, op, pcs)' <=> After(op, pcs) /\ q = p
    BY <1>0, <1>1, <1>3, <2>1 DEF T!Serving, T!Idle, T!QueueOps
  <2>. QED
    BY <1>0, <2>1, ServedAlone
<1>5. ASSUME NEW q \in Queues, q # p PROVE T!Agree(q)'
  <2>1. /\ queue'[q] = queue[q] /\ vc'[q] = vc[q] /\ events' = events
        /\ q \in command' <=> q \in command
    BY <1>0, <1>2, <1>5 DEF T!CreateQueueExist, T!CreateQueueInsert, T!CreateQueueVC,
       T!CreateQueueOpen, T!CreateQueueRollback, T!CloseQueueRead, T!CloseQueueCommand,
       T!CloseQueueRecord, T!DeleteQueueRead, T!DeleteQueueVC, T!DeleteQueueRow,
       T!SetQueue, T!DeleteQueueTx
  <2>2. \A op \in T!QueueOps, pcs \in SUBSET (2..5) :
          T!Serving(q, op, pcs)' <=> T!Serving(q, op, pcs)
    BY <1>4, <1>5
  <2>. QED
    BY <1>2, <1>5, <2>1, <2>2, AgreeFrame
<1>a. \A pcs : \A op \in T!QueueOps :
        /\ T!Serving(p, op, pcs) <=> Before(op, pcs)
        /\ T!Serving(p, op, pcs)' <=> After(op, pcs)
  BY <1>4
<1>b. /\ T!Serving(p, "createQueue", {3, 5}) <=> Before("createQueue", {3, 5})
      /\ T!Serving(p, "createQueue", {2}) <=> Before("createQueue", {2})
      /\ T!Serving(p, "createQueue", {3}) <=> Before("createQueue", {3})
      /\ T!Serving(p, "createQueue", {4}) <=> Before("createQueue", {4})
      /\ T!Serving(p, "closeQueue", {3}) <=> Before("closeQueue", {3})
      /\ T!Serving(p, "deleteQueue", {3}) <=> Before("deleteQueue", {3})
  <2> HIDE DEF Before, After
  <2>. QED
    BY <1>a DEF T!QueueOps
<1>c. /\ T!Serving(p, "createQueue", {3, 5})' <=> After("createQueue", {3, 5})
      /\ T!Serving(p, "createQueue", {2})' <=> After("createQueue", {2})
      /\ T!Serving(p, "createQueue", {3})' <=> After("createQueue", {3})
      /\ T!Serving(p, "createQueue", {4})' <=> After("createQueue", {4})
      /\ T!Serving(p, "closeQueue", {3})' <=> After("closeQueue", {3})
      /\ T!Serving(p, "deleteQueue", {3})' <=> After("deleteQueue", {3})
  <2> HIDE DEF Before, After
  <2>. QED
    BY <1>a DEF T!QueueOps
<1> DEFINE Behind == \/ T!Latest(p, vc[p])
                     \/ /\ \A i \in 1..Len(events) : events[i].q # p
                        /\ \/ queue[p] = vc[p]
                           \/ queue[p] = "closed" /\ (vc[p] = "closing" \/ p \in command)
<1>6. /\ vc[p] = "none" => p \notin command
      /\ vc[p] # "none" => queue[p] # "none"
      /\ queue[p] # "none" /\ vc[p] = "none" =>
           Before("createQueue", {3, 5}) \/ Before("deleteQueue", {3})
      /\ Before("createQueue", {2}) => queue[p] = "none"
      /\ Before("createQueue", {3, 5}) => vc[p] = "none"
      /\ Before("createQueue", {3}) => queue[p] # "none"
      /\ Before("createQueue", {4}) => vc[p] \in {"new", "open"} /\ p \notin command
      /\ Before("closeQueue", {3}) => vc[p] \in {"closing", "closed"} \/ p \in command
      /\ Before("deleteQueue", {3}) => vc[p] = "none"
      /\ vc[p] \in {"open", "closing", "closed"} => Behind
  BY <1>2, <1>b DEF T!Agree
<1>7. ASSUME /\ vc'[p] = "none" => p \notin command'
             /\ vc'[p] # "none" => queue'[p] # "none"
             /\ queue'[p] # "none" /\ vc'[p] = "none" =>
                  After("createQueue", {3, 5}) \/ After("deleteQueue", {3})
             /\ After("createQueue", {2}) => queue'[p] = "none"
             /\ After("createQueue", {3, 5}) => vc'[p] = "none"
             /\ After("createQueue", {3}) => queue'[p] # "none"
             /\ After("createQueue", {4}) => vc'[p] \in {"new", "open"} /\ p \notin command'
             /\ After("closeQueue", {3}) => vc'[p] \in {"closing", "closed"} \/ p \in command'
             /\ After("deleteQueue", {3}) => vc'[p] = "none"
             /\ events' = events
             /\ vc'[p] \in {"open", "closing", "closed"} =>
                  \/ T!Latest(p, vc'[p])
                  \/ /\ \A i \in 1..Len(events) : events[i].q # p
                     /\ \/ queue'[p] = vc'[p]
                        \/ queue'[p] = "closed" /\ (vc'[p] = "closing" \/ p \in command')
      PROVE  \A q \in Queues : T!Agree(q)'
  <2>1. \A x : T!Latest(p, x)' <=> T!Latest(p, x)
    BY <1>7 DEF T!Latest
  <2>2. T!Agree(p)'
    BY <1>7, <1>c, <2>1 DEF T!Agree
  <2>. QED
    BY <1>5, <2>2
<1> USE DEF T!At, T!Next1
<1>8. CASE T!CreateQueueExist(t)
  <2>1. /\ req[t].op = "createQueue" /\ req[t].pc = 1 /\ UNCHANGED <<queue, vc, command, events>>
        /\ \/ queue[p] = "none" /\ req'[t].op = "createQueue" /\ req'[t].pc = 2
           \/ req'[t].op = "idle"
    BY <1>0, <1>1, <1>2, <1>8, MoveFields, DoneFields DEF T!CreateQueueExist, T!Calm
  <2>. QED
    BY <1>6, <1>7, <2>1
<1>9. CASE T!CreateQueueInsert(t)
  <2>1. /\ req[t].op = "createQueue" /\ req[t].pc = 2 /\ UNCHANGED <<vc, command, events>>
        /\ queue[p] = "none" /\ queue'[p] = "creating"
        /\ req'[t].op = "createQueue" /\ req'[t].pc = 3
    BY <1>0, <1>1, <1>2, <1>6, <1>9, MoveFields DEF T!CreateQueueInsert
  <2>. QED
    BY <1>6, <1>7, <2>1
<1>10. CASE T!CreateQueueVC(t)
  <2>1. /\ req[t].op = "createQueue" /\ req[t].pc = 3 /\ UNCHANGED <<queue, command, events>>
        /\ req'[t].op = "createQueue"
        /\ \/ vc'[p] = "new" /\ req'[t].pc = 4
           \/ vc' = vc /\ req'[t].pc = 5
    <3>1. \/ T!Go(t, 4) /\ vc' = [vc EXCEPT ![p] = "new"]
          \/ T!Go(t, 5) /\ vc' = vc
      BY <1>0, <1>10 DEF T!CreateQueueVC
    <3>2. /\ T!Go(t, 4) => req'[t].op = req[t].op /\ req'[t].pc = 4
          /\ T!Go(t, 5) => req'[t].op = req[t].op /\ req'[t].pc = 5
      BY <1>1, MoveFields
    <3>3. vc' = [vc EXCEPT ![p] = "new"] => vc'[p] = "new"
      BY <1>2
    <3>4. req[t].op = "createQueue" /\ req[t].pc = 3 /\ UNCHANGED <<queue, command, events>>
      BY <1>10 DEF T!CreateQueueVC
    <3>. QED
      BY <3>1, <3>2, <3>3, <3>4
  <2>. QED
    BY <1>6, <1>7, <2>1
<1>11. CASE T!CreateQueueOpen(t)
  <2>1. /\ req[t].op = "createQueue" /\ req[t].pc = 4 /\ UNCHANGED <<vc, command, events>>
        /\ queue'[p] = (IF queue[p] = "none" THEN "none" ELSE "open") /\ req'[t].op = "idle"
    BY <1>0, <1>2, <1>11, DoneFields DEF T!CreateQueueOpen, T!SetQueue
  <2>. QED
    BY <1>6, <1>7, <2>1
<1>12. CASE T!CreateQueueRollback(t)
  <2>1. /\ req[t].op = "createQueue" /\ req[t].pc = 5 /\ UNCHANGED <<vc, command, events>>
        /\ queue'[p] = "none" /\ req'[t].op = "idle"
    BY <1>0, <1>2, <1>12, DoneFields DEF T!CreateQueueRollback, T!DeleteQueueTx
  <2>. QED
    BY <1>6, <1>7, <2>1
<1>13. CASE T!CloseQueueRead(t)
  <2>1. /\ req[t].op = "closeQueue" /\ req[t].pc = 1 /\ UNCHANGED <<queue, vc, command, events>>
        /\ (req'[t].op = "closeQueue" /\ req'[t].pc = 2) \/ req'[t].op = "idle"
    BY <1>0, <1>1, <1>2, <1>13, MoveFields, DoneFields DEF T!CloseQueueRead
  <2>. QED
    BY <1>6, <1>7, <2>1
<1>14. CASE T!CloseQueueCommand(t)
  <2>1. /\ req[t].op = "closeQueue" /\ req[t].pc = 2 /\ UNCHANGED <<queue, vc, events>>
        /\ \/ /\ vc[p] # "none" /\ command' = command \cup {p}
              /\ req'[t].op = "closeQueue" /\ req'[t].pc = 3
           \/ vc[p] = "none" /\ command' = command /\ req'[t].op = "idle"
    BY <1>0, <1>1, <1>2, <1>14, MoveFields, DoneFields DEF T!CloseQueueCommand
  <2>. QED
    BY <1>6, <1>7, <2>1
<1>15. CASE T!CloseQueueRecord(t)
  <2>1. /\ req[t].op = "closeQueue" /\ req[t].pc = 3 /\ UNCHANGED <<vc, command, events>>
        /\ queue'[p] = (IF queue[p] = "none" THEN "none" ELSE "closed") /\ req'[t].op = "idle"
    BY <1>0, <1>2, <1>15, DoneFields DEF T!CloseQueueRecord, T!SetQueue
  <2>. QED
    BY <1>6, <1>7, <2>1
<1>16. CASE T!DeleteQueueRead(t)
  <2>1. /\ req[t].op = "deleteQueue" /\ req[t].pc = 1 /\ UNCHANGED <<queue, vc, command, events>>
        /\ (req'[t].op = "deleteQueue" /\ req'[t].pc = 2) \/ req'[t].op = "idle"
    BY <1>0, <1>1, <1>2, <1>16, MoveFields, DoneFields DEF T!DeleteQueueRead
  <2>. QED
    BY <1>6, <1>7, <2>1
<1>17. CASE T!DeleteQueueVC(t)
  <2>1. /\ req[t].op = "deleteQueue" /\ req[t].pc = 2 /\ UNCHANGED <<queue, events>>
        /\ vc'[p] = "none" /\ p \notin command'
        /\ \/ vc[p] # "none" /\ req'[t].op = "deleteQueue" /\ req'[t].pc = 3
           \/ vc[p] = "none" /\ req'[t].op = "idle"
    BY <1>0, <1>1, <1>2, <1>17, MoveFields, DoneFields DEF T!DeleteQueueVC
  <2>. QED
    BY <1>6, <1>7, <2>1
<1>18. CASE T!DeleteQueueRow(t)
  <2>1. /\ req[t].op = "deleteQueue" /\ req[t].pc = 3 /\ UNCHANGED <<vc, command, events>>
        /\ queue'[p] = "none" /\ req'[t].op = "idle"
    BY <1>0, <1>2, <1>18, DoneFields DEF T!DeleteQueueRow, T!DeleteQueueTx
  <2>. QED
    BY <1>6, <1>7, <2>1
<1>. QED
  BY <1>8, <1>9, <1>10, <1>11, <1>12, <1>13, <1>14, <1>15, <1>16, <1>17, <1>18

\* A row of the queue table agrees with the cluster, or the informer, a command or
\* the request that is being served is still to make it.
LEMMA TenancyAgrees ==
  ASSUME T!TypeOK, T!OwnerInv, T!AgreeInv, T!Next PROVE T!AgreeInv'
<1> SUFFICES ASSUME T!Calm' PROVE \A q \in Queues : T!Agree(q)'
  BY DEF T!AgreeInv
<1>1. /\ T!Calm
      /\ \A t \in Threads : T!Handlers(t) \/ T!Begin(t) =>
           \A o \in Threads \ {t} : req[o] = T!Idle /\ req'[o] = T!Idle
      /\ \A t \in Threads : ~ T!Fail(t)
  BY CalmSteps DEF T!OwnerInv
<1>2. /\ req \in [Threads -> T!Requests] /\ T!Idle.op = "idle"
      /\ queue \in [Queues -> T!RowStates \cup {"none"}]
      /\ vc \in [Queues -> T!VolcanoStates \cup {"none"}]
      /\ \A q \in Queues : T!Agree(q)
  BY <1>1 DEF T!TypeOK, T!AgreeInv, T!Idle
<1>3. ASSUME UNCHANGED <<queue, vc, command, events>>,
             \A q \in Queues, pcs \in SUBSET (2..5) : \A op \in T!QueueOps :
               T!Serving(q, op, pcs)' <=> T!Serving(q, op, pcs)
      PROVE  \A q \in Queues : T!Agree(q)'
  <2>1. ASSUME NEW q \in Queues PROVE T!Agree(q)'
    <3>1. \A op \in T!QueueOps, pcs \in SUBSET (2..5) :
            T!Serving(q, op, pcs)' <=> T!Serving(q, op, pcs)
      BY <1>3
    <3>. QED
      BY <1>2, <1>3, <3>1, AgreeFrame
  <2>. QED
    BY <2>1
<1>4. ASSUME NEW t \in Threads, T!Handlers(t) \/ T!Begin(t),
             UNCHANGED <<queue, vc, command, events>>,
             req[t].op \notin T!QueueOps \/ req[t].pc \notin 2..5,
             req'[t].op \notin T!QueueOps \/ req'[t].pc \notin 2..5
      PROVE  \A q \in Queues : T!Agree(q)'
  <2>1. \A q, pcs : \A op \in T!QueueOps :
          /\ T!Serving(q, op, pcs) => req[t].op = op /\ req[t].pc \in pcs
          /\ T!Serving(q, op, pcs)' => req'[t].op = op /\ req'[t].pc \in pcs
    BY <1>1, <1>2, <1>4 DEF T!Serving, T!QueueOps
  <2>2. \A q \in Queues, pcs \in SUBSET (2..5) : \A op \in T!QueueOps :
          ~ T!Serving(q, op, pcs) /\ ~ T!Serving(q, op, pcs)'
    BY <1>4, <2>1
  <2>. QED
    BY <1>3, <1>4, <2>2
<1>5. ASSUME NEW t \in Threads,
             \/ T!CreateUser(t) \/ T!UpdateUserCheck(t) \/ T!UpdateUserWrite(t)
             \/ T!DeleteUserCheck(t) \/ T!DeleteUserRow(t) \/ T!DeleteUserGrants(t)
      PROVE  \A q \in Queues : T!Agree(q)'
  <2>1. /\ T!Handlers(t) /\ req[t].op \in T!UserOps /\ req[t] # T!Idle
        /\ UNCHANGED <<queue, vc, command, events>>
        /\ T!Done(t) \/ T!Go(t, 2) \/ T!Go(t, 3)
    BY <1>2, <1>5 DEF T!Handlers, T!CreateUser, T!UpdateUserCheck, T!UpdateUserWrite,
       T!DeleteUserCheck, T!DeleteUserRow, T!DeleteUserGrants, T!At, T!NotUser, T!Next1,
       T!UserOps
  <2>2. req'[t].op \in T!UserOps \cup {"idle"}
    BY <2>1, MoveFields, DoneFields
  <2>. QED
    BY <1>4, <2>1, <2>2 DEF T!UserOps, T!QueueOps
<1>6. ASSUME NEW t \in Threads,
             \/ T!CheckResource(t) \/ T!CheckUser(t) \/ T!CreateGrantCheck(t)
             \/ T!CreateGrantInsert(t) \/ T!DeleteGrantCheck(t) \/ T!DeleteGrant(t)
      PROVE  \A q \in Queues : T!Agree(q)'
  <2>1. /\ T!Handlers(t) /\ req[t].op \in T!GrantOps /\ req[t] # T!Idle
        /\ UNCHANGED <<queue, vc, command, events>>
        /\ \E n \in 2..4 : T!Done(t) \/ T!Go(t, n)
    BY <1>2, <1>6 DEF T!Handlers, T!CheckResource, T!CheckUser, T!CreateGrantCheck,
       T!CreateGrantInsert, T!DeleteGrantCheck, T!DeleteGrant, T!At, T!NotGrant, T!Next1,
       T!GrantOps
  <2>2. req'[t].op \in T!GrantOps \cup {"idle"}
    BY <2>1, MoveFields, DoneFields
  <2>. QED
    BY <1>4, <2>1, <2>2 DEF T!GrantOps, T!QueueOps
<1>7. ASSUME NEW t \in Threads,
             \/ T!CreateQueueExist(t) \/ T!CreateQueueInsert(t) \/ T!CreateQueueVC(t)
             \/ T!CreateQueueOpen(t) \/ T!CreateQueueRollback(t)
             \/ T!CloseQueueRead(t) \/ T!CloseQueueCommand(t) \/ T!CloseQueueRecord(t)
             \/ T!DeleteQueueRead(t) \/ T!DeleteQueueVC(t) \/ T!DeleteQueueRow(t)
      PROVE  \A q \in Queues : T!Agree(q)'
  <2>1. \A o \in Threads \ {t} : req[o] = T!Idle /\ req'[o] = T!Idle
    BY <1>1, <1>7 DEF T!Handlers
  <2>. QED
    BY <1>1, <1>7, <2>1, QueueStepsAgree
<1>8. ASSUME NEW t \in Threads, T!Begin(t) PROVE \A q \in Queues : T!Agree(q)'
  <2>1. /\ req[t] = T!Idle /\ UNCHANGED <<queue, vc, command, events>> /\ req'[t].pc = 1
    BY <1>2, <1>8 DEF T!Begin, T!UserRequests, T!GrantRequests, T!QueueRequests
  <2>. QED
    BY <1>2, <1>4, <1>8, <2>1 DEF T!QueueOps
<1>9. ASSUME NEW a \in T!Accounts, NEW pw, T!Login(a, pw) PROVE \A q \in Queues : T!Agree(q)'
  BY <1>3, <1>9 DEF T!Login, T!Serving
<1>10. ASSUME NEW p \in Queues, T!Volcano(p) PROVE \A q \in Queues : T!Agree(q)'
  <2>1. PICK from, to :
          /\ \/ from = "new" /\ to = "open"
             \/ from = "open" /\ to = "closing"
             \/ from = "closing" /\ to = "closed"
          /\ vc[p] = from /\ vc' = [vc EXCEPT ![p] = to]
          /\ from = "open" => p \in command
          /\ command' = IF from = "open" THEN command \ {p} ELSE command
          /\ events' = Append(events, [q |-> p, s |-> to]) /\ UNCHANGED <<queue, req>>
    <3>1. PICK s \in {<<"new", "open">>, <<"open", "closing">>, <<"closing", "closed">>} :
            /\ vc[p] = s[1] /\ vc' = [vc EXCEPT ![p] = s[2]]
            /\ s[1] = "open" => p \in command
            /\ command' = IF s[1] = "open" THEN command \ {p} ELSE command
            /\ events' = Append(events, [q |-> p, s |-> s[2]]) /\ UNCHANGED <<queue, req>>
      BY <1>10 DEF T!Volcano
    <3>2. \/ s[1] = "new" /\ s[2] = "open"
          \/ s[1] = "open" /\ s[2] = "closing"
          \/ s[1] = "closing" /\ s[2] = "closed"
      BY <3>1
    <3>. QED
      BY <3>1, <3>2
  <2>2. \A q, op, pcs : T!Serving(q, op, pcs)' <=> T!Serving(q, op, pcs)
    BY <2>1 DEF T!Serving
  <2>3. /\ T!Latest(p, to)'
        /\ \A q : q # p =>
             /\ \A x : T!Latest(q, x) => T!Latest(q, x)'
             /\ (\A i \in 1..Len(events) : events[i].q # q) =>
                  \A i \in 1..Len(events') : events'[i].q # q
    BY <2>1, LatestAppend
  <2>4. T!Agree(p)'
    <3>1. vc'[p] = to /\ queue' = queue
      BY <1>2, <2>1
    <3>2. T!Agree(p)
      BY <1>2
    <3>. QED
      BY <2>1, <2>2, <2>3, <3>1, <3>2 DEF T!Agree
  <2>5. ASSUME NEW q \in Queues, q # p PROVE T!Agree(q)'
    <3>1. vc'[q] = vc[q] /\ queue' = queue /\ (q \in command' <=> q \in command)
      BY <1>2, <2>1, <2>5
    <3>2. T!Agree(q)
      BY <1>2
    <3>. QED
      BY <2>2, <2>3, <2>5, <3>1, <3>2 DEF T!Agree
  <2>. QED
    BY <2>4, <2>5
<1>11. ASSUME T!UpdateQueueCache, NEW q \in Queues PROVE T!Agree(q)'
  <2>1. /\ events # <<>> /\ events' = Tail(events) /\ UNCHANGED <<vc, command, req>>
        /\ T!SetQueue(Head(events).q, Head(events).s)
    BY <1>11 DEF T!UpdateQueueCache
  <2>2. \A op, pcs : T!Serving(q, op, pcs)' <=> T!Serving(q, op, pcs)
    BY <2>1 DEF T!Serving
  <2>3. /\ \A x : T!Latest(q, x) =>
             \/ T!Latest(q, x)'
             \/ /\ Head(events) = [q |-> q, s |-> x]
                /\ \A i \in 1..Len(events') : events'[i].q # q
        /\ (\A i \in 1..Len(events) : events[i].q # q) =>
             /\ Head(events).q # q
             /\ \A i \in 1..Len(events') : events'[i].q # q
    BY <2>1, LatestTail
  <2>4. /\ queue'[q] = "none" <=> queue[q] = "none"
        /\ Head(events).q # q => queue'[q] = queue[q]
        /\ \A x : Head(events) = [q |-> q, s |-> x] /\ queue[q] # "none" => queue'[q] = x
    BY <1>2, <2>1, HeadType DEF T!SetQueue
  <2>5. T!Agree(q)
    BY <1>2
  <2>. QED
    BY <2>1, <2>2, <2>3, <2>4, <2>5 DEF T!Agree
<1>. QED
  BY <1>1, <1>5, <1>6, <1>7, <1>8, <1>9, <1>10, <1>11 DEF T!Next, T!Handlers

-----------------------------------------------------------------------------
(* Accounts, tokens, grants and queues: the theorems *)

TenancyInv ==
  T!TypeOK /\ T!SaltInv /\ T!GrantsDieWithQueue /\ T!OwnerInv /\ T!AgreeInv

LEMMA TenancyInit == T!Init => TenancyInv
<1> SUFFICES ASSUME T!Init PROVE TenancyInv
  OBVIOUS
<1>1. T!TypeOK
  BY TenancyInitTypes
<1>2. T!SaltInv
  BY DEF T!Init, T!SaltInv, T!Exists, T!NoRow
<1>3. \A t \in Threads : req[t] = T!Idle /\ req[t].op = "idle"
  BY DEF T!Init, T!Idle
<1>4. T!GrantsDieWithQueue /\ T!OwnerInv
  BY <1>3 DEF T!Init, T!GrantsDieWithQueue, T!OwnerInv, T!OneByOne
<1>5. \A q, op, pcs : op \in T!QueueOps => ~ T!Serving(q, op, pcs)
  BY <1>3 DEF T!Serving, T!QueueOps
<1>6. /\ \A q \in Queues : vc[q] = "none" /\ queue[q] = "none" /\ q \notin command
  BY DEF T!Init
<1>7. T!AgreeInv
  BY <1>5, <1>6 DEF T!AgreeInv, T!Agree, T!QueueOps
<1>. QED
  BY <1>1, <1>2, <1>4, <1>7 DEF TenancyInv

LEMMA TenancyNext == ASSUME TenancyInv, T!Next PROVE TenancyInv'
<1> USE DEF TenancyInv
<1>1. T!TypeOK'
  BY TenancyTypes
<1>2. T!SaltInv'
  BY TenancySalts
<1>3. T!GrantsDieWithQueue'
  BY QueueGrants
<1>4. T!OwnerInv'
  BY TenancyOwners
<1>5. T!AgreeInv'
  BY TenancyAgrees
<1>. QED
  BY <1>1, <1>2, <1>3, <1>4, <1>5

LEMMA TenancyStutter == ASSUME TenancyInv, UNCHANGED all PROVE TenancyInv'
<1>1. T!TypeOK' /\ T!SaltInv' /\ T!GrantsDieWithQueue' /\ T!OwnerInv'
  BY DEF TenancyInv, all, T!TypeOK, T!SaltInv, T!Exists, T!GrantsDieWithQueue,
         T!OwnerInv, T!OneByOne, T!Calm, T!At
<1>2. T!AgreeInv'
  BY DEF TenancyInv, all, T!AgreeInv, T!Agree, T!Serving, T!Latest, T!Calm
<1>. QED
  BY <1>1, <1>2 DEF TenancyInv

LEMMA TenancyInvariant == Spec => [](which = "tenancy" => TenancyInv)
<1> DEFINE Inv == which = "tenancy" => TenancyInv
<1>1. Init => Inv
  BY TenancyInit DEF Init
<1>2. Inv /\ [Next]_all => Inv'
  <2> SUFFICES ASSUME Inv, [Next]_all, which' = "tenancy" PROVE TenancyInv'
    OBVIOUS
  <2>1. CASE UNCHANGED all
    <3>1. which = "tenancy"
      BY <2>1 DEF all
    <3>. QED
      BY <2>1, <3>1, TenancyStutter
  <2>2. CASE which = "tenancy" /\ T!Next
    BY <2>2, TenancyNext
  <2>. QED
    BY <2>1, <2>2 DEF Next
<1>. QED
  BY <1>1, <1>2, PTL DEF Spec

\* A token is refused from the next change of its owner's password on, also when
\* the account is deleted and comes back: bcrypt's salt tells its hash from all
\* others (BaseAuth(), EncodePassWord()).
THEOREM TokensAreOfOnePassword == Spec => []TokensDieWithPassword
<1>1. (which = "tenancy" => TenancyInv) => TokensDieWithPassword
  BY DEF TenancyInv, T!SaltInv, T!TypeOK, TokensDieWithPassword, T!TokensDieWithPassword,
         T!BaseAuth
<1>. QED
  BY <1>1, TenancyInvariant, PTL

\* No request, and no two at once, leave a grant behind its queue; requests that
\* ran one by one leave none behind its account.
THEOREM GrantsAreOwned == Spec => []GrantsHaveOwners
<1>1. ASSUME TenancyInv PROVE T!GrantsHaveOwners
  <2>1. ASSUME T!Quiet, T!Calm, NEW g \in grants PROVE T!Exists(g.user)
    BY <1>1, <2>1 DEF TenancyInv, T!OwnerInv, T!Quiet, T!At, T!Idle
  <2>. QED
    BY <1>1, <2>1 DEF TenancyInv, T!GrantsHaveOwners, T!GrantsHaveUser
<1>2. (which = "tenancy" => TenancyInv) => GrantsHaveOwners
  BY <1>1 DEF GrantsHaveOwners
<1>. QED
  BY <1>2, TenancyInvariant, PTL

\* Once requests that ran one by one, the cluster and the informer have come to
\* rest, the queue table and the cluster say the same of every queue.
THEOREM TablesAgree == Spec => []QueuesAgree
<1>1. ASSUME TenancyInv PROVE T!QueuesAgree
  <2> SUFFICES ASSUME T!Calm, T!Quiet, events = <<>>, command = {},
                      \A q \in Queues : vc[q] \notin {"new", "closing"}, NEW q \in Queues
               PROVE  queue[q] = vc[q]
    BY DEF T!QueuesAgree
  <2>1. T!Agree(q) /\ vc[q] \in T!VolcanoStates \cup {"none"}
    BY <1>1 DEF TenancyInv, T!AgreeInv, T!TypeOK
  <2>2. /\ ~ T!Serving(q, "createQueue", {3, 5}) /\ ~ T!Serving(q, "deleteQueue", {3})
        /\ ~ T!Latest(q, vc[q])
    BY DEF T!Quiet, T!Serving, T!Latest, T!Idle
  <2>. QED
    BY <2>1, <2>2 DEF T!Agree, T!VolcanoStates
<1>2. (which = "tenancy" => TenancyInv) => QueuesAgree
  BY <1>1 DEF QueuesAgree
<1>. QED
  BY <1>2, TenancyInvariant, PTL

-----------------------------------------------------------------------------
(* The catalog *)

\* Every set of natural numbers that is not empty has a least member.
LEMMA LeastOfSet ==
  ASSUME NEW S \in SUBSET Nat, S # {} PROVE \E x \in S : \A y \in S : x <= y
<1> DEFINE R == {ss \in Nat \X Nat : ss[1] < ss[2]}
<1>1. IsWellFoundedOn(R, Nat)
  BY NatLessThanWellFounded DEF OpToRel
<1>2. PICK x \in S : \A y \in S : ~ (<<y, x>> \in R)
  BY <1>1, WFMin
<1>3. \A y \in S : x <= y
  <2> SUFFICES ASSUME NEW y \in S PROVE x <= y
    OBVIOUS
  <2>1. y \in Nat /\ x \in Nat /\ <<y, x>>[1] = y /\ <<y, x>>[2] = x
    OBVIOUS
  <2>2. <<y, x>> \in Nat \X Nat /\ ~ (<<y, x>>[1] < <<y, x>>[2])
    BY <1>2, <2>1
  <2> QED
    BY <2>1, <2>2
<1> QED
  BY <1>3

\* The live row that is read is one of the table's (GetClusterByName()).
LEMMA LeastLive ==
  ASSUME C!TypeOK, NEW n, C!Live(n) # {}
  PROVE  C!Min(C!Live(n)) \in C!Keys /\ cluster[C!Min(C!Live(n))] \in C!Row
<1>1. PICK m \in Nat : cluster \in [1..m -> C!Row]
  BY DEF C!TypeOK
<1>2. C!Live(n) \in SUBSET Nat /\ C!Live(n) \subseteq C!Keys /\ C!Keys = 1..m
  BY <1>1 DEF C!Live, C!Keys
<1>3. C!Min(C!Live(n)) \in C!Live(n)
  BY <1>2, LeastOfSet DEF C!Min
<1> QED
  BY <1>1, <1>2, <1>3

LEMMA CatalogInit == C!Init => C!TypeOK /\ C!OneByOneInv /\ C!PipelinesAreUnique
<1> SUFFICES ASSUME C!Init PROVE C!TypeOK /\ C!OneByOneInv /\ C!PipelinesAreUnique
  OBVIOUS
<1>1. cluster \in [1..0 -> C!Row]
  BY DEF C!Init
<1>2. C!Idle \in C!Requests /\ C!Idle.op = "idle"
  BY DEF C!Idle, C!Requests
<1>3. C!TypeOK
  BY <1>1, <1>2 DEF C!Init, C!TypeOK
<1> QED
  BY <1>2, <1>3 DEF C!Init, C!OneByOneInv, C!PipelinesAreUnique, C!Alone, C!DeletesItsRow,
                    C!ClientOnItsWay, C!At

\* What a step stores as the request it serves.
LEMMA CatalogServes ==
  ASSUME C!TypeOK, NEW t \in Threads, NEW r \in C!Requests, req' = [req EXCEPT ![t] = r]
  PROVE  /\ req' \in [Threads -> C!Requests] /\ req'[t] = r
         /\ \A o \in Threads \ {t} : req'[o] = req[o]
BY DEF C!TypeOK

LEMMA IdleServes == C!Idle \in C!Requests /\ C!Idle.op = "idle"
BY DEF C!Idle, C!Requests

\* What a request carries, by what it is.
LEMMA CatalogRequest ==
  ASSUME NEW r \in C!Requests
  PROVE  /\ r.op = "create" => r.n \in Names /\ r.i \in Ids /\ r.c \in Creds
         /\ r.op \in {"update", "delete"} /\ r.pc = 1 => r.n \in Names
         /\ r.op = "update" /\ r.pc = 1 =>
              r.i \in Ids \cup {C!None} /\ r.c \in Creds \cup {C!None}
         /\ r.op \in {"update", "delete"} /\ r.pc = 2 => r.id \in Ids /\ r.row \in C!Row
         /\ r.op = "quota" => r.n \in Names
         /\ r.op = "quota" /\ r.pc # 1 =>
              r.c \in Creds /\ r = [op |-> "quota", n |-> r.n, pc |-> r.pc, c |-> r.c]
         /\ r.op = "createPipeline" => r.p \in Contents
BY DEF C!Requests, C!Idle

\* A request that begins.
LEMMA CatalogBegins ==
  ASSUME C!TypeOK, NEW t \in Threads, C!Begin(t)
  PROVE  \E r \in C!Requests : /\ req' = [req EXCEPT ![t] = r] /\ r # C!Idle
                               /\ ~ (r.op = "delete" /\ r.pc = 2) /\ ~ (r.op = "quota" /\ r.pc = 3)
<1>1. CASE \E n \in Names, i \in Ids, c \in Creds :
             C!Step(t, [op |-> "create", pc |-> 1, n |-> n, i |-> i, c |-> c])
  <2>1. PICK n \in Names, i \in Ids, c \in Creds :
             C!Step(t, [op |-> "create", pc |-> 1, n |-> n, i |-> i, c |-> c])
    BY <1>1
  <2> DEFINE r == [op |-> "create", pc |-> 1, n |-> n, i |-> i, c |-> c]
  <2>2. r \in C!Requests /\ r.op = "create"
    BY DEF C!Requests
  <2> QED
    BY <2>1, <2>2, IdleServes DEF C!Step
<1>2. CASE \E n \in Names, i \in Ids \cup {C!None}, c \in Creds \cup {C!None} :
             C!Step(t, [op |-> "update", pc |-> 1, n |-> n, i |-> i, c |-> c])
  <2>1. PICK n \in Names, i \in Ids \cup {C!None}, c \in Creds \cup {C!None} :
             C!Step(t, [op |-> "update", pc |-> 1, n |-> n, i |-> i, c |-> c])
    BY <1>2
  <2> DEFINE r == [op |-> "update", pc |-> 1, n |-> n, i |-> i, c |-> c]
  <2>2. r \in C!Requests /\ r.op = "update"
    BY DEF C!Requests
  <2> QED
    BY <2>1, <2>2, IdleServes DEF C!Step
<1>3. CASE \E n \in Names, op \in {"delete", "quota"} : C!Step(t, [op |-> op, pc |-> 1, n |-> n])
  <2>1. PICK n \in Names, op \in {"delete", "quota"} : C!Step(t, [op |-> op, pc |-> 1, n |-> n])
    BY <1>3
  <2> DEFINE r == [op |-> op, pc |-> 1, n |-> n]
  <2>2. r \in C!Requests /\ r.op = op /\ r.pc = 1
    BY DEF C!Requests
  <2>3. req' = [req EXCEPT ![t] = r]
    BY <2>1 DEF C!Step
  <2>4. r # C!Idle /\ ~ (r.op = "delete" /\ r.pc = 2) /\ ~ (r.op = "quota" /\ r.pc = 3)
    <3>1. r.op \in {"delete", "quota"} /\ C!Idle.op \notin {"delete", "quota"}
      BY <2>2, IdleServes
    <3> HIDE DEF r
    <3> QED
      BY <2>2, <3>1
  <2> HIDE DEF r
  <2> QED
    BY <2>2, <2>3, <2>4
<1>4. CASE \E p \in Contents : C!Step(t, [op |-> "createPipeline", pc |-> 1, p |-> p])
  <2>1. PICK p \in Contents : C!Step(t, [op |-> "createPipeline", pc |-> 1, p |-> p])
    BY <1>4
  <2> DEFINE r == [op |-> "createPipeline", pc |-> 1, p |-> p]
  <2>2. r \in C!Requests /\ r.op = "createPipeline"
    BY DEF C!Requests
  <2> QED
    BY <2>1, <2>2, IdleServes DEF C!Step
<1> QED
  BY <1>1, <1>2, <1>3, <1>4 DEF C!Begin

\* The copy a request makes of the row it is to change.
LEMMA CatalogCopies ==
  ASSUME C!TypeOK, NEW t \in Threads, C!ReadCluster(t)
  PROVE  \E r \in C!Requests :
           /\ req' = [req EXCEPT ![t] = r]
           /\ \/ r = C!Idle
              \/ /\ r.op \in {"update", "delete"} /\ r.pc = 2
                 /\ r.op = "delete" => /\ r.key \in C!Keys /\ cluster[r.key].id = r.id
                                       /\ r.row.id = r.id /\ r.row.deleted
<1>1. CASE C!Live(req[t].n) = {}
  BY <1>1, IdleServes DEF C!ReadCluster, C!Done
<1>2. CASE C!Live(req[t].n) # {}
  <2> DEFINE k == C!Min(C!Live(req[t].n))
             r == [op |-> req[t].op, pc |-> 2, key |-> k, id |-> cluster[k].id,
                   row |-> IF req[t].op = "delete" THEN [cluster[k] EXCEPT !.deleted = TRUE]
                           ELSE [cluster[k] EXCEPT
                                   !.id = IF req[t].i = C!None THEN @ ELSE req[t].i,
                                   !.cred = IF req[t].c = C!None THEN @ ELSE req[t].c]]
  <2>1. req' = [req EXCEPT ![t] = r] /\ req[t].op \in {"update", "delete"} /\ req[t].pc = 1
    BY <1>2 DEF C!ReadCluster, C!Step
  <2>2. k \in C!Keys /\ cluster[k] \in C!Row /\ k \in Nat
    <3>1. PICK m \in Nat : cluster \in [1..m -> C!Row]
      BY DEF C!TypeOK
    <3> QED
      BY <1>2, <3>1, LeastLive DEF C!Keys
  <2>3. req[t].op = "update" => req[t].i \in Ids \cup {C!None} /\ req[t].c \in Creds \cup {C!None}
    BY <2>1, CatalogRequest DEF C!TypeOK
  <2>4. cluster[k].id \in Ids /\ r.row \in C!Row
    <3> HIDE DEF k
    <3>1. CASE req[t].op = "delete"
      BY <2>2, <3>1 DEF C!Row
    <3>2. CASE req[t].op = "update"
      BY <2>2, <2>3, <3>2 DEF C!Row
    <3> QED
      BY <2>1, <3>1, <3>2
  <2>5. r \in C!Requests
    <3> DEFINE row == r.row
    <3>1. r = [op |-> req[t].op, pc |-> 2, key |-> k, id |-> cluster[k].id, row |-> row]
      OBVIOUS
    <3> HIDE DEF k, row, r
    <3> QED
      BY <2>1, <2>2, <2>4, <3>1 DEF C!Requests
  <2>6. r.op = "delete" => /\ r.key \in C!Keys /\ cluster[r.key].id = r.id
                           /\ r.row.id = r.id /\ r.row.deleted
    <3> HIDE DEF k
    <3> QED
      BY <2>2 DEF C!Row
  <2>7. r.op \in {"update", "delete"} /\ r.pc = 2
    BY <2>1
  <2> HIDE DEF k, r
  <2> QED
    BY <2>1, <2>5, <2>6, <2>7
<1> QED
  BY <1>1, <1>2

\* Every step keeps the types.
LEMMA CatalogTypes == ASSUME C!TypeOK, C!Next PROVE C!TypeOK'
<1>1. PICK m \in Nat : cluster \in [1..m -> C!Row]
  BY DEF C!TypeOK
<1>2. \A t \in Threads : req[t] \in C!Requests
  BY DEF C!TypeOK
<1>3. ASSUME NEW t \in Threads, C!Done(t) PROVE req' \in [Threads -> C!Requests]
  BY <1>3, IdleServes DEF C!Done, C!TypeOK
<1>4. ASSUME NEW t \in Threads, C!Begin(t) PROVE C!TypeOK'
  <2>1. req' \in [Threads -> C!Requests]
    BY <1>4, CatalogBegins DEF C!TypeOK
  <2> QED
    BY <1>1, <1>4, <2>1 DEF C!Begin, C!TypeOK
<1>5. ASSUME NEW t \in Threads, C!CreateCluster(t) PROVE C!TypeOK'
  <2>1. \E k \in Nat : cluster' \in [1..k -> C!Row]
    <3>1. CASE cluster' = cluster
      BY <1>1, <3>1
    <3>2. CASE cluster' # cluster
      <4>1. C!Keys = 1..m /\ C!Cardinality(C!Keys) = m
        <5>1. C!Cardinality(1..m) = Cardinality(1..m)
          BY DEF C!Cardinality, Cardinality
        <5> QED
          BY <1>1, <5>1, FS_Interval DEF C!Keys
      <4>2. req[t].n \in Names /\ req[t].i \in Ids /\ req[t].c \in Creds
        BY <1>2, <1>5, CatalogRequest DEF C!CreateCluster, C!At
      <4> DEFINE new == [id |-> req[t].i, name |-> req[t].n, cred |-> req[t].c, deleted |-> FALSE]
      <4>3. new \in C!Row
        BY <4>2 DEF C!Row
      <4>4. cluster' = [k \in (1..m) \cup {m + 1} |-> IF k \in 1..m THEN cluster[k] ELSE new]
        <5>1. cluster' = [k \in C!Keys \cup {C!Cardinality(C!Keys) + 1} |->
                            IF k \in C!Keys THEN cluster[k] ELSE new]
          <6>1. C!InsertCluster(req[t].i, req[t].n, req[t].c)
            BY <1>5 DEF C!CreateCluster
          <6>2. ~ (C!Cardinality(C!Keys) = CatalogRows \/ \E k \in C!Keys : cluster[k].id = req[t].i)
            BY <3>2, <6>1 DEF C!InsertCluster
          <6> QED
            BY <6>1, <6>2 DEF C!InsertCluster
        <5> QED
          BY <4>1, <5>1
      <4> HIDE DEF new
      <4>5. (1..m) \cup {m + 1} = 1..(m + 1) /\ m + 1 \in Nat
        OBVIOUS
      <4>6. ASSUME NEW k \in (1..m) \cup {m + 1} PROVE cluster'[k] \in C!Row
        BY <1>1, <4>3, <4>4
      <4> QED
        BY <4>4, <4>5, <4>6
    <3> QED
      BY <3>1, <3>2
  <2> QED
    BY <1>3, <1>5, <2>1 DEF C!CreateCluster, C!NotCluster, C!TypeOK
<1>6. ASSUME NEW t \in Threads, C!ReadCluster(t) PROVE C!TypeOK'
  <2>1. req' \in [Threads -> C!Requests]
    BY <1>6, CatalogCopies DEF C!TypeOK
  <2> QED
    BY <1>1, <1>6, <2>1 DEF C!ReadCluster, C!NotCluster, C!TypeOK
<1>7. ASSUME NEW t \in Threads, C!WriteCluster(t) PROVE C!TypeOK'
  <2>1. req[t].row \in C!Row
    BY <1>2, <1>7, CatalogRequest DEF C!WriteCluster
  <2>2. \A k \in 1..m : cluster[k] \in C!Row /\ C!Updates(cluster[k], req[t].row) \in C!Row
    BY <1>1, <2>1 DEF C!Updates, C!Row
  <2>3. cluster' \in [1..m -> C!Row]
    BY <1>1, <1>7, <2>2 DEF C!WriteCluster, C!Keys
  <2> QED
    BY <1>3, <1>7, <2>3 DEF C!WriteCluster, C!NotCluster, C!TypeOK
<1>8. ASSUME NEW t \in Threads, C!GetK8sClient(t) PROVE C!TypeOK'
  <2>1. req' \in [Threads -> C!Requests]
    <3>1. CASE C!Live(req[t].n) = {}
      BY <1>3, <1>8, <3>1 DEF C!GetK8sClient
    <3>2. CASE C!Live(req[t].n) # {}
      <4>1. req[t].n \in Names
        BY <1>2, <1>8, CatalogRequest DEF C!GetK8sClient, C!At
      <4>2. cluster[C!Min(C!Live(req[t].n))].cred \in Creds
        BY <3>2, LeastLive DEF C!Row
      <4>3. PICK c \in Creds, pc \in {2, 4} :
              req' = [req EXCEPT ![t] = [op |-> "quota", n |-> req[t].n, c |-> c, pc |-> pc]]
        BY <1>8, <3>2, <4>2 DEF C!GetK8sClient, C!Step
      <4>4. [op |-> "quota", n |-> req[t].n, c |-> c, pc |-> pc] \in C!Requests
        BY <4>1 DEF C!Requests
      <4> QED
        BY <4>3, <4>4 DEF C!TypeOK
    <3> QED
      BY <3>1, <3>2
  <2> QED
    BY <1>1, <1>8, <2>1 DEF C!GetK8sClient, C!NotQuota, C!TypeOK
<1>9. ASSUME NEW t \in Threads, NEW pc \in {3, 4}, C!Step(t, [req[t] EXCEPT !.pc = pc]),
             C!At(t, "quota", 2) \/ C!At(t, "quota", 3)
      PROVE  req[t].n \in Names /\ req[t].c \in Creds /\ req' \in [Threads -> C!Requests]
  <2>1. /\ req[t].n \in Names /\ req[t].c \in Creds
        /\ req[t] = [op |-> "quota", n |-> req[t].n, pc |-> req[t].pc, c |-> req[t].c]
    BY <1>2, <1>9, CatalogRequest DEF C!At
  <2>2. [req[t] EXCEPT !.pc = pc] = [op |-> "quota", n |-> req[t].n, pc |-> pc, c |-> req[t].c]
    BY <2>1
  <2>3. [op |-> "quota", n |-> req[t].n, pc |-> pc, c |-> req[t].c] \in C!Requests
    BY <2>1 DEF C!Requests
  <2> QED
    BY <1>9, <2>1, <2>2, <2>3 DEF C!Step, C!TypeOK
<1>10. ASSUME NEW t \in Threads, C!StoreClient(t) \/ C!StoreCredential(t) PROVE C!TypeOK'
  <2>1. req[t].n \in Names /\ req[t].c \in Creds /\ req' \in [Threads -> C!Requests]
    BY <1>9, <1>10 DEF C!StoreClient, C!StoreCredential
  <2> QED
    BY <1>1, <1>10, <2>1 DEF C!StoreClient, C!StoreCredential, C!NotQuota, C!TypeOK
<1>11. ASSUME NEW t \in Threads, C!ListClusterQuota(t) PROVE C!TypeOK'
  BY <1>1, <1>3, <1>11 DEF C!ListClusterQuota, C!NotQuota, C!TypeOK
<1>12. ASSUME NEW t \in Threads, C!ValidatePipeline(t) PROVE C!TypeOK'
  <2>1. CASE C!Done(t)
    BY <1>1, <1>3, <1>12, <2>1 DEF C!ValidatePipeline, C!NotPipeline, C!TypeOK
  <2>2. CASE C!Step(t, [req[t] EXCEPT !.pc = 2])
    <3>1. [req[t] EXCEPT !.pc = 2] \in C!Requests
      BY <1>2, <1>12 DEF C!ValidatePipeline, C!At, C!Requests, C!Idle
    <3> QED
      BY <1>1, <1>12, <2>2, <3>1 DEF C!ValidatePipeline, C!Step, C!NotPipeline, C!TypeOK
  <2> QED
    BY <1>12, <2>1, <2>2 DEF C!ValidatePipeline
<1>13. ASSUME NEW t \in Threads, C!CreatePipeline(t) PROVE C!TypeOK'
  BY <1>1, <1>3, <1>13 DEF C!CreatePipeline, C!NotPipeline, C!TypeOK
<1>14. CASE C!DeletePipeline
  BY <1>1, <1>14 DEF C!DeletePipeline, C!TypeOK
<1> QED
  BY <1>4, <1>5, <1>6, <1>7, <1>8, <1>10, <1>11, <1>12, <1>13, <1>14 DEF C!Next, C!Handlers

\* No step takes a row away or brings a deleted cluster back.
LEMMA CatalogKeeps ==
  ASSUME C!TypeOK, C!Next, NEW k \in C!Keys
  PROVE  k \in C!Keys' /\ (cluster[k].deleted => cluster'[k].deleted)
<1>1. PICK m \in Nat : cluster \in [1..m -> C!Row]
  BY DEF C!TypeOK
<1>2. CASE cluster' = cluster
  BY <1>2 DEF C!Keys
<1>3. ASSUME NEW t \in Threads, C!CreateCluster(t), cluster' # cluster
      PROVE  k \in C!Keys' /\ cluster'[k] = cluster[k]
  <2>1. C!InsertCluster(req[t].i, req[t].n, req[t].c)
    BY <1>3 DEF C!CreateCluster
  <2>2. \E K, new : cluster' = [x \in C!Keys \cup K |-> IF x \in C!Keys THEN cluster[x] ELSE new]
    BY <1>3, <2>1, ZenonT(60) DEF C!InsertCluster
  <2> QED
    BY <2>2 DEF C!Keys
<1>4. ASSUME NEW t \in Threads, C!WriteCluster(t)
      PROVE  k \in C!Keys' /\ (cluster[k].deleted => cluster'[k].deleted)
  <2>1. req[t].row \in C!Row
    BY <1>4, CatalogRequest DEF C!WriteCluster, C!TypeOK
  <2>2. k \in C!Keys' /\ cluster'[k] \in {cluster[k], C!Updates(cluster[k], req[t].row)}
    BY <1>4 DEF C!WriteCluster, C!Keys
  <2>3. cluster[k].deleted => C!Updates(cluster[k], req[t].row).deleted
    BY <2>1 DEF C!Updates, C!Row
  <2> QED
    BY <2>2, <2>3
<1>5. cluster' = cluster \/ \E t \in Threads : C!CreateCluster(t) \/ C!WriteCluster(t)
  BY DEF C!Next, C!Handlers, C!Begin, C!ReadCluster, C!GetK8sClient, C!StoreClient,
         C!StoreCredential, C!ListClusterQuota, C!NotQuota, C!ValidatePipeline, C!CreatePipeline,
         C!NotPipeline, C!DeletePipeline
<1> QED
  BY <1>2, <1>3, <1>4, <1>5

\* A handler's request is not idle, so alone it is the only one.
LEMMA CatalogOnly ==
  ASSUME C!TypeOK, C!Alone, NEW t \in Threads, C!Handlers(t), NEW o \in Threads, o # t
  PROVE  req[o] = C!Idle /\ req'[o] = C!Idle /\ req[o].op = "idle" /\ req'[o].op = "idle"
<1>1. req[t].op # "idle"
  BY DEF C!Handlers, C!CreateCluster, C!ReadCluster, C!WriteCluster, C!GetK8sClient, C!StoreClient,
         C!StoreCredential, C!ListClusterQuota, C!ValidatePipeline, C!CreatePipeline, C!At
<1>2. req[o] = C!Idle
  BY <1>1, IdleServes DEF C!Alone
<1>3. \E r : req' = [req EXCEPT ![t] = r]
  BY DEF C!Handlers, C!CreateCluster, C!ReadCluster, C!WriteCluster, C!GetK8sClient, C!StoreClient,
         C!StoreCredential, C!ListClusterQuota, C!ValidatePipeline, C!CreatePipeline, C!Done, C!Step
<1> QED
  BY <1>2, <1>3, IdleServes DEF C!TypeOK

LEMMA CatalogBegin ==
  ASSUME C!TypeOK, C!OneByOneInv, NEW t \in Threads, C!Begin(t) PROVE C!OneByOneInv'
<1> SUFFICES ASSUME ~overlap' PROVE C!OneByOneInv'
  BY DEF C!OneByOneInv
<1>1. /\ ~overlap /\ \A o \in Threads : req[o] = C!Idle
      /\ UNCHANGED <<cluster, client, credOf, gone>>
  BY DEF C!Begin
<1>2. PICK r \in C!Requests : /\ req' = [req EXCEPT ![t] = r]
                              /\ ~ (r.op = "delete" /\ r.pc = 2) /\ ~ (r.op = "quota" /\ r.pc = 3)
  BY CatalogBegins
<1>3. req'[t] = r /\ \A o \in Threads \ {t} : req'[o] = C!Idle
  BY <1>1, <1>2 DEF C!TypeOK
<1>4. C!Alone'
  BY <1>3 DEF C!Alone
<1>5. C!DeletesItsRow'
  BY <1>2, <1>3, IdleServes DEF C!DeletesItsRow, C!At
<1>6. C!ClientOnItsWay'
  BY <1>1, <1>2, <1>3, IdleServes DEF C!OneByOneInv, C!ClientOnItsWay, C!At
<1>7. (\A k \in gone : k \in C!Keys /\ cluster[k].deleted)'
  BY <1>1 DEF C!OneByOneInv, C!Keys
<1> QED
  BY <1>4, <1>5, <1>6, <1>7 DEF C!OneByOneInv

LEMMA CatalogHandler ==
  ASSUME C!TypeOK, C!TypeOK', C!OneByOneInv, NEW t \in Threads, C!Handlers(t), C!Next PROVE C!OneByOneInv'
<1> SUFFICES ASSUME ~overlap' PROVE C!OneByOneInv'
  BY DEF C!OneByOneInv
<1>1. UNCHANGED overlap
  BY DEF C!Handlers, C!CreateCluster, C!ReadCluster, C!WriteCluster, C!NotCluster, C!GetK8sClient,
         C!StoreClient, C!StoreCredential, C!ListClusterQuota, C!NotQuota, C!ValidatePipeline,
         C!CreatePipeline, C!NotPipeline
<1>2. /\ C!Alone /\ C!DeletesItsRow /\ C!ClientOnItsWay
      /\ \A k \in gone : k \in C!Keys /\ cluster[k].deleted
  BY <1>1 DEF C!OneByOneInv
<1>3. \A o \in Threads \ {t} : /\ req[o] = C!Idle /\ req'[o] = C!Idle
                               /\ req[o].op = "idle" /\ req'[o].op = "idle"
  BY <1>2, CatalogOnly
<1>4. C!Alone'
  BY <1>3 DEF C!Alone
<1>5. \A k \in gone : k \in C!Keys' /\ cluster'[k].deleted
  BY <1>2, CatalogKeeps
<1>6. ASSUME C!Done(t) PROVE req'[t].op = "idle" /\ C!DeletesItsRow'
  <2>1. req'[t].op = "idle"
    BY <1>6, IdleServes DEF C!Done, C!TypeOK
  <2> QED
    BY <1>3, <2>1 DEF C!DeletesItsRow, C!At
<1>7. ASSUME ~ C!At(t, "quota", 3), ~ (req'[t].op = "quota" /\ req'[t].pc = 3),
             UNCHANGED <<client, credOf>>
      PROVE  C!ClientOnItsWay'
  BY <1>2, <1>3, <1>7 DEF C!ClientOnItsWay, C!At
<1>8. CASE C!ReadCluster(t)
  <2>1. PICK r \in C!Requests :
           /\ req' = [req EXCEPT ![t] = r]
           /\ \/ r = C!Idle
              \/ /\ r.op \in {"update", "delete"} /\ r.pc = 2
                 /\ r.op = "delete" => /\ r.key \in C!Keys /\ cluster[r.key].id = r.id
                                       /\ r.row.id = r.id /\ r.row.deleted
    BY <1>8, CatalogCopies
  <2>2. req'[t] = r /\ UNCHANGED <<cluster, client, credOf, gone>>
    BY <1>8, <2>1 DEF C!ReadCluster, C!NotCluster, C!TypeOK
  <2>3. C!DeletesItsRow'
    BY <1>3, <2>1, <2>2, IdleServes DEF C!DeletesItsRow, C!At, C!Keys
  <2>4. ~ C!At(t, "quota", 3) /\ req'[t].op # "quota"
    BY <1>8, <2>1, <2>2, IdleServes DEF C!ReadCluster, C!At
  <2> QED
    BY <1>4, <1>5, <1>7, <2>2, <2>3, <2>4 DEF C!OneByOneInv
<1>9. CASE C!WriteCluster(t)
  <2>1. /\ req[t].op \in {"update", "delete"} /\ req[t].pc = 2 /\ C!Done(t)
        /\ UNCHANGED <<client, credOf>>
    BY <1>9 DEF C!WriteCluster, C!NotCluster
  <2>2. ASSUME NEW k \in gone' PROVE k \in C!Keys' /\ cluster'[k].deleted
    <3>1. CASE k \in gone
      BY <1>5, <3>1
    <3>2. CASE k \notin gone
      <4>1. req[t].op = "delete" /\ k = req[t].key
        BY <1>9, <2>2, <3>2 DEF C!WriteCluster
      <4>2. /\ k \in C!Keys /\ cluster[k].id = req[t].id
            /\ req[t].row.id = req[t].id /\ req[t].row.deleted
        BY <1>2, <2>1, <4>1 DEF C!DeletesItsRow, C!At
      <4>3. cluster' = [x \in C!Keys |-> IF x \in {y \in C!Keys : cluster[y].id = req[t].id}
                                         THEN C!Updates(cluster[x], req[t].row) ELSE cluster[x]]
        BY <1>9, <4>2 DEF C!WriteCluster
      <4>4. k \in C!Keys' /\ cluster'[k] = C!Updates(cluster[k], req[t].row)
        BY <4>2, <4>3 DEF C!Keys
      <4>5. req[t].row \in C!Row
        BY <2>1, CatalogRequest DEF C!TypeOK
      <4> QED
        BY <4>2, <4>4, <4>5 DEF C!Updates, C!Row
    <3> QED
      BY <3>1, <3>2
  <2> QED
    BY <1>4, <1>6, <1>7, <2>1, <2>2 DEF C!OneByOneInv, C!At
<1>10. CASE C!CreateCluster(t) \/ C!CreatePipeline(t) \/ C!ListClusterQuota(t)
  <2>1. C!Done(t) /\ ~ C!At(t, "quota", 3) /\ UNCHANGED <<client, credOf, gone>>
    BY <1>10 DEF C!CreateCluster, C!NotCluster, C!CreatePipeline, C!NotPipeline,
                 C!ListClusterQuota, C!NotQuota, C!At
  <2> QED
    BY <1>4, <1>5, <1>6, <1>7, <2>1 DEF C!OneByOneInv
<1>11. CASE C!GetK8sClient(t) \/ C!ValidatePipeline(t)
  <2>1. ~ C!At(t, "quota", 3) /\ UNCHANGED <<client, credOf, gone>>
    BY <1>11 DEF C!GetK8sClient, C!NotQuota, C!ValidatePipeline, C!NotPipeline, C!At
  <2>2. req'[t].op # "delete" /\ ~ (req'[t].op = "quota" /\ req'[t].pc = 3)
    <3>1. CASE C!Done(t)
      BY <3>1, IdleServes DEF C!Done, C!TypeOK
    <3>2. CASE C!GetK8sClient(t) /\ ~ C!Done(t)
      BY <3>2 DEF C!GetK8sClient, C!Step, C!TypeOK
    <3>3. CASE C!ValidatePipeline(t) /\ ~ C!Done(t)
      <4>1. req' = [req EXCEPT ![t] = [req[t] EXCEPT !.pc = 2]] /\ req[t].op = "createPipeline"
        BY <3>3 DEF C!ValidatePipeline, C!At, C!Step
      <4>2. req'[t] = [req[t] EXCEPT !.pc = 2]
        BY <4>1 DEF C!TypeOK
      <4>3. req'[t].op = "createPipeline"
        BY <4>1, <4>2 DEF C!TypeOK, C!Requests
      <4> QED
        BY <4>3
    <3> QED
      BY <1>11, <3>1, <3>2, <3>3
  <2>3. C!DeletesItsRow'
    BY <1>3, <2>2 DEF C!DeletesItsRow, C!At
  <2> QED
    BY <1>4, <1>5, <1>7, <2>1, <2>2, <2>3 DEF C!OneByOneInv
<1>12. ASSUME C!StoreClient(t) \/ C!StoreCredential(t)
       PROVE  /\ req[t].n \in Names /\ UNCHANGED gone
              /\ req'[t].op = "quota" /\ req'[t].n = req[t].n /\ req'[t].c = req[t].c
              /\ C!DeletesItsRow'
  <2>1. PICK pc \in {3, 4} : req' = [req EXCEPT ![t] = [req[t] EXCEPT !.pc = pc]]
    BY <1>12 DEF C!StoreClient, C!StoreCredential, C!Step
  <2>2. /\ req[t].n \in Names /\ req[t].op = "quota"
        /\ req[t] = [op |-> "quota", n |-> req[t].n, pc |-> req[t].pc, c |-> req[t].c]
    BY <1>12, CatalogRequest DEF C!StoreClient, C!StoreCredential, C!At, C!TypeOK
  <2>3. req'[t] = [req[t] EXCEPT !.pc = pc]
    BY <2>1 DEF C!TypeOK
  <2>4. req'[t].op = "quota" /\ req'[t].n = req[t].n /\ req'[t].c = req[t].c
    BY <2>2, <2>3
  <2>5. C!DeletesItsRow'
    BY <1>3, <2>4 DEF C!DeletesItsRow, C!At
  <2> QED
    BY <1>12, <2>2, <2>4, <2>5 DEF C!StoreClient, C!StoreCredential, C!NotQuota
<1>13. CASE C!StoreClient(t)
  <2>1. /\ client' = [client EXCEPT ![req[t].n] = req[t].c] /\ UNCHANGED credOf
        /\ ~ C!At(t, "quota", 3) /\ req'[t].pc = 3
    BY <1>13, <1>12 DEF C!StoreClient, C!At, C!Step, C!TypeOK, C!Requests
  <2>2. C!ClientOnItsWay'
    <3>1. client'[req[t].n] = req[t].c
      BY <1>12, <1>13, <2>1 DEF C!TypeOK
    <3>2. ASSUME NEW n \in Names, n # req[t].n PROVE client'[n] = credOf'[n]
      <4>1. client[n] = credOf[n]
        BY <1>2, <1>3, <2>1, <3>2 DEF C!ClientOnItsWay, C!At
      <4> QED
        BY <2>1, <3>2, <4>1 DEF C!TypeOK
    <3> QED
      BY <1>3, <1>12, <1>13, <2>1, <3>1, <3>2 DEF C!ClientOnItsWay, C!At
  <2> QED
    BY <1>4, <1>5, <1>12, <1>13, <2>2 DEF C!OneByOneInv
<1>14. CASE C!StoreCredential(t)
  <2>1. /\ credOf' = [credOf EXCEPT ![req[t].n] = req[t].c] /\ UNCHANGED client
        /\ C!At(t, "quota", 3) /\ req'[t].pc = 4
    BY <1>14, <1>12 DEF C!StoreCredential, C!At, C!Step, C!TypeOK, C!Requests
  <2>2. ASSUME NEW n \in Names PROVE client'[n] = credOf'[n]
    <3>1. client[req[t].n] = req[t].c
      BY <1>2, <2>1 DEF C!ClientOnItsWay
    <3>2. n # req[t].n => client[n] = credOf[n]
      BY <1>2, <1>3 DEF C!ClientOnItsWay, C!At
    <3> QED
      BY <2>1, <3>1, <3>2 DEF C!TypeOK
  <2>3. C!ClientOnItsWay'
    BY <1>3, <2>1, <2>2 DEF C!ClientOnItsWay, C!At
  <2> QED
    BY <1>4, <1>5, <1>12, <1>14, <2>3 DEF C!OneByOneInv
<1> QED
  BY <1>8, <1>9, <1>10, <1>11, <1>13, <1>14 DEF C!Handlers

\* The unique indexes: every insert leaves the rows apart (models.CreatePipeline()).
LEMMA CatalogUnique ==
  ASSUME C!PipelinesAreUnique, C!Next PROVE C!PipelinesAreUnique'
<1>1. pipeline' \subseteq pipeline \/
        \E new : /\ \A p \in pipeline : C!Digest(p) # C!Digest(new) /\ C!Name(p) # C!Name(new)
                 /\ pipeline' = pipeline \cup {new}
  <2>1. ASSUME NEW t \in Threads, C!CreatePipeline(t), pipeline' # pipeline
        PROVE  /\ \A p \in pipeline : C!Digest(p) # C!Digest(req[t].p)
                                     /\ C!Name(p) # C!Name(req[t].p)
               /\ pipeline' = pipeline \cup {req[t].p}
    BY <2>1 DEF C!CreatePipeline, C!InsertPipeline
  <2>2. CASE C!DeletePipeline
    BY <2>2 DEF C!DeletePipeline
  <2>3. pipeline' = pipeline \/ C!DeletePipeline \/ \E t \in Threads : C!CreatePipeline(t)
    BY DEF C!Next, C!Handlers, C!Begin, C!CreateCluster, C!ReadCluster, C!WriteCluster,
           C!NotCluster, C!GetK8sClient, C!StoreClient, C!StoreCredential, C!ListClusterQuota,
           C!NotQuota, C!ValidatePipeline
  <2> QED
    BY <2>1, <2>2, <2>3
<1> QED
  BY <1>1 DEF C!PipelinesAreUnique

-----------------------------------------------------------------------------
(* The quota *)

\* The member of a set that a fold takes first.
Pick(s) == CHOOSE x \in s : TRUE
Amounts == [cpu : Int, mem : Int]
Both(a, b) == [cpu |-> a.cpu + b.cpu, mem |-> a.mem + b.mem]

\* Of a set of two members nothing is left when a member is taken twice.
LEMMA PickTwice ==
  ASSUME NEW a, NEW b, NEW s \in SUBSET {a, b}, s # {}
  PROVE  /\ Pick(s) \in s /\ s \ {Pick(s)} \in SUBSET {a, b}
         /\ s \ {Pick(s)} # {} => (s \ {Pick(s)}) \ {Pick(s \ {Pick(s)})} = {}
<1> DEFINE t == s \ {Pick(s)}
<1>1. Pick(s) \in s
  BY DEF Pick
<1>2. t # {} => Pick(t) \in t
  BY DEF Pick
<1>3. \A x, y \in t : x = y
  BY <1>1
<1> QED
  BY <1>1, <1>2, <1>3

\* A fold over at most two members takes them one after the other.
SumTakes(S) ==
  \E h : /\ C!SumOf(S) = h[S]
         /\ \A s \in SUBSET S : h[s] = IF s = {} THEN C!Zero ELSE C!Add(h[s \ {Pick(s)}], Pick(s).q)

LEMMA SumSteps == ASSUME NEW a, NEW b, NEW S, S \subseteq {a, b} PROVE SumTakes(S)
<1> DEFINE one(s) == C!Add(C!Zero, Pick(s).q)
           g == [s \in SUBSET S |->
                   IF s = {} THEN C!Zero
                   ELSE IF s \ {Pick(s)} = {} THEN one(s)
                   ELSE C!Add(one(s \ {Pick(s)}), Pick(s).q)]
<1>1. ASSUME NEW s \in SUBSET S, s # {}
      PROVE  g[s] = C!Add(g[s \ {Pick(s)}], Pick(s).q)
  <2>1. s \ {Pick(s)} \in SUBSET S
    OBVIOUS
  <2>2. s \ {Pick(s)} # {} => (s \ {Pick(s)}) \ {Pick(s \ {Pick(s)})} = {}
    BY <1>1, PickTwice
  <2>3. g[s \ {Pick(s)}] = IF s \ {Pick(s)} = {} THEN C!Zero ELSE one(s \ {Pick(s)})
    BY <2>1, <2>2
  <2> HIDE DEF one
  <2>4. g[s] = IF s \ {Pick(s)} = {} THEN one(s) ELSE C!Add(one(s \ {Pick(s)}), Pick(s).q)
    BY <1>1
  <2> QED
    BY <2>3, <2>4 DEF one
<1>2. g[{}] = C!Zero
  BY {} \in SUBSET S
<1>3. g = [s \in SUBSET S |-> IF s = {} THEN C!Zero ELSE C!Add(g[s \ {Pick(s)}], Pick(s).q)]
  <2>1. \A s \in SUBSET S : g[s] = IF s = {} THEN C!Zero ELSE C!Add(g[s \ {Pick(s)}], Pick(s).q)
    BY <1>1, <1>2
  <2>2. g = [s \in SUBSET S |-> g[s]]
    OBVIOUS
  <2> HIDE DEF g
  <2> QED
    BY <2>1, <2>2
<1> HIDE DEF g
<1>4. PICK h : /\ h = [s \in SUBSET S |-> IF s = {} THEN C!Zero
                                          ELSE C!Add(h[s \ {Pick(s)}], Pick(s).q)]
               /\ C!SumOf(S) = h[S]
  BY <1>3, Zenon DEF C!SumOf, C!FoldSet, C!MapThenFoldSet, Pick
<1> QED
  BY <1>4 DEF SumTakes

\* The same of the fold over what containers ask for.
AskedTakes(S) ==
  \E h : /\ C!Asked(S) = h[S]
         /\ \A s \in SUBSET S : h[s] = IF s = {} THEN C!Zero ELSE Both(h[s \ {Pick(s)}], Pick(s))

LEMMA AskedSteps == ASSUME NEW a, NEW b, NEW S, S \subseteq {a, b} PROVE AskedTakes(S)
<1> DEFINE one(s) == Both(C!Zero, Pick(s))
           g == [s \in SUBSET S |->
                   IF s = {} THEN C!Zero
                   ELSE IF s \ {Pick(s)} = {} THEN one(s)
                   ELSE Both(one(s \ {Pick(s)}), Pick(s))]
<1>1. ASSUME NEW s \in SUBSET S, s # {}
      PROVE  g[s] = Both(g[s \ {Pick(s)}], Pick(s))
  <2>1. s \ {Pick(s)} \in SUBSET S
    OBVIOUS
  <2>2. s \ {Pick(s)} # {} => (s \ {Pick(s)}) \ {Pick(s \ {Pick(s)})} = {}
    BY <1>1, PickTwice
  <2>3. g[s \ {Pick(s)}] = IF s \ {Pick(s)} = {} THEN C!Zero ELSE one(s \ {Pick(s)})
    BY <2>1, <2>2
  <2> HIDE DEF one
  <2>4. g[s] = IF s \ {Pick(s)} = {} THEN one(s) ELSE Both(one(s \ {Pick(s)}), Pick(s))
    BY <1>1
  <2> QED
    BY <2>3, <2>4 DEF one
<1>2. g[{}] = C!Zero
  BY {} \in SUBSET S
<1>3. g = [s \in SUBSET S |-> IF s = {} THEN C!Zero ELSE Both(g[s \ {Pick(s)}], Pick(s))]
  <2>1. \A s \in SUBSET S : g[s] = IF s = {} THEN C!Zero ELSE Both(g[s \ {Pick(s)}], Pick(s))
    BY <1>1, <1>2
  <2>2. g = [s \in SUBSET S |-> g[s]]
    OBVIOUS
  <2> HIDE DEF g
  <2> QED
    BY <2>1, <2>2
<1> HIDE DEF g
<1>4. PICK h : /\ h = [s \in SUBSET S |-> IF s = {} THEN C!Zero
                                          ELSE Both(h[s \ {Pick(s)}], Pick(s))]
               /\ C!Asked(S) = h[S]
  BY <1>3, Zenon DEF C!Asked, C!FoldSet, C!MapThenFoldSet, Pick, Both
<1> QED
  BY <1>4 DEF AskedTakes

\* Sums of amounts.
LEMMA AddAmounts ==
  ASSUME NEW x \in Amounts, NEW y \in Amounts
  PROVE  /\ C!Add(C!Zero, x) = x /\ C!Add(x, y) = Both(x, y) /\ Both(x, y) = Both(y, x)
<1>1. x.cpu \in Int /\ x.mem \in Int /\ y.cpu \in Int /\ y.mem \in Int
      /\ x = [cpu |-> x.cpu, mem |-> x.mem]
  BY DEF Amounts
<1>2. C!Add(C!Zero, x) = [cpu |-> x.cpu, mem |-> x.mem]
  <2>1. C!Add(C!Zero, x) = [cpu |-> 0 + x.cpu, mem |-> 0 + x.mem]
    BY DEF C!Add, C!Zero
  <2>2. 0 + x.cpu = x.cpu /\ 0 + x.mem = x.mem
    BY <1>1
  <2> QED
    BY <2>1, <2>2
<1>3. Both(x, y) = Both(y, x)
  <2>1. x.cpu + y.cpu = y.cpu + x.cpu /\ x.mem + y.mem = y.mem + x.mem
    BY <1>1
  <2> QED
    BY <2>1 DEF Both
<1> QED
  BY <1>1, <1>2, <1>3 DEF C!Add, Both

Container(c) == c.cpu \in Int /\ c.mem \in Int

LEMMA SumNone == C!SumOf({}) = C!Zero
<1>0. SumTakes({})
  BY {} \subseteq {0, 0}, SumSteps
<1>1. PICK h : /\ C!SumOf({}) = h[{}]
               /\ \A s \in SUBSET {} : h[s] = IF s = {} THEN C!Zero
                                             ELSE C!Add(h[s \ {Pick(s)}], Pick(s).q)
  BY <1>0 DEF SumTakes
<1> QED
  BY <1>1

LEMMA SumOne == ASSUME NEW a, a.q \in Amounts PROVE C!SumOf({a}) = a.q
<1>0. SumTakes({a})
  BY {a} \subseteq {a, a}, SumSteps
<1>1. PICK h : /\ C!SumOf({a}) = h[{a}]
               /\ \A s \in SUBSET {a} : h[s] = IF s = {} THEN C!Zero
                                               ELSE C!Add(h[s \ {Pick(s)}], Pick(s).q)
  BY <1>0 DEF SumTakes
<1>2. Pick({a}) = a /\ {a} \ {a} = {} /\ {} \in SUBSET {a}
  BY DEF Pick
<1>3. h[{}] = C!Zero
  BY <1>1, <1>2
<1>4. h[{a}] = C!Add(C!Zero, a.q)
  BY <1>1, <1>2, <1>3
<1> QED
  BY <1>1, <1>4, AddAmounts

LEMMA SumTwo ==
  ASSUME NEW a, NEW b, a # b, a.q \in Amounts, b.q \in Amounts
  PROVE  C!SumOf({a, b}) = Both(a.q, b.q)
<1>0. SumTakes({a, b})
  BY {a, b} \subseteq {a, b}, SumSteps
<1>1. PICK h : /\ C!SumOf({a, b}) = h[{a, b}]
               /\ \A s \in SUBSET {a, b} : h[s] = IF s = {} THEN C!Zero
                                                  ELSE C!Add(h[s \ {Pick(s)}], Pick(s).q)
  BY <1>0 DEF SumTakes
<1>2. h[{}] = C!Zero
  BY <1>1
<1>3. ASSUME NEW x \in {a, b} PROVE h[{x}] = C!Add(C!Zero, x.q)
  <2>1. Pick({x}) = x /\ {x} \ {x} = {} /\ {x} \in SUBSET {a, b}
    BY DEF Pick
  <2> QED
    BY <1>1, <1>2, <2>1
<1>4. CASE Pick({a, b}) = a
  <2>1. h[{a, b}] = C!Add(h[{b}], a.q)
    <3>1. {a, b} \ {a} = {b}
      OBVIOUS
    <3> QED
      BY <1>1, <1>4, <3>1
  <2> QED
    BY <1>1, <1>3, <2>1, AddAmounts
<1>5. CASE Pick({a, b}) = b
  <2>1. h[{a, b}] = C!Add(h[{a}], b.q)
    <3>1. {a, b} \ {b} = {a}
      OBVIOUS
    <3> QED
      BY <1>1, <1>5, <3>1
  <2> QED
    BY <1>1, <1>3, <2>1, AddAmounts
<1> QED
  BY <1>4, <1>5 DEF Pick

\* What containers ask for adds up.
LEMMA AddContainers ==
  ASSUME NEW x, NEW y, Container(x), Container(y)
  PROVE  /\ Both(C!Zero, x) = [cpu |-> x.cpu, mem |-> x.mem]
         /\ Both(Both(C!Zero, x), y) = Both(x, y) /\ Both(x, y) = Both(y, x)
<1>1. /\ 0 + x.cpu = x.cpu /\ 0 + x.mem = x.mem
      /\ x.cpu + y.cpu = y.cpu + x.cpu /\ x.mem + y.mem = y.mem + x.mem
  BY DEF Container
<1>2. Both(C!Zero, x) = [cpu |-> 0 + x.cpu, mem |-> 0 + x.mem]
  BY DEF Both, C!Zero
<1>3. Both(C!Zero, x) = [cpu |-> x.cpu, mem |-> x.mem]
  BY <1>1, <1>2
<1> QED
  BY <1>1, <1>3 DEF Both

LEMMA AskedNone == C!Asked({}) = C!Zero
<1>0. AskedTakes({})
  BY {} \subseteq {0, 0}, AskedSteps
<1>1. PICK h : /\ C!Asked({}) = h[{}]
               /\ \A s \in SUBSET {} : h[s] = IF s = {} THEN C!Zero
                                             ELSE Both(h[s \ {Pick(s)}], Pick(s))
  BY <1>0 DEF AskedTakes
<1> QED
  BY <1>1

LEMMA AskedOne == ASSUME NEW a, Container(a) PROVE C!Asked({a}) = [cpu |-> a.cpu, mem |-> a.mem]
<1>0. AskedTakes({a})
  BY {a} \subseteq {a, a}, AskedSteps
<1>1. PICK h : /\ C!Asked({a}) = h[{a}]
               /\ \A s \in SUBSET {a} : h[s] = IF s = {} THEN C!Zero
                                               ELSE Both(h[s \ {Pick(s)}], Pick(s))
  BY <1>0 DEF AskedTakes
<1>2. Pick({a}) = a /\ {a} \ {a} = {} /\ {} \in SUBSET {a}
  BY DEF Pick
<1>3. h[{}] = C!Zero
  BY <1>1, <1>2
<1>4. h[{a}] = Both(C!Zero, a)
  BY <1>1, <1>2, <1>3
<1> QED
  BY <1>1, <1>4, AddContainers

LEMMA AskedTwo ==
  ASSUME NEW a, NEW b, a # b, Container(a), Container(b)
  PROVE  C!Asked({a, b}) = Both(a, b)
<1>0. AskedTakes({a, b})
  BY {a, b} \subseteq {a, b}, AskedSteps
<1>1. PICK h : /\ C!Asked({a, b}) = h[{a, b}]
               /\ \A s \in SUBSET {a, b} : h[s] = IF s = {} THEN C!Zero
                                                  ELSE Both(h[s \ {Pick(s)}], Pick(s))
  BY <1>0 DEF AskedTakes
<1>2. h[{}] = C!Zero
  BY <1>1
<1>3. ASSUME NEW x \in {a, b} PROVE h[{x}] = Both(C!Zero, x)
  <2>1. Pick({x}) = x /\ {x} \ {x} = {} /\ {x} \in SUBSET {a, b}
    BY DEF Pick
  <2> QED
    BY <1>1, <1>2, <2>1
<1>4. CASE Pick({a, b}) = a
  <2>1. h[{a, b}] = Both(h[{b}], a)
    <3>1. {a, b} \ {a} = {b}
      OBVIOUS
    <3> QED
      BY <1>1, <1>4, <3>1
  <2> QED
    BY <1>1, <1>3, <2>1, AddContainers
<1>5. CASE Pick({a, b}) = b
  <2>1. h[{a, b}] = Both(h[{a}], b)
    <3>1. {a, b} \ {b} = {a}
      OBVIOUS
    <3> QED
      BY <1>1, <1>5, <3>1
  <2> QED
    BY <1>1, <1>3, <2>1, AddContainers
<1> QED
  BY <1>4, <1>5 DEF Pick

\* Rounding up to cores adds less than one.
LEMMA CoresRoundUp ==
  ASSUME NEW m \in Nat
  PROVE  C!Cores(m) \in Nat /\ C!Cores(m) * 1000 >= m /\ C!Cores(m) * 1000 < m + 1000
BY DEF C!Cores

Size(c) == c.cpu \in Nat /\ c.mem \in Nat

LEMMA QuotaOfSize ==
  ASSUME NEW c, Size(c)
  PROVE  /\ C!NewQuota(c) \in Amounts /\ C!NewQuota(c).mem = c.mem
         /\ C!NewQuota(c).cpu \in Nat /\ C!NewQuota(c).cpu * 1000 >= c.cpu
         /\ C!NewQuota(c).cpu * 1000 < c.cpu + 1000
BY CoresRoundUp DEF C!NewQuota, Size, Amounts

Use(s) == C!SumOf({[i |-> c.i, q |-> C!NewQuota(c)] : c \in s})
\* What is taken off a node is at least what its containers ask for.
Covers(s) ==
  /\ Use(s) \in Amounts /\ Use(s).cpu \in Nat /\ Use(s).mem \in Nat
  /\ C!Asked(s).cpu \in Nat /\ C!Asked(s).mem = Use(s).mem
  /\ C!Asked(s).cpu <= Use(s).cpu * 1000

LEMMA CoversNone == Covers({})
<1>1. {[i |-> c.i, q |-> C!NewQuota(c)] : c \in {}} = {}
  OBVIOUS
<1>2. Use({}) = C!Zero
  BY <1>1, SumNone DEF Use
<1> QED
  BY <1>2, AskedNone DEF Covers, C!Zero, Amounts

LEMMA CoversOne == ASSUME NEW a, Size(a) PROVE Covers({a})
<1> DEFINE x == [i |-> a.i, q |-> C!NewQuota(a)]
<1>1. {[i |-> c.i, q |-> C!NewQuota(c)] : c \in {a}} = {x}
  OBVIOUS
<1>2. x.q = C!NewQuota(a)
  OBVIOUS
<1> HIDE DEF x
<1>3. Use({a}) = C!NewQuota(a)
  BY <1>1, <1>2, SumOne, QuotaOfSize DEF Use
<1>4. Container(a)
  BY DEF Size, Container
<1>5. C!Asked({a}) = [cpu |-> a.cpu, mem |-> a.mem]
  BY <1>4, AskedOne
<1> QED
  BY <1>3, <1>5, QuotaOfSize DEF Covers, Size

LEMMA CoversTwo ==
  ASSUME NEW a, NEW b, a # b, a.i # b.i, Size(a), Size(b) PROVE Covers({a, b})
<1> DEFINE x == [i |-> a.i, q |-> C!NewQuota(a)]
           y == [i |-> b.i, q |-> C!NewQuota(b)]
<1>1. {[i |-> c.i, q |-> C!NewQuota(c)] : c \in {a, b}} = {x, y}
  OBVIOUS
<1>2. x.q = C!NewQuota(a) /\ y.q = C!NewQuota(b) /\ x.i = a.i /\ y.i = b.i
  OBVIOUS
<1> HIDE DEF x, y
<1>3. x # y
  BY <1>2
<1>4. Use({a, b}) = Both(C!NewQuota(a), C!NewQuota(b))
  BY <1>1, <1>2, <1>3, SumTwo, QuotaOfSize DEF Use
<1>5. Container(a) /\ Container(b)
  BY DEF Size, Container
<1>6. C!Asked({a, b}) = Both(a, b)
  BY <1>5, AskedTwo
<1>7. /\ Use({a, b}).cpu = C!NewQuota(a).cpu + C!NewQuota(b).cpu
      /\ Use({a, b}).mem = C!NewQuota(a).mem + C!NewQuota(b).mem
      /\ C!Asked({a, b}).cpu = a.cpu + b.cpu /\ C!Asked({a, b}).mem = a.mem + b.mem
  BY <1>4, <1>6 DEF Both
<1>8. /\ C!NewQuota(a).mem = a.mem /\ C!NewQuota(a).cpu \in Nat /\ C!NewQuota(a).cpu * 1000 >= a.cpu
      /\ C!NewQuota(b).mem = b.mem /\ C!NewQuota(b).cpu \in Nat /\ C!NewQuota(b).cpu * 1000 >= b.cpu
      /\ a.cpu \in Nat /\ a.mem \in Nat /\ b.cpu \in Nat /\ b.mem \in Nat
  BY QuotaOfSize DEF Size
<1>9. Use({a, b}) \in Amounts
  BY <1>4, <1>8 DEF Both, Amounts
<1> QED
  BY <1>7, <1>8, <1>9 DEF Covers

\* A node of the list, as GetNodeQuotaList() makes it.
NodeOf(n) ==
  [i |-> n.i, total |-> C!NewQuota(n.has),
   idle |-> C!Sub(C!NewQuota(n.has), Use({c \in n.containers : ~c.over}))]

LEMMA NodeIsHonest ==
  ASSUME NEW n, Size(n.has), Covers({c \in n.containers : ~c.over})
  PROVE  /\ NodeOf(n).i = n.i
         /\ NodeOf(n).total \in Amounts /\ NodeOf(n).idle \in Amounts
         /\ NodeOf(n).idle.mem <= NodeOf(n).total.mem
         /\ NodeOf(n).idle.mem = n.has.mem - C!Asked({c \in n.containers : ~c.over}).mem
         /\ NodeOf(n).idle.cpu * 1000
              < n.has.cpu - C!Asked({c \in n.containers : ~c.over}).cpu + 1000
<1> DEFINE s == {c \in n.containers : ~c.over}
           q == C!NewQuota(n.has)
<1>1. /\ q \in Amounts /\ q.mem = n.has.mem /\ q.cpu \in Nat /\ q.cpu * 1000 < n.has.cpu + 1000
      /\ n.has.cpu \in Nat /\ n.has.mem \in Nat
  BY QuotaOfSize DEF Size
<1>2. NodeOf(n) = [i |-> n.i, total |-> q, idle |-> C!Sub(q, Use(s))]
  BY DEF NodeOf
<1>3. /\ Use(s) \in Amounts /\ Use(s).cpu \in Nat /\ Use(s).mem \in Nat
      /\ C!Asked(s).cpu \in Nat /\ C!Asked(s).mem = Use(s).mem
      /\ C!Asked(s).cpu <= Use(s).cpu * 1000
  BY DEF Covers
<1> HIDE DEF s, q
<1>4. /\ NodeOf(n).i = n.i /\ NodeOf(n).total = q
      /\ NodeOf(n).idle = [cpu |-> q.cpu - Use(s).cpu, mem |-> q.mem - Use(s).mem]
  BY <1>2 DEF C!Sub
<1>5. /\ NodeOf(n).idle.cpu = q.cpu - Use(s).cpu /\ NodeOf(n).idle.mem = q.mem - Use(s).mem
      /\ NodeOf(n).idle \in Amounts
  BY <1>1, <1>3, <1>4 DEF Amounts
<1>6. /\ NodeOf(n).idle.mem <= q.mem /\ NodeOf(n).idle.mem = n.has.mem - C!Asked(s).mem
      /\ NodeOf(n).idle.cpu * 1000 < n.has.cpu - C!Asked(s).cpu + 1000
  BY <1>1, <1>3, <1>5
<1> QED
  BY <1>1, <1>4, <1>5, <1>6 DEF s

Idles(list) == C!SumOf({[i |-> z.i, q |-> z.idle] : z \in list})
Totals(list) == C!SumOf({[i |-> z.i, q |-> z.total] : z \in list})

\* The sums over one node, and over two.
LEMMA TotalsAreHonest ==
  ASSUME NEW x, NEW y, x.i # y.i, NEW list \in {{x}, {x, y}},
         x.total \in Amounts, x.idle \in Amounts, x.idle.mem <= x.total.mem,
         y.total \in Amounts, y.idle \in Amounts, y.idle.mem <= y.total.mem
  PROVE  Idles(list).mem <= Totals(list).mem
<1> DEFINE xi == [i |-> x.i, q |-> x.idle]
           xt == [i |-> x.i, q |-> x.total]
           yi == [i |-> y.i, q |-> y.idle]
           yt == [i |-> y.i, q |-> y.total]
<1>1. /\ xi.q = x.idle /\ xt.q = x.total /\ yi.q = y.idle /\ yt.q = y.total
      /\ xi.i = x.i /\ xt.i = x.i /\ yi.i = y.i /\ yt.i = y.i
  OBVIOUS
<1>2. CASE list = {x}
  <2>1. /\ {[i |-> z.i, q |-> z.idle] : z \in list} = {xi}
        /\ {[i |-> z.i, q |-> z.total] : z \in list} = {xt}
    BY <1>2
  <2> HIDE DEF xi, xt
  <2> QED
    BY <1>1, <2>1, SumOne DEF Idles, Totals
<1>3. CASE list = {x, y}
  <2>1. /\ {[i |-> z.i, q |-> z.idle] : z \in list} = {xi, yi}
        /\ {[i |-> z.i, q |-> z.total] : z \in list} = {xt, yt}
    BY <1>3
  <2> HIDE DEF xi, xt, yi, yt
  <2>2. xi # yi /\ xt # yt
    BY <1>1
  <2>3. /\ C!SumOf({xi, yi}) = Both(x.idle, y.idle)
        /\ C!SumOf({xt, yt}) = Both(x.total, y.total)
    BY <1>1, <2>2, SumTwo
  <2>4. Both(x.idle, y.idle).mem <= Both(x.total, y.total).mem
    BY DEF Both, Amounts
  <2> QED
    BY <2>1, <2>3, <2>4 DEF Idles, Totals
<1> QED
  BY <1>2, <1>3

\* GetNodeQuotaList() adds up NodeOf() of the nodes that take pods.
LEMMA QuotaList ==
  ASSUME NEW nodes
  PROVE  \E list :
           /\ list = {NodeOf(n) : n \in {m \in nodes : m.schedulable}}
           /\ C!GetNodeQuotaList(nodes).nodes = list
           /\ C!GetNodeQuotaList(nodes).total = Totals(list)
           /\ C!GetNodeQuotaList(nodes).idle = Idles(list)
BY DEF C!GetNodeQuotaList, NodeOf, Use, Idles, Totals

\* Whatever the nodes have and the containers ask for.
LEMMA QuotaHonest ==
  ASSUME NEW t \in Threads, C!ListClusterQuota(t) PROVE C!QuotaIsHonest'
<1>1. PICK has \in C!Sizes, a \in C!Sizes, b \in C!Sizes, over \in BOOLEAN, takes \in BOOLEAN :
        LET nodes == {[i |-> 1, has |-> has, schedulable |-> TRUE, containers |->
                        {[i |-> 1, cpu |-> a.cpu, mem |-> a.mem, over |-> FALSE],
                         [i |-> 2, cpu |-> b.cpu, mem |-> b.mem, over |-> over]}],
                      [i |-> 2, has |-> has, schedulable |-> takes, containers |-> {}]}
        IN  quota' = [from |-> nodes, is |-> C!GetNodeQuotaList(nodes)]
  BY DEF C!ListClusterQuota
<1> DEFINE A == [i |-> 1, cpu |-> a.cpu, mem |-> a.mem, over |-> FALSE]
           B == [i |-> 2, cpu |-> b.cpu, mem |-> b.mem, over |-> over]
           m == [i |-> 1, has |-> has, schedulable |-> TRUE, containers |-> {A, B}]
           n == [i |-> 2, has |-> has, schedulable |-> takes, containers |-> {}]
           Left(k) == {c \in k.containers : ~c.over}
<1>2. quota' = [from |-> {m, n}, is |-> C!GetNodeQuotaList({m, n})]
  BY <1>1
<1>3. Size(has) /\ Size(A) /\ Size(B)
  BY SizesAssumption DEF Size, C!Sizes
<1>4. A.i = 1 /\ B.i = 2 /\ ~A.over /\ B.over = over
  OBVIOUS
<1>5. /\ m.i = 1 /\ n.i = 2 /\ m.has = has /\ n.has = has /\ m.schedulable /\ n.schedulable = takes
      /\ m.containers = {A, B} /\ n.containers = {}
  OBVIOUS
<1> HIDE DEF A, B, m, n
<1>6. Covers(Left(m)) /\ Covers(Left(n))
  <2>1. Left(m) \in {{A}, {A, B}} /\ Left(n) = {}
    BY <1>4, <1>5
  <2>2. Covers({A}) /\ Covers({})
    BY <1>3, CoversNone, CoversOne
  <2>3. Covers({A, B})
    <3>1. A # B /\ A.i # B.i
      BY <1>4
    <3> QED
      BY <1>3, <3>1, CoversTwo
  <2> QED
    BY <2>1, <2>2, <2>3
<1> DEFINE Honest(k) ==
             /\ NodeOf(k).i = k.i
             /\ NodeOf(k).total \in Amounts /\ NodeOf(k).idle \in Amounts
             /\ NodeOf(k).idle.mem <= NodeOf(k).total.mem
             /\ NodeOf(k).idle.mem = k.has.mem - C!Asked(Left(k)).mem
             /\ NodeOf(k).idle.cpu * 1000 < k.has.cpu - C!Asked(Left(k)).cpu + 1000
<1>7. Honest(m) /\ Honest(n) /\ NodeOf(m).i # NodeOf(n).i
  <2>1. ASSUME NEW k, k.has = has, Covers(Left(k)) PROVE Honest(k)
    <3>1. Size(k.has)
      BY <1>3, <2>1
    <3> QED
      BY <2>1, <3>1, NodeIsHonest
  <2>2. Honest(m) /\ Honest(n)
    BY <1>5, <1>6, <2>1
  <2> QED
    BY <1>5, <2>2
<1>8. PICK list :
        /\ list = {NodeOf(k) : k \in {l \in {m, n} : l.schedulable}}
        /\ C!GetNodeQuotaList({m, n}).nodes = list
        /\ C!GetNodeQuotaList({m, n}).total = Totals(list)
        /\ C!GetNodeQuotaList({m, n}).idle = Idles(list)
  BY QuotaList
<1>9. list \in {{NodeOf(m)}, {NodeOf(m), NodeOf(n)}}
  <2>1. {l \in {m, n} : l.schedulable} \in {{m}, {m, n}}
    BY <1>5
  <2>2. {NodeOf(k) : k \in {m}} = {NodeOf(m)} /\ {NodeOf(k) : k \in {m, n}} = {NodeOf(m), NodeOf(n)}
    OBVIOUS
  <2> QED
    BY <1>8, <2>1, <2>2
<1>10. quota'.is.idle.mem <= quota'.is.total.mem
  <2>1. Idles(list).mem <= Totals(list).mem
    <3> DEFINE x == NodeOf(m)
               y == NodeOf(n)
    <3>1. /\ x.i # y.i /\ list \in {{x}, {x, y}}
          /\ x.total \in Amounts /\ x.idle \in Amounts /\ x.idle.mem <= x.total.mem
          /\ y.total \in Amounts /\ y.idle \in Amounts /\ y.idle.mem <= y.total.mem
      BY <1>7, <1>9
    <3> HIDE DEF x, y
    <3> QED
      BY <3>1, TotalsAreHonest
  <2>2. quota'.is = C!GetNodeQuotaList({m, n})
    BY <1>2
  <2> QED
    BY <1>8, <2>1, <2>2
<1>11. ASSUME NEW k \in quota'.from, k.schedulable
       PROVE  \E x \in quota'.is.nodes :
                /\ x.i = k.i /\ x.idle.mem = k.has.mem - C!Asked(Left(k)).mem
                /\ x.idle.cpu * 1000 < k.has.cpu - C!Asked(Left(k)).cpu + 1000
  <2>1. k \in {m, n}
    <3>1. quota'.from = {m, n}
      BY <1>2
    <3> QED
      BY <1>11, <3>1
  <2>2. Honest(k)
    <3> HIDE DEF Honest
    <3> QED
      BY <1>7, <2>1
  <2>3. NodeOf(k) \in quota'.is.nodes
    BY <1>2, <1>8, <1>11, <2>1
  <2> HIDE DEF Left
  <2> QED
    BY <2>2, <2>3
<1>12. \A k \in quota'.from : k.schedulable =>
         \E x \in quota'.is.nodes :
           LET asked == C!Asked({c \in k.containers : ~c.over})
           IN  /\ x.i = k.i /\ x.idle.mem = k.has.mem - asked.mem
               /\ x.idle.cpu * 1000 < k.has.cpu - asked.cpu + 1000
               /\ quota'.is.idle.mem <= quota'.is.total.mem
  BY <1>10, <1>11
<1> QED
  BY <1>12, Zenon DEF C!QuotaIsHonest

LEMMA CatalogStart == C!Init => C!CatalogInv
BY CatalogInit DEF C!Init, C!NoQuota, C!QuotaIsHonest, C!CatalogInv

LEMMA CatalogNext == ASSUME C!CatalogInv, C!Next PROVE C!CatalogInv'
<1>1. C!TypeOK /\ C!OneByOneInv /\ C!QuotaIsHonest /\ C!PipelinesAreUnique
  BY DEF C!CatalogInv
<1>2. C!TypeOK'
  BY <1>1, CatalogTypes
<1>3. C!PipelinesAreUnique'
  BY <1>1, CatalogUnique
<1>4. C!OneByOneInv'
  <2>1. CASE C!DeletePipeline
    BY <1>1, <2>1 DEF C!DeletePipeline, C!OneByOneInv, C!Alone, C!DeletesItsRow, C!ClientOnItsWay,
                      C!At, C!Keys
  <2>2. C!DeletePipeline \/ \E t \in Threads : C!Begin(t) \/ C!Handlers(t)
    BY DEF C!Next
  <2> QED
    BY <1>1, <1>2, <2>1, <2>2, CatalogBegin, CatalogHandler
<1>5. C!QuotaIsHonest'
  <2>1. CASE quota' = quota
    BY <1>1, <2>1 DEF C!QuotaIsHonest
  <2>2. CASE quota' = C!NoQuota
    BY <2>2 DEF C!NoQuota, C!QuotaIsHonest
  <2>3. quota' \in {quota, C!NoQuota} \/ \E t \in Threads : C!ListClusterQuota(t)
    BY DEF C!Next, C!Handlers, C!Begin, C!CreateCluster, C!ReadCluster, C!WriteCluster,
           C!NotCluster, C!GetK8sClient, C!StoreClient, C!StoreCredential, C!ValidatePipeline,
           C!CreatePipeline, C!NotPipeline, C!DeletePipeline
  <2> QED
    BY <2>1, <2>2, <2>3, QuotaHonest
<1> QED
  BY <1>2, <1>3, <1>4, <1>5 DEF C!CatalogInv

\* Requests one by one leave deletions done and each client beside its credential,
\* the quota never claims what is not there, pipelines stay apart; and no request,
\* however late it writes, brings a deleted cluster back (DeleteCluster(),
\* GetK8sClient(), newQuota(), CreatePipeline()).
THEOREM CatalogStaysKept == Spec => CatalogIsKept
<1> DEFINE Inv == which = "catalog" => C!CatalogInv
           Kept == which = "catalog" => \A k \in C!Keys : cluster[k].deleted => cluster'[k].deleted
<1>1. Init => Inv
  BY CatalogStart DEF Init
<1>2. Inv /\ [Next]_all => Inv' /\ [Kept]_all
  <2> SUFFICES ASSUME Inv, [Next]_all PROVE Inv' /\ [Kept]_all
    OBVIOUS
  <2>1. CASE UNCHANGED all
    <3>1. /\ UNCHANGED which
          /\ UNCHANGED <<cluster, client, credOf, pipeline, req, overlap, gone, quota>>
      BY <2>1 DEF all
    <3>2. ASSUME C!CatalogInv PROVE C!CatalogInv'
      <4>1. C!TypeOK' /\ C!PipelinesAreUnique' /\ C!QuotaIsHonest'
        BY <3>1, <3>2 DEF C!CatalogInv, C!TypeOK, C!QuotaIsHonest, C!PipelinesAreUnique
      <4>2. C!OneByOneInv'
        BY <3>1, <3>2 DEF C!CatalogInv, C!OneByOneInv, C!Alone, C!DeletesItsRow, C!ClientOnItsWay,
                          C!At, C!Keys
      <4> QED
        BY <4>1, <4>2 DEF C!CatalogInv
    <3> QED
      BY <2>1, <3>1, <3>2
  <2>2. CASE which = "catalog" /\ C!Next /\ UNCHANGED which
    <3>1. C!CatalogInv'
      BY <2>2, CatalogNext
    <3>2. \A k \in C!Keys : cluster[k].deleted => cluster'[k].deleted
      BY <2>2, CatalogKeeps DEF C!CatalogInv
    <3> QED
      BY <3>1, <3>2
  <2>3. CASE which # "catalog" /\ UNCHANGED which
    BY <2>3
  <2> QED
    BY <2>1, <2>2, <2>3 DEF Next
<1>3. Inv => (which = "catalog" => C!CatalogIsSound)
  BY DEF C!CatalogInv, C!CatalogIsSound, C!OneByOneInv, C!OneByOne, C!ClientOnItsWay, C!At, C!Idle
<1> QED
  BY <1>1, <1>2, <1>3, PTL DEF Spec, CatalogIsKept

-----------------------------------------------------------------------------
(* The listings *)

\* Keys are positive and tell rows apart, so there are finitely many rows.
LEMMA RowsAreFinite == ASSUME L!TypeOK PROVE IsFiniteSet(rows)
<1> DEFINE f == [r \in rows |-> r.pk]
<1>1. \A r \in rows : r.pk \in 1..made
  BY DEF L!TypeOK, L!Row
<1>2. f \in Injection(rows, 1..made)
  BY <1>1 DEF L!TypeOK, Injection, IsInjective
<1>3. IsFiniteSet(1..made)
  BY FS_Interval DEF L!TypeOK
<1> QED
  BY <1>2, <1>3, FS_Injection

\* A hit is a row, with the grant it was joined with.
Found(M) == M \subseteq [row : rows, by : granted \cup {L!NoGrant}]

LEMMA HitsAreFinite ==
  ASSUME L!TypeOK, NEW M, Found(M) PROVE IsFiniteSet(M) /\ Cardinality(M) \in Nat
<1> DEFINE gs == granted \cup {L!NoGrant}
           f == [h \in M |-> <<h.row, h.by>>]
<1>1. IsFiniteSet(granted)
  BY DEF L!TypeOK, L!IsFiniteSet, IsFiniteSet
<1>2. IsFiniteSet(gs)
  BY <1>1, FS_AddElement
<1>3. IsFiniteSet(rows \X gs)
  <2> HIDE DEF gs
  <2> QED
    BY <1>2, RowsAreFinite, FS_Product
<1>4. f \in Injection(M, rows \X gs)
  <2>1. M \subseteq [row : rows, by : gs]
    BY DEF Found
  <2> HIDE DEF gs
  <2>2. f \in [M -> rows \X gs]
    BY <2>1
  <2>3. ASSUME NEW h \in M, NEW k \in M, f[h] = f[k] PROVE h = k
    BY <2>1, <2>3
  <2> QED
    BY <2>2, <2>3 DEF Injection, IsInjective
<1> HIDE DEF f
<1> QED
  BY <1>3, <1>4, FS_Injection, FS_CardinalityType

\* Each listing finds rows its caller may see, all of those asked for that it was
\* granted, and each once but for the join.
Selected(M) ==
  /\ Found(M) /\ \A h \in M : L!MaySee(h.row)
  /\ \A r \in rows : L!Wanted(r) /\ L!Entitled(granted, client.caller, r) => \E h \in M : h.row = r
  /\ ~ L!Joined => \A h, k \in M : h.row = k.row => h = k

LEMMA PlainHits ==
  ASSUME NEW X \in SUBSET rows, \A r \in X : L!MaySee(r), \A r \in rows : L!Wanted(r) => r \in X
  PROVE  Selected(L!Hits(X))
<1>1. ASSUME NEW h \in L!Hits(X) PROVE h.row \in X /\ h = [row |-> h.row, by |-> L!NoGrant]
  BY DEF L!Hits
<1>2. \A r \in X : [row |-> r, by |-> L!NoGrant] \in L!Hits(X)
  BY DEF L!Hits
<1>3. Found(L!Hits(X))
  BY <1>1 DEF Found
<1>4. \A r \in X : \E h \in L!Hits(X) : h.row = r
  BY <1>2
<1>5. \A h, k \in L!Hits(X) : h.row = k.row => h = k
  BY <1>1
<1> QED
  BY <1>1, <1>3, <1>4, <1>5 DEF Selected

LEMMA PkSelects ==
  ASSUME L!TypeOK, kind \notin L!TimeKinds
  PROVE  \E M : Selected(M) /\ L!ModelList = L!PkPage(M)
<1> USE DEF L!OwnKinds, L!RootKinds, L!TimeKinds
<1>1. CASE kind \in L!OwnKinds
  <2> DEFINE X == L!Match(L!OwnOnly, client.tags)
  <2>1. X \in SUBSET rows /\ (\A r \in X : L!MaySee(r)) /\ \A r \in rows : L!Wanted(r) => r \in X
    BY <1>1 DEF L!Match, L!MaySee, L!Wanted
  <2>2. L!ModelList = L!PkPage(L!Hits(X))
    BY <1>1 DEF L!ModelList, L!ListRun, L!ListPipeline, L!ListRunCache, L!ListArtifactEvent
  <2> HIDE DEF X
  <2> QED
    BY <2>1, <2>2, PlainHits
<1>2. CASE kind = "cluster"
  <2> DEFINE X == L!Match({}, client.tags)
  <2>1. X \in SUBSET rows /\ (\A r \in X : L!MaySee(r)) /\ \A r \in rows : L!Wanted(r) => r \in X
    BY <1>2 DEF L!Match, L!MaySee, L!Wanted
  <2>2. L!ModelList = L!PkPage(L!Hits(X))
    BY <1>2 DEF L!ModelList, L!ListCluster
  <2> HIDE DEF X
  <2> QED
    BY <2>1, <2>2, PlainHits
<1>3. CASE kind = "user"
  <2> DEFINE X == {r \in rows : r.owner # Root}
  <2>1. X \in SUBSET rows /\ (\A r \in X : L!MaySee(r)) /\ \A r \in rows : L!Wanted(r) => r \in X
    BY <1>3 DEF L!MaySee, L!Wanted
  <2>2. L!ModelList = L!PkPage(L!Hits(X))
    BY <1>3 DEF L!ModelList, L!ListUser
  <2> HIDE DEF X
  <2> QED
    BY <2>1, <2>2, PlainHits
<1>4. CASE kind = "grant"
  <2> DEFINE X == L!Match(client.users, {})
  <2>1. X \in SUBSET rows /\ (\A r \in X : L!MaySee(r)) /\ \A r \in rows : L!Wanted(r) => r \in X
    BY <1>4 DEF L!Match, L!MaySee, L!Wanted
  <2>2. L!ModelList = L!PkPage(L!Hits(X))
    BY <1>4 DEF L!ModelList, L!ListGrant
  <2> HIDE DEF X
  <2> QED
    BY <2>1, <2>2, PlainHits
<1>5. CASE kind = "queue" /\ client.caller = Root
  <2> DEFINE X == L!Match({}, client.tags)
  <2>1. X \in SUBSET rows /\ (\A r \in X : L!MaySee(r)) /\ \A r \in rows : L!Wanted(r) => r \in X
    BY <1>5 DEF L!Match, L!MaySee, L!Wanted
  <2>2. L!ModelList = L!PkPage(L!Hits(X))
    BY <1>5 DEF L!ModelList, L!ListQueue
  <2> HIDE DEF X
  <2> QED
    BY <2>1, <2>2, PlainHits
<1>6. CASE kind = "queue" /\ client.caller # Root
  <2> DEFINE X == L!Match({}, client.tags)
             By(r) == {[row |-> r, by |-> g] : g \in L!GrantsOf(granted, client.caller, r)}
             M == UNION {By(r) : r \in X}
  <2>1. X \in SUBSET rows /\ \A r \in rows : L!Wanted(r) => r \in X
    BY <1>6 DEF L!Match, L!Wanted
  <2>2. \A r : L!GrantsOf(granted, client.caller, r) \subseteq granted
    BY DEF L!GrantsOf
  <2>3. Found(M)
    <3> HIDE DEF X
    <3> QED
      BY <2>1, <2>2 DEF Found
  <2>4. \A h \in M : L!MaySee(h.row)
    BY <1>6 DEF L!MaySee
  <2>5. ASSUME NEW r \in rows, L!Wanted(r), L!Entitled(granted, client.caller, r)
        PROVE  \E h \in M : h.row = r
    <3>1. PICK g : g \in L!GrantsOf(granted, client.caller, r)
      BY <1>6, <2>5 DEF L!Entitled
    <3>2. [row |-> r, by |-> g] \in By(r)
      BY <3>1
    <3>3. r \in X
      BY <2>1, <2>5
    <3>4. [row |-> r, by |-> g] \in M
      BY <3>2, <3>3
    <3> QED
      BY <3>4
  <2>6. L!Joined
    BY <1>6 DEF L!Joined
  <2>7. L!ModelList = L!PkPage(M)
    BY <1>6 DEF L!ModelList, L!ListQueue
  <2>8. Selected(M)
    <3> HIDE DEF M
    <3> QED
      BY <2>3, <2>4, <2>5, <2>6 DEF Selected
  <2> QED
    BY <2>7, <2>8
<1>7. kind \in L!OwnKinds \cup {"cluster", "user", "grant", "queue"}
  BY DEF L!TypeOK, L!Kinds
<1> QED
  BY <1>1, <1>2, <1>3, <1>4, <1>5, <1>6, <1>7

LEMMA TimeSelects ==
  ASSUME L!TypeOK, kind \in L!TimeKinds
  PROVE  \E X \in SUBSET rows :
           /\ \A r \in X : L!MaySee(r)
           /\ \A r \in rows : L!Wanted(r) => r \in X
           /\ L!ModelList = L!Hits({r \in X : r.time <= L!TimeMarker})
<1> USE DEF L!OwnKinds, L!TimeKinds
<1>1. CASE kind = "fs"
  <2> DEFINE X == L!Match(IF client.caller = Root THEN {} ELSE {client.caller}, client.tags)
  <2>1. X \in SUBSET rows /\ (\A r \in X : L!MaySee(r)) /\ \A r \in rows : L!Wanted(r) => r \in X
    BY <1>1 DEF L!Match, L!MaySee, L!Wanted
  <2>2. L!ModelList = L!Hits({r \in X : r.time <= L!TimeMarker})
    BY <1>1 DEF L!ModelList, L!ListFileSystem
  <2> QED
    BY <2>1, <2>2
<1>2. CASE kind = "link"
  <2>1. (\A r \in rows : L!MaySee(r)) /\ L!ModelList = L!Hits({r \in rows : r.time <= L!TimeMarker})
    BY <1>2 DEF L!ModelList, L!ListLink, L!MaySee
  <2> QED
    BY <2>1
<1> QED
  BY <1>1, <1>2

LEMMA ClientFields ==
  ASSUME L!TypeOK, client # L!Idle
  PROVE  /\ client \in L!ClientType /\ client.limit \in Nat /\ client.got \in Seq(1..made)
         /\ client.page \in Seq(L!Row(made)) /\ client.marker \in [sealed : Nat] \cup [time : Nat]
         /\ client.pc \in {"query", "last", "done"} /\ client.lied \in BOOLEAN /\ made \in Nat
         /\ client.ordered \in BOOLEAN /\ client.cuts \subseteq Nat
BY LimitsAssumption DEF L!TypeOK, L!ClientType

LEMMA SeqFields ==
  ASSUME NEW S, NEW s \in Seq(S)
  PROVE  DOMAIN s = 1..Len(s) /\ Len(s) \in Nat /\ \A i \in DOMAIN s : s[i] \in S
OBVIOUS

\* An answer of the database is a page of what was found, each hit at most once,
\* and all of them when it is shorter than it may be.
LEMMA AnswersFrom ==
  ASSUME L!TypeOK, NEW M, Found(M), NEW n \in Nat, NEW s \in L!Answers(M, n),
         NEW p, p = L!RowsIn(s)
  PROVE  /\ p \in Seq(rows) /\ DOMAIN p = 1..Len(p) /\ Len(p) \in Nat /\ (s = <<>> <=> p = <<>>)
         /\ \A i \in 1..Len(p) : s[i] \in M /\ p[i] = s[i].row /\ p[i] \in rows
         /\ \A i, j \in 1..Len(p) : s[i] = s[j] => i = j
         /\ n # 0 => Len(p) <= n
         /\ n # 0 /\ Len(p) < n => \A h \in M : \E i \in 1..Len(p) : s[i] = h
<1> DEFINE c == Cardinality(M)
           k == L!PageSize(M, n)
<1>1. IsFiniteSet(M) /\ c \in Nat
  BY HitsAreFinite
<1>2. L!Cardinality(M) = c
  BY DEF L!Cardinality, Cardinality
<1>3. k \in Nat /\ (n # 0 => k <= n) /\ (n # 0 /\ k < n => k = c)
  BY <1>1, <1>2 DEF L!PageSize
<1>4. s \in [1..k -> M] /\ \A i, j \in 1..k : s[i] = s[j] => i = j
  BY DEF L!Answers, L!IsInjective
<1> HIDE DEF c, k
<1>5. \A h \in M : h.row \in rows
  BY DEF Found
<1>6. p = [i \in 1..k |-> s[i].row]
  BY <1>4 DEF L!RowsIn
<1>7. p \in Seq(rows) /\ Len(p) = k /\ DOMAIN p = 1..k /\ \A i \in 1..k : p[i] = s[i].row
  BY <1>3, <1>4, <1>5, <1>6
<1>8. s \in Seq(M) /\ Len(s) = k
  BY <1>3, <1>4
<1>9. s = <<>> <=> p = <<>>
  BY <1>3, <1>7, <1>8
<1>10. ASSUME n # 0, k < n PROVE \A h \in M : \E i \in 1..k : s[i] = h
  <2>1. IsFiniteSet(1..k) /\ Cardinality(1..k) = k
    <3>1. 1 \in Int /\ k \in Int
      BY <1>3
    <3>2. IsFiniteSet(1..k) /\ Cardinality(1..k) = (IF 1 > k THEN 0 ELSE k - 1 + 1)
      BY <3>1, FS_Interval
    <3>3. (IF 1 > k THEN 0 ELSE k - 1 + 1) = k
      BY <1>3
    <3> QED
      BY <3>2, <3>3
  <2>2. s \in Injection(1..k, M)
    BY <1>4 DEF Injection, IsInjective
  <2>3. s \in Surjection(1..k, M)
    BY <1>1, <1>3, <1>10, <2>1, <2>2, FS_Injection DEF c
  <2> QED
    BY <2>3 DEF Surjection
<1> QED
  BY <1>3, <1>4, <1>5, <1>7, <1>9, <1>10

\* What a page by primary key holds: it may be seen and lies beyond the marker; in
\* order it leaves nothing out up to its last row.
LEMMA PkQuery ==
  ASSUME L!TypeOK, client # L!Idle, kind \notin L!TimeKinds, client.marker \in [sealed : Nat],
         NEW s \in L!Answers(L!ModelList, client.limit), NEW p, p = L!RowsIn(s)
  PROVE  /\ p \in Seq(rows) /\ (s = <<>> <=> p = <<>>)
         /\ \A i \in 1..Len(p) : L!MaySee(p[i]) /\ p[i].pk > client.marker.sealed
         /\ L!InKeyOrder(p, L!RowsOf(L!ModelList)) =>
              /\ \A i, j \in 1..Len(p) : i < j => p[i].pk <= p[j].pk
              /\ ~ L!Joined => \A i, j \in 1..Len(p) : i < j => p[i].pk < p[j].pk
              /\ \A r \in rows :
                   L!Wanted(r) /\ L!Entitled(granted, client.caller, r) /\ r.pk > client.marker.sealed =>
                     \/ \E i \in 1..Len(p) : p[i] = r
                     \/ p # <<>> /\ r.pk > p[Len(p)].pk
<1>1. PICK M : Selected(M) /\ L!ModelList = L!PkPage(M)
  BY PkSelects
<1> DEFINE X == {h \in M : h.row.pk > client.marker.sealed}
<1>2. client.limit \in Nat /\ client.marker.sealed \in Nat
  BY ClientFields
<1>3. L!ModelList = X
  BY <1>1 DEF L!PkPage, L!DecryptPk
<1>4. Found(X) /\ X \subseteq M /\ \A h \in X : h.row \in rows
  BY <1>1 DEF Selected, Found
<1>5. s \in L!Answers(X, client.limit)
  BY <1>3
<1>6. \A h \in X : h.row.pk > client.marker.sealed
  OBVIOUS
<1>7. \A h \in M : h.row.pk > client.marker.sealed => h \in X
  OBVIOUS
<1> HIDE DEF X
<1>8. /\ p \in Seq(rows) /\ DOMAIN p = 1..Len(p) /\ Len(p) \in Nat /\ (s = <<>> <=> p = <<>>)
      /\ \A i \in 1..Len(p) : s[i] \in X /\ p[i] = s[i].row /\ p[i] \in rows
      /\ \A i, j \in 1..Len(p) : s[i] = s[j] => i = j
  BY <1>2, <1>4, <1>5, AnswersFrom
<1>9. \A i \in 1..Len(p) : L!MaySee(p[i]) /\ p[i].pk > client.marker.sealed
  BY <1>1, <1>4, <1>6, <1>8 DEF Selected
<1>10. ASSUME L!InKeyOrder(p, L!RowsOf(L!ModelList))
       PROVE  /\ \A i, j \in 1..Len(p) : i < j => p[i].pk <= p[j].pk
              /\ \A r \in L!RowsOf(X) : (\E i \in 1..Len(p) : p[i] = r) \/ (p # <<>> /\ r.pk > L!Last(p).pk)
  BY <1>3, <1>8, <1>10 DEF L!InKeyOrder
<1>11. ASSUME L!InKeyOrder(p, L!RowsOf(L!ModelList)), ~ L!Joined,
              NEW i \in 1..Len(p), NEW j \in 1..Len(p), i < j
       PROVE  p[i].pk < p[j].pk
  <2>1. s[i] # s[j]
    BY <1>8, <1>11
  <2>2. s[i].row # s[j].row
    BY <1>1, <1>4, <1>8, <1>11, <2>1 DEF Selected
  <2>3. p[i] # p[j] /\ p[i] \in rows /\ p[j] \in rows
    BY <1>8, <2>2
  <2>4. p[i].pk # p[j].pk /\ p[i].pk \in Nat /\ p[j].pk \in Nat
    BY <2>3 DEF L!TypeOK, L!Row
  <2>5. p[i].pk <= p[j].pk
    BY <1>10, <1>11
  <2> QED
    BY <2>4, <2>5
<1>12. ASSUME L!InKeyOrder(p, L!RowsOf(L!ModelList)),
              NEW r \in rows, L!Wanted(r), L!Entitled(granted, client.caller, r),
              r.pk > client.marker.sealed, ~ \E i \in 1..Len(p) : p[i] = r
       PROVE  p # <<>> /\ r.pk > p[Len(p)].pk
  <2>1. PICK h \in M : h.row = r
    BY <1>1, <1>12 DEF Selected
  <2>2. h \in X
    BY <1>7, <1>12, <2>1
  <2>3. r \in L!RowsOf(X)
    BY <2>1, <2>2 DEF L!RowsOf
  <2> QED
    BY <1>10, <1>12, <2>3 DEF L!Last
<1> QED
  BY <1>8, <1>9, <1>10, <1>11, <1>12

\* The same of a page by time: it goes down from the marker.
LEMMA TimeQuery ==
  ASSUME L!TypeOK, client # L!Idle, kind \in L!TimeKinds,
         NEW s \in L!Answers(L!ModelList, client.limit + 1), NEW p, p = L!RowsIn(s),
         L!NewestFirst(p, L!RowsOf(L!ModelList))
  PROVE  /\ p \in Seq(rows) /\ Len(p) <= client.limit + 1
         /\ \A i \in 1..Len(p) : L!MaySee(p[i]) /\ p[i].time <= L!TimeMarker
         /\ \A i, j \in 1..Len(p) : i < j => p[i].time > p[j].time
         /\ \A r \in rows : L!Wanted(r) /\ r.time <= L!TimeMarker =>
              \/ \E i \in 1..Len(p) : p[i] = r
              \/ Len(p) = client.limit + 1 /\ r.time < p[Len(p)].time
<1>1. PICK Y \in SUBSET rows :
           /\ \A r \in Y : L!MaySee(r)
           /\ \A r \in rows : L!Wanted(r) => r \in Y
           /\ L!ModelList = L!Hits({r \in Y : r.time <= L!TimeMarker})
  BY TimeSelects
<1> DEFINE X == L!ModelList
           n == client.limit + 1
<1>2. n \in Nat /\ n # 0
  BY ClientFields
<1>3. ASSUME NEW h \in X
      PROVE  /\ h = [row |-> h.row, by |-> L!NoGrant] /\ h.row \in rows
             /\ h.row \in Y /\ h.row.time <= L!TimeMarker
  BY <1>1 DEF L!Hits
<1>4. ASSUME NEW r \in Y, r.time <= L!TimeMarker PROVE [row |-> r, by |-> L!NoGrant] \in X
  BY <1>1, <1>4 DEF L!Hits
<1> HIDE DEF X, n
<1>5. Found(X)
  BY <1>3 DEF Found
<1>6. s \in L!Answers(X, n) /\ L!NewestFirst(p, L!RowsOf(X))
  BY DEF X, n
<1>7. /\ p \in Seq(rows) /\ DOMAIN p = 1..Len(p) /\ Len(p) \in Nat
      /\ \A i \in 1..Len(p) : s[i] \in X /\ p[i] = s[i].row /\ p[i] \in rows
      /\ Len(p) <= n
      /\ Len(p) < n => \A h \in X : \E i \in 1..Len(p) : s[i] = h
  BY <1>2, <1>5, <1>6, AnswersFrom
<1>8. \A i \in 1..Len(p) : L!MaySee(p[i]) /\ p[i].time <= L!TimeMarker
  BY <1>1, <1>3, <1>7
<1>9. \A i, j \in 1..Len(p) : i < j => p[i].time > p[j].time
  BY <1>6, <1>7 DEF L!NewestFirst
<1>10. ASSUME NEW r \in rows, L!Wanted(r), r.time <= L!TimeMarker, ~ \E i \in 1..Len(p) : p[i] = r
       PROVE  Len(p) = n /\ r.time < p[Len(p)].time
  <2>1. PICK h : h = [row |-> r, by |-> L!NoGrant]
    OBVIOUS
  <2>2. h \in X /\ h.row = r
    BY <1>1, <1>4, <1>10, <2>1
  <2>3. ~ \E i \in 1..Len(p) : s[i] = h
    BY <1>7, <1>10, <2>2
  <2>4. Len(p) = n
    <3>1. ~ (Len(p) < n)
      BY <1>7, <2>2, <2>3
    <3>2. Len(p) \in Nat /\ Len(p) <= n
      BY <1>7
    <3> QED
      BY <1>2, <3>1, <3>2
  <2>5. r \in L!RowsOf(X)
    BY <2>2 DEF L!RowsOf
  <2>6. r.time < L!Last(p).time
    BY <1>6, <1>7, <1>10, <2>5 DEF L!NewestFirst
  <2> QED
    BY <2>4, <2>6 DEF L!Last
<1> QED
  BY <1>7, <1>8, <1>9, <1>10 DEF n

\* What a request may see depends on who asks for what.
LEMMA SameRights ==
  ASSUME kind' = kind, client'.caller = client.caller, client'.users = client.users,
         client'.tags = client.tags, NEW r
  PROVE  (L!MaySee(r)' <=> L!MaySee(r)) /\ (L!Wanted(r)' <=> L!Wanted(r))
BY DEF L!MaySee, L!Wanted, L!OwnOnly

LEMMA ListingInit == L!Init => L!ListingInv
<1> SUFFICES ASSUME L!Init PROVE L!ListingInv
  OBVIOUS
<1>1. IsFiniteSet({})
  BY FS_EmptySet
<1>2. L!IsFiniteSet({})
  BY <1>1 DEF L!IsFiniteSet, IsFiniteSet
<1>3. L!TypeOK
  BY <1>2 DEF L!Init, L!TypeOK, L!Row
<1> QED
  BY <1>3 DEF L!Init, L!ListingInv, L!RightsInv, L!PkInv, L!TimeInv

\* A moment lies in its second; of two moments of different seconds the later one
\* lies after the other's second has begun.
LEMMA Seconds ==
  ASSUME NEW t \in Nat, NEW u \in Nat, t <= u
  PROVE  /\ L!Second(t) \in Nat /\ L!Second(t) <= t
         /\ L!Second(t) # L!Second(u) => t < L!Second(u)
BY DEF L!Second

\* What was handed out, and what is on the page.
LEMMA ClientKeys ==
  ASSUME L!TypeOK, client # L!Idle
  PROVE  /\ \A i \in DOMAIN client.got : client.got[i] \in 1..made
         /\ \A i \in DOMAIN client.page : client.page[i] \in L!Row(made) /\ client.page[i].pk \in 1..made
         /\ DOMAIN client.got = 1..Len(client.got) /\ DOMAIN client.page = 1..Len(client.page)
         /\ Len(client.got) \in Nat /\ Len(client.page) \in Nat
<1> DEFINE got == client.got
           page == client.page
<1>1. got \in Seq(1..made) /\ page \in Seq(L!Row(made))
  BY ClientFields
<1>2. \A r \in L!Row(made) : r.pk \in 1..made
  BY DEF L!Row
<1> HIDE DEF got, page
<1>3. /\ DOMAIN got = 1..Len(got) /\ Len(got) \in Nat /\ \A i \in DOMAIN got : got[i] \in 1..made
      /\ DOMAIN page = 1..Len(page) /\ Len(page) \in Nat /\ \A i \in DOMAIN page : page[i] \in L!Row(made)
  BY <1>1, SeqFields
<1> QED
  BY <1>2, <1>3 DEF got, page

\* Rows that come and go do not matter when nothing of the new ones was handed out.
LEMMA OtherRows ==
  ASSUME L!ListingInv, UNCHANGED <<kind, client>>,
         \A r \in rows' : \/ r \in rows /\ (r.pk \in kept' => r.pk \in kept)
                          \/ ~ L!Got(r.pk) /\ ~ L!OnPage(r.pk) /\ r.pk \notin kept'
  PROVE  L!RightsInv' /\ L!PkInv' /\ L!TimeInv'
<1>1. CASE client = L!Idle
  BY <1>1 DEF L!RightsInv, L!PkInv, L!TimeInv
<1>2. CASE client # L!Idle
  <2>1. ASSUME NEW r \in rows'
        PROVE  /\ L!Got(r.pk)' <=> L!Got(r.pk)
               /\ L!OnPage(r.pk)' <=> L!OnPage(r.pk)
               /\ L!MaySee(r)' <=> L!MaySee(r)
               /\ L!Blurred(r)' <=> L!Blurred(r)
               /\ L!Waits(r)' => r \in rows /\ L!Waits(r)
               /\ r \notin rows => ~ L!Got(r.pk) /\ ~ L!OnPage(r.pk)
    BY SameRights DEF L!Got, L!OnPage, L!Waits, L!Blurred
  <2>2. L!RightsInv'
    BY <1>2, <2>1 DEF L!ListingInv, L!RightsInv
  <2>3. L!PkInv'
    <3>1. L!Joined' <=> L!Joined
      BY DEF L!Joined
    <3> QED
      BY <1>2, <2>1, <3>1 DEF L!ListingInv, L!PkInv
  <2>4. L!TimeInv'
    BY <1>2, <2>1 DEF L!ListingInv, L!TimeInv
  <2> QED
    BY <2>2, <2>3, <2>4
<1> QED
  BY <1>1, <1>2

\* A new row has a key that nobody has been given yet.
LEMMA ListingInsert == ASSUME L!ListingInv, L!Insert PROVE L!ListingInv'
<1>1. PICK o \in L!Callers, g \in Tags :
        /\ made' = made + 1 /\ now' = now + 1
        /\ rows' = rows \cup {[pk |-> made + 1, owner |-> o, tag |-> g, time |-> now + 1]}
        /\ UNCHANGED <<kind, granted, client, kept, errors>>
  BY DEF L!Insert
<1> DEFINE new == [pk |-> made + 1, owner |-> o, tag |-> g, time |-> now + 1]
<1>2. /\ L!TypeOK /\ made \in Nat /\ now \in Nat /\ \A r \in rows : r.pk \in 1..made
      /\ \A r \in rows : r.time \in Nat /\ r.time <= now
      /\ kept \subseteq {r.pk : r \in rows}
  BY DEF L!ListingInv, L!TypeOK, L!Row
<1>3. /\ new \in L!Row(made + 1) /\ new.pk = made + 1 /\ new.time = now + 1
      /\ L!Row(made) \subseteq L!Row(made + 1)
  BY <1>2 DEF L!Row
<1>4. rows' = rows \cup {new}
  BY <1>1
<1> HIDE DEF new
<1>5. L!TypeOK'
  <2>1. client \in L!ClientType => client \in L!ClientType'
    <3>1. Seq(1..made) \subseteq Seq(1..(made + 1)) /\ Seq(L!Row(made)) \subseteq Seq(L!Row(made + 1))
      BY <1>2, <1>3
    <3> QED
      BY <1>1, <3>1 DEF L!ClientType
  <2>2. /\ rows' \subseteq L!Row(made') /\ kept' \subseteq {r.pk : r \in rows'}
        /\ made' \in Nat /\ now' \in Nat
    BY <1>1, <1>2, <1>3, <1>4 DEF L!TypeOK
  <2>3. \A r, q \in rows' : r.pk = q.pk \/ r.time = q.time => r = q
    BY <1>2, <1>3, <1>4 DEF L!TypeOK
  <2>4. \A r \in rows' : r.time <= now'
    BY <1>1, <1>2, <1>3, <1>4
  <2>5. \A r \in rows' : r.pk \in kept' => r \in rows
    BY <1>1, <1>2, <1>3, <1>4
  <2>6. client' # L!Idle => \A r \in rows' : r.pk \in kept' => L!Entitled(granted, client.caller, r)'
    BY <1>1, <1>2, <2>5 DEF L!TypeOK, L!Entitled, L!GrantsOf
  <2> QED
    BY <1>1, <1>2, <2>1, <2>2, <2>3, <2>4, <2>6 DEF L!TypeOK
<1>6. client # L!Idle => ~ L!Got(new.pk) /\ ~ L!OnPage(new.pk)
  <2> SUFFICES ASSUME client # L!Idle PROVE ~ L!Got(new.pk) /\ ~ L!OnPage(new.pk)
    OBVIOUS
  <2>1. new.pk \notin 1..made
    BY <1>2, <1>3
  <2> QED
    BY <1>2, <2>1, ClientKeys DEF L!Got, L!OnPage
<1>7. new.pk \notin kept'
  BY <1>1, <1>2, <1>3
<1>8. CASE client = L!Idle
  BY <1>1, <1>5, <1>8 DEF L!ListingInv, L!RightsInv, L!PkInv, L!TimeInv
<1>9. CASE client # L!Idle
  BY <1>1, <1>4, <1>5, <1>6, <1>7, <1>9, OtherRows DEF L!ListingInv
<1> QED
  BY <1>8, <1>9

\* With fewer grants there are still finitely many.
LEMMA FewerGrants ==
  ASSUME L!IsFiniteSet(granted), NEW G \in SUBSET granted PROVE L!IsFiniteSet(G)
<1>1. IsFiniteSet(granted)
  BY DEF L!IsFiniteSet, IsFiniteSet
<1>2. IsFiniteSet(G)
  BY <1>1, FS_Subset
<1> QED
  BY <1>2 DEF L!IsFiniteSet, IsFiniteSet

LEMMA ListingDelete == ASSUME L!ListingInv, L!Delete PROVE L!ListingInv'
<1>1. PICK r \in rows :
        /\ rows' = rows \ {r} /\ kept' = kept \ {r.pk}
        /\ granted' = {g \in granted : g.queue # r.pk \/ g.type # "queue"}
        /\ UNCHANGED <<kind, made, now, client, errors>>
  BY DEF L!Delete
<1>2. L!TypeOK'
  <2>1. kept' \subseteq {q.pk : q \in rows'}
    BY <1>1 DEF L!ListingInv, L!TypeOK
  <2>2. L!IsFiniteSet(granted')
    BY <1>1, FewerGrants DEF L!ListingInv, L!TypeOK
  <2>3. ASSUME client # L!Idle, NEW q \in rows', q.pk \in kept'
        PROVE  L!Entitled(granted, client.caller, q)'
    <3>1. L!Entitled(granted, client.caller, q) /\ q.pk # r.pk
      BY <1>1, <2>3 DEF L!ListingInv, L!TypeOK
    <3>2. \A g \in granted : g.queue = q.pk => g \in granted'
      BY <1>1, <3>1
    <3> QED
      BY <1>1, <3>1, <3>2 DEF L!Entitled, L!GrantsOf
  <2>4. client \in L!ClientType => client' \in L!ClientType'
    BY <1>1 DEF L!ClientType
  <2>5. client \in L!ClientType \cup {L!Idle} /\ L!Idle = L!Idle'
    BY DEF L!ListingInv, L!TypeOK, L!Idle
  <2> QED
    BY <1>1, <2>1, <2>2, <2>3, <2>4, <2>5 DEF L!ListingInv, L!TypeOK
<1> QED
  BY <1>1, <1>2, OtherRows DEF L!ListingInv

LEMMA ListingTick == ASSUME L!ListingInv, L!Tick PROVE L!ListingInv'
<1>1. now' = now + 1 /\ UNCHANGED <<kind, rows, granted, made, client, kept>>
  BY DEF L!Tick
<1>2. now \in Nat /\ \A r \in rows : r.time \in Nat /\ r.time <= now
  BY DEF L!ListingInv, L!TypeOK, L!Row
<1>3. now' \in Nat /\ \A r \in rows' : r.time <= now'
  BY <1>1, <1>2
<1>4. L!TypeOK'
  BY <1>1, <1>3 DEF L!ListingInv, L!TypeOK, L!ClientType, L!Entitled, L!GrantsOf
<1> QED
  BY <1>1, <1>4, OtherRows DEF L!ListingInv

LEMMA ListingGrant == ASSUME L!ListingInv, L!CreateGrant PROVE L!ListingInv'
<1>1. PICK g : granted' = granted \cup {g}
  BY DEF L!CreateGrant
<1>2. UNCHANGED <<kind, rows, made, now, client, kept>>
  BY DEF L!CreateGrant
<1>3. L!IsFiniteSet(granted')
  <2>1. IsFiniteSet(granted)
    BY DEF L!ListingInv, L!TypeOK, L!IsFiniteSet, IsFiniteSet
  <2>2. IsFiniteSet(granted')
    BY <1>1, <2>1, FS_AddElement
  <2> QED
    BY <2>2 DEF L!IsFiniteSet, IsFiniteSet
<1>4. \A r \in rows : L!Entitled(granted, client.caller, r) => L!Entitled(granted, client.caller, r)'
  BY <1>1, <1>2 DEF L!Entitled, L!GrantsOf
<1>5. L!TypeOK'
  BY <1>2, <1>3, <1>4 DEF L!ListingInv, L!TypeOK, L!ClientType
<1> QED
  BY <1>2, <1>5, OtherRows DEF L!ListingInv

\* A queue that was taken away from the caller is not waited for.
LEMMA ListingRevoke == ASSUME L!ListingInv, L!DeleteGrant PROVE L!ListingInv'
<1>1. PICK g \in granted :
        /\ granted' = granted \ {g}
        /\ kept' = {r.pk : r \in {q \in rows :
                      q.pk \in kept /\ (client # L!Idle => L!Entitled(granted', client.caller, q))}}
        /\ UNCHANGED <<kind, rows, made, now, client, errors>>
  BY DEF L!DeleteGrant, L!Entitled, L!GrantsOf
<1>2. L!IsFiniteSet(granted')
  BY <1>1, FewerGrants DEF L!ListingInv, L!TypeOK
<1>3. ASSUME NEW r \in rows, r.pk \in kept'
      PROVE  r.pk \in kept /\ (client # L!Idle => L!Entitled(granted, client.caller, r)')
  <2>1. PICK q \in rows : /\ q.pk = r.pk /\ q.pk \in kept
                          /\ client # L!Idle => L!Entitled(granted', client.caller, q)
    BY <1>1, <1>3
  <2>2. q = r
    BY <2>1 DEF L!ListingInv, L!TypeOK
  <2> QED
    BY <1>1, <2>1, <2>2 DEF L!Entitled, L!GrantsOf
<1>4. kept' \subseteq {r.pk : r \in rows'}
  BY <1>1
<1>5. L!TypeOK'
  BY <1>1, <1>2, <1>3, <1>4 DEF L!ListingInv, L!TypeOK, L!ClientType
<1> QED
  BY <1>1, <1>3, <1>5, OtherRows DEF L!ListingInv

\* A client begins with nothing, and what is there then, and granted, is kept.
LEMMA ListingAsk ==
  ASSUME L!ListingInv, NEW callers, callers \subseteq L!Callers,
         NEW limits, limits \subseteq Limits, L!Ask(callers, limits)
  PROVE  L!ListingInv'
<1>1. PICK u \in callers, n \in limits, us \in SUBSET L!Callers, gs \in SUBSET Tags :
        /\ client' = [pc |-> "query", caller |-> u, limit |-> n, users |-> us, tags |-> gs,
                      marker |-> L!NoMarker, got |-> <<>>, page |-> <<>>,
                      lied |-> FALSE, ordered |-> TRUE, cuts |-> {}]
        /\ kept' = {r.pk : r \in {q \in rows : L!Entitled(granted, u, q)}}
        /\ UNCHANGED <<kind, rows, granted, made, now, errors>>
  <2>1. L!UserFilters \subseteq SUBSET L!Callers
    BY DEF L!UserFilters
  <2>2. L!TagFilters \subseteq SUBSET Tags
    BY DEF L!TagFilters
  <2> QED
    BY <2>1, <2>2 DEF L!Ask
<1>2. /\ client'.pc = "query" /\ client'.got = <<>> /\ client'.page = <<>> /\ client'.caller = u
      /\ client'.marker = L!NoMarker /\ L!NoMarker \in [sealed : Nat] /\ L!NoMarker.sealed = 0
  BY <1>1 DEF L!NoMarker
<1>3. \A r \in rows : r.pk \in Nat /\ r.pk > 0
  BY DEF L!ListingInv, L!TypeOK, L!Row
<1>4. L!TypeOK'
  <2>1. <<>> \in Seq(1..made) /\ <<>> \in Seq(L!Row(made))
    OBVIOUS
  <2>2. client' \in L!ClientType
    BY <1>1, <1>2, <2>1 DEF L!ClientType
  <2>3. L!ClientType' = L!ClientType
    BY <1>1 DEF L!ClientType
  <2>4. kept' \subseteq {r.pk : r \in rows'}
    BY <1>1
  <2>5. ASSUME NEW r \in rows', r.pk \in kept' PROVE L!Entitled(granted, client.caller, r)'
    <3>1. PICK q \in rows : q.pk = r.pk /\ L!Entitled(granted, u, q)
      BY <1>1, <2>5
    <3>2. q = r
      BY <1>1, <3>1 DEF L!ListingInv, L!TypeOK
    <3> QED
      BY <1>1, <1>2, <3>1, <3>2 DEF L!Entitled, L!GrantsOf
  <2> QED
    BY <1>1, <2>2, <2>3, <2>4, <2>5 DEF L!ListingInv, L!TypeOK
<1>5. L!RightsInv'
  BY <1>2 DEF L!RightsInv, L!Got, L!OnPage
<1>6. L!PkInv'
  BY <1>1, <1>2, <1>3 DEF L!PkInv, L!Rising, L!PageKeys
<1>7. L!TimeInv'
  BY <1>2 DEF L!TimeInv, L!IsInjective
<1> QED
  BY <1>4, <1>5, <1>6, <1>7 DEF L!ListingInv

\* The client is dismissed.
LEMMA ListingIdle ==
  ASSUME L!ListingInv, client' = L!Idle, UNCHANGED <<kind, rows, granted, made, now, kept>>
  PROVE  L!ListingInv'
BY DEF L!ListingInv, L!TypeOK, L!RightsInv, L!PkInv, L!TimeInv

\* The types are kept when the client is, and goes on asking for the same caller.
LEMMA ClientTypes ==
  ASSUME L!TypeOK, client # L!Idle, UNCHANGED <<kind, rows, granted, made, now, kept>>,
         client' \in L!ClientType, client'.caller = client.caller
  PROVE  L!TypeOK'
<1>1. L!ClientType' = L!ClientType
  BY DEF L!ClientType
<1>2. \A r \in rows : L!Entitled(granted, client.caller, r)' <=> L!Entitled(granted, client.caller, r)
  BY DEF L!Entitled, L!GrantsOf
<1> QED
  BY <1>1, <1>2 DEF L!TypeOK

\* A handler that hides an error says that there is nothing more.
LEMMA ListingLies ==
  ASSUME L!ListingInv, client.pc = "query", client # L!Idle, kind \notin L!TimeKinds,
         client' = L!EmptyPage, UNCHANGED <<kind, rows, granted, made, now, kept>>
  PROVE  L!ListingInv'
<1>1. client \in L!ClientType
  BY ClientFields DEF L!ListingInv
<1>2. /\ client' \in L!ClientType /\ client'.pc = "done" /\ client'.lied
      /\ client'.got = client.got /\ client'.page = client.page /\ client'.caller = client.caller
      /\ client'.users = client.users /\ client'.tags = client.tags /\ client'.ordered = client.ordered
  BY <1>1 DEF L!ClientType, L!EmptyPage
<1>3. L!TypeOK'
  BY <1>2, ClientTypes DEF L!ListingInv
<1>4. L!RightsInv'
  BY <1>2, SameRights DEF L!ListingInv, L!RightsInv, L!Got, L!OnPage
<1>5. L!PkInv'
  BY <1>2 DEF L!ListingInv, L!PkInv, L!Joined
<1>6. L!TimeInv'
  BY DEF L!TimeInv
<1> QED
  BY <1>3, <1>4, <1>5, <1>6 DEF L!ListingInv

\* A page comes from the database.
LEMMA ListingQuery ==
  ASSUME L!ListingInv, client # L!Idle, kind \notin L!TimeKinds, NEW k, L!QueryRows(k)
  PROVE  L!ListingInv'
<1>0. L!TypeOK /\ L!RightsInv /\ L!PkInv /\ client.pc = "query"
  BY DEF L!ListingInv, L!QueryRows
<1>1. PICK s \in L!Answers(L!ModelList, client.limit) :
        client' = [client EXCEPT !.page = L!RowsIn(s), !.pc = IF s = <<>> THEN "done" ELSE "last",
                     !.ordered = @ /\ L!InKeyOrder(L!RowsIn(s), L!RowsOf(L!ModelList))]
  BY DEF L!QueryRows
<1>2. UNCHANGED <<kind, rows, granted, made, now, kept>>
  BY DEF L!QueryRows
<1>3. PICK p : p = L!RowsIn(s)
  OBVIOUS
<1>4. PICK b \in BOOLEAN : b = L!InKeyOrder(p, L!RowsOf(L!ModelList))
  BY DEF L!InKeyOrder
<1>5. /\ client \in L!ClientType /\ client.marker \in [sealed : Nat] /\ made \in Nat
      /\ client.ordered \in BOOLEAN
  BY <1>0, ClientFields DEF L!PkInv
<1>6. /\ p \in Seq(rows) /\ (s = <<>> <=> p = <<>>)
      /\ \A i \in 1..Len(p) : L!MaySee(p[i]) /\ p[i].pk > client.marker.sealed
      /\ b => /\ \A i, j \in 1..Len(p) : i < j => p[i].pk <= p[j].pk
              /\ ~ L!Joined => \A i, j \in 1..Len(p) : i < j => p[i].pk < p[j].pk
              /\ \A r \in rows :
                   L!Wanted(r) /\ L!Entitled(granted, client.caller, r) /\ r.pk > client.marker.sealed =>
                     \/ \E i \in 1..Len(p) : p[i] = r
                     \/ p # <<>> /\ r.pk > p[Len(p)].pk
  BY <1>0, <1>3, <1>4, <1>5, PkQuery
<1>7. /\ DOMAIN p = 1..Len(p) /\ Len(p) \in Nat /\ \A i \in DOMAIN p : p[i] \in rows
  BY <1>6, SeqFields
<1>8. p \in Seq(L!Row(made)) /\ rows \subseteq L!Row(made)
  BY <1>0, <1>6 DEF L!TypeOK
<1>9. /\ client'.page = p /\ client'.pc = (IF p = <<>> THEN "done" ELSE "last")
      /\ client'.got = client.got /\ client'.marker = client.marker
      /\ client'.caller = client.caller /\ client'.users = client.users
      /\ client'.tags = client.tags /\ client' \in L!ClientType
      /\ client'.ordered = (client.ordered /\ b)
  <2>1. client' = [client EXCEPT !.page = p, !.pc = IF p = <<>> THEN "done" ELSE "last",
                                 !.ordered = client.ordered /\ b]
    BY <1>1, <1>3, <1>4, <1>6
  <2>2. PICK o \in BOOLEAN : o = (client.ordered /\ b)
    OBVIOUS
  <2>3. client' = [client EXCEPT !.page = p, !.pc = IF p = <<>> THEN "done" ELSE "last", !.ordered = o]
    BY <2>1, <2>2
  <2> QED
    BY <1>5, <1>8, <2>2, <2>3 DEF L!ClientType
<1>10. L!TypeOK'
  BY <1>0, <1>2, <1>9, ClientTypes
<1>11. ASSUME NEW r \in rows
       PROVE  /\ L!Got(r.pk)' <=> L!Got(r.pk)
              /\ L!OnPage(r.pk)' <=> \E i \in 1..Len(p) : p[i] = r
              /\ L!MaySee(r)' <=> L!MaySee(r)
              /\ L!Waits(r)' <=> L!Waits(r)
              /\ L!Waits(r) => L!Wanted(r) /\ L!Entitled(granted, client.caller, r)
              /\ r.pk \in Nat
  <2>1. L!OnPage(r.pk)' <=> \E i \in 1..Len(p) : p[i].pk = r.pk
    BY <1>7, <1>9 DEF L!OnPage
  <2>2. \A i \in 1..Len(p) : p[i].pk = r.pk => p[i] = r
    BY <1>0, <1>7 DEF L!TypeOK
  <2>3. r.pk \in Nat
    BY <1>5, <1>8 DEF L!Row
  <2>4. r.pk \in kept => L!Entitled(granted, client.caller, r)
    BY <1>0 DEF L!TypeOK
  <2> QED
    BY <1>2, <1>9, <2>1, <2>2, <2>3, <2>4, SameRights DEF L!Got, L!Waits
<1>12. L!RightsInv'
  <2>1. ASSUME NEW r \in rows, L!Got(r.pk)' \/ L!OnPage(r.pk)' PROVE L!MaySee(r)'
    BY <1>0, <1>6, <1>11, <2>1 DEF L!RightsInv
  <2> QED
    BY <1>2, <2>1 DEF L!RightsInv
<1>13. CASE ~ (client.ordered /\ b)
  <2>1. client'.pc = "last" => client'.page # <<>>
    BY <1>9
  <2>2. ~ client'.ordered
    BY <1>9, <1>13
  <2>3. L!PkInv'
    BY <1>2, <1>5, <1>9, <2>1, <2>2 DEF L!PkInv
  <2> QED
    BY <1>2, <1>10, <1>12, <2>3 DEF L!ListingInv, L!TimeInv
<1>14. CASE client.ordered /\ b
  <2>1. ~ L!Joined => L!Rising(client.got) /\ L!Rising(L!PageKeys(p))
    <3>1. DOMAIN L!PageKeys(p) = 1..Len(p) /\ \A i \in 1..Len(p) : L!PageKeys(p)[i] = p[i].pk
      BY <1>7 DEF L!PageKeys
    <3> HIDE DEF L!PageKeys
    <3>2. ~ L!Joined => L!Rising(client.got)
      BY <1>0, <1>14 DEF L!PkInv
    <3> QED
      BY <1>6, <1>14, <3>1, <3>2 DEF L!Rising
  <2>2. /\ \A i \in DOMAIN client.got : client.got[i] <= client.marker.sealed
        /\ \A r \in rows : L!Waits(r) /\ r.pk <= client.marker.sealed => L!Got(r.pk)
    BY <1>0, <1>14 DEF L!PkInv
  <2>3. client.marker.sealed \in Nat
    BY <1>5
  <2>4. ASSUME NEW r \in rows, L!Waits(r), ~ L!Got(r.pk)
        PROVE  \/ \E i \in 1..Len(p) : p[i] = r
               \/ p # <<>> /\ r.pk > p[Len(p)].pk
    <3>1. r.pk > client.marker.sealed
      BY <1>11, <2>2, <2>3, <2>4
    <3> QED
      BY <1>6, <1>11, <1>14, <2>4, <3>1
  <2>5. L!Joined' <=> L!Joined
    BY <1>2, <1>9 DEF L!Joined
  <2>6. CASE p = <<>>
    <3>1. Len(p) = 0 /\ client'.pc = "done"
      BY <1>9, <2>6
    <3>2. \A r \in rows : L!Waits(r) => L!Got(r.pk)
      BY <2>4, <2>6, <3>1
    <3>3. \A r \in rows' : L!Waits(r)' => L!Got(r.pk)'
      BY <1>2, <1>11, <3>2
    <3>4. L!PkInv'
      BY <1>9, <2>1, <2>5, <3>1, <3>3 DEF L!PkInv, L!Rising
    <3> QED
      BY <1>2, <1>10, <1>12, <3>4 DEF L!ListingInv, L!TimeInv
  <2>7. CASE p # <<>>
    <3>1. client'.pc = "last" /\ L!Last(p) = p[Len(p)] /\ Len(p) \in 1..Len(p)
      BY <1>7, <1>9, <2>7 DEF L!Last
    <3>2. p[Len(p)].pk \in Nat
      BY <1>7, <1>11, <3>1
    <3>3. ASSUME NEW r \in rows', L!Waits(r)', r.pk <= p[Len(p)].pk
          PROVE  L!Got(r.pk)' \/ L!OnPage(r.pk)'
      <4>1. r \in rows /\ r.pk \in Nat /\ L!Waits(r)
        BY <1>2, <1>11, <3>3
      <4>2. ~ (r.pk > p[Len(p)].pk)
        BY <3>2, <3>3, <4>1
      <4> QED
        BY <1>11, <2>4, <4>1, <4>2
    <3>4. \A i \in DOMAIN p : p[i].pk > client.marker.sealed /\ p[i].pk <= p[Len(p)].pk
      <4>1. \A i \in DOMAIN p : i = Len(p) \/ i < Len(p)
        BY <1>7
      <4>2. \A i \in DOMAIN p : p[i].pk <= p[Len(p)].pk
        BY <1>6, <1>7, <1>14, <3>1, <3>2, <4>1
      <4> QED
        BY <1>6, <1>7, <4>2
    <3>5. L!PkInv'
      <4>1. client'.marker \in [sealed : Nat] /\ client'.page # <<>> /\ client'.marker = client.marker
        BY <1>5, <1>9, <2>7
      <4>2. L!Last(client'.page).pk = p[Len(p)].pk
        BY <1>9, <3>1
      <4>3. ~ L!Joined' => L!Rising(client'.got) /\ L!Rising(L!PageKeys(client'.page))
        BY <1>9, <2>1, <2>5
      <4>4. \A i \in DOMAIN client'.got : client'.got[i] <= client'.marker.sealed
        BY <1>9, <2>2
      <4>5. \A i \in DOMAIN client'.page : /\ client'.page[i].pk > client'.marker.sealed
                                           /\ client'.page[i].pk <= L!Last(client'.page).pk
        BY <1>9, <3>4, <4>2
      <4>6. \A r \in rows' : L!Waits(r)' /\ r.pk <= L!Last(client'.page).pk => L!Got(r.pk)' \/ L!OnPage(r.pk)'
        BY <3>3, <4>2
      <4> QED
        BY <3>1, <4>1, <4>3, <4>4, <4>5, <4>6 DEF L!PkInv, L!Rising, L!PageKeys, L!Last
    <3> QED
      BY <1>2, <1>10, <1>12, <3>5 DEF L!ListingInv, L!TimeInv
  <2> QED
    BY <2>6, <2>7
<1> QED
  BY <1>13, <1>14

\* The keys of a page are handed out behind what the client already got.
Handed(h, g, p) ==
  /\ DOMAIN h = 1..Len(h)
  /\ \A k : (\E i \in DOMAIN h : h[i] = k) <=>
              (\E i \in DOMAIN g : g[i] = k) \/ (\E i \in DOMAIN p : p[i].pk = k)
  /\ \A i, j \in DOMAIN h : i < j =>
       \/ i \in DOMAIN g /\ j \in DOMAIN g /\ h[i] = g[i] /\ h[j] = g[j]
       \/ i \in DOMAIN g /\ h[i] = g[i] /\ \E b \in DOMAIN p : h[j] = p[b].pk
       \/ \E a, b \in DOMAIN p : a < b /\ h[i] = p[a].pk /\ h[j] = p[b].pk

LEMMA HandedOut ==
  ASSUME NEW n \in Nat, NEW g \in Seq(1..n), NEW p \in Seq(L!Row(n))
  PROVE  g \o L!PageKeys(p) \in Seq(1..n) /\ Handed(g \o L!PageKeys(p), g, p)
<1>0. PICK h : h = g \o L!PageKeys(p)
  OBVIOUS
<1> DEFINE q == L!PageKeys(p)
<1>1. /\ DOMAIN p = 1..Len(p) /\ Len(p) \in Nat /\ \A i \in DOMAIN p : p[i] \in L!Row(n)
      /\ DOMAIN g = 1..Len(g) /\ Len(g) \in Nat /\ \A i \in DOMAIN g : g[i] \in 1..n
  BY SeqFields
<1>2. \A r \in L!Row(n) : r.pk \in 1..n
  BY DEF L!Row
<1>3. q \in Seq(1..n) /\ Len(q) = Len(p) /\ \A i \in 1..Len(p) : q[i] = p[i].pk
  <2>1. q = [i \in 1..Len(p) |-> p[i].pk]
    BY <1>1 DEF L!PageKeys
  <2>2. \A i \in 1..Len(p) : p[i].pk \in 1..n
    BY <1>1, <1>2
  <2> HIDE DEF q
  <2> QED
    BY <1>1, <2>1, <2>2
<1> HIDE DEF q
<1>4. /\ h \in Seq(1..n) /\ DOMAIN h = 1..Len(h) /\ Len(h) = Len(g) + Len(p)
      /\ \A i \in 1..Len(g) : h[i] = g[i]
      /\ \A i \in 1..(Len(g) + Len(p)) : i > Len(g) => h[i] = q[i - Len(g)]
  <2>1. h = g \o q
    BY <1>0 DEF q
  <2>2. h \in Seq(1..n) /\ Len(h) = Len(g) + Len(p)
    BY <1>1, <1>3, <2>1
  <2>3. DOMAIN h = 1..Len(h)
    BY <2>2, SeqFields
  <2>4. \A i \in 1..(Len(g) + Len(p)) : h[i] = IF i <= Len(g) THEN g[i] ELSE q[i - Len(g)]
    BY <1>1, <1>3, <2>1
  <2> QED
    BY <1>1, <2>2, <2>3, <2>4
<1>5. ASSUME NEW i \in DOMAIN h, i \notin DOMAIN g
      PROVE  i - Len(g) \in DOMAIN p /\ h[i] = p[i - Len(g)].pk
  <2>1. i \in 1..(Len(g) + Len(p)) /\ i > Len(g)
    BY <1>1, <1>4, <1>5
  <2>2. i - Len(g) \in 1..Len(p)
    BY <1>1, <2>1
  <2> QED
    BY <1>1, <1>3, <1>4, <2>1, <2>2
<1>6. \A i \in DOMAIN g : i \in DOMAIN h /\ h[i] = g[i]
  BY <1>1, <1>4
<1>7. ASSUME NEW i \in DOMAIN p PROVE i + Len(g) \in DOMAIN h /\ h[i + Len(g)] = p[i].pk
  <2>1. i + Len(g) \in 1..(Len(g) + Len(p)) /\ i + Len(g) > Len(g) /\ (i + Len(g)) - Len(g) = i
    BY <1>1
  <2> QED
    BY <1>1, <1>3, <1>4, <2>1
<1>8. ASSUME NEW k
      PROVE  (\E i \in DOMAIN h : h[i] = k) <=>
               (\E i \in DOMAIN g : g[i] = k) \/ (\E i \in DOMAIN p : p[i].pk = k)
  BY <1>5, <1>6, <1>7
<1>9. ASSUME NEW i \in DOMAIN h, NEW j \in DOMAIN h, i < j
      PROVE  \/ i \in DOMAIN g /\ j \in DOMAIN g /\ h[i] = g[i] /\ h[j] = g[j]
             \/ i \in DOMAIN g /\ h[i] = g[i] /\ \E b \in DOMAIN p : h[j] = p[b].pk
             \/ \E a, b \in DOMAIN p : a < b /\ h[i] = p[a].pk /\ h[j] = p[b].pk
  <2>1. CASE j \in DOMAIN g
    <3>1. i \in DOMAIN g
      BY <1>1, <1>4, <1>9, <2>1
    <3> QED
      BY <1>6, <2>1, <3>1
  <2>2. CASE j \notin DOMAIN g /\ i \in DOMAIN g
    BY <1>5, <1>6, <2>2
  <2>3. CASE j \notin DOMAIN g /\ i \notin DOMAIN g
    <3>1. i - Len(g) < j - Len(g)
      BY <1>1, <1>4, <1>9
    <3> QED
      BY <1>5, <2>3, <3>1
  <2> QED
    BY <2>1, <2>2, <2>3
<1>10. Handed(h, g, p)
  BY <1>4, <1>8, <1>9 DEF Handed
<1> QED
  BY <1>0, <1>4, <1>10

\* The greatest key of the table.
LEMMA GreatestKey ==
  ASSUME L!TypeOK, rows # {}
  PROVE  \A r \in rows : r.pk <= L!Max({q.pk : q \in rows})
<1> DEFINE S == {q.pk : q \in rows}
<1>1. made \in Nat /\ S \subseteq 1..made /\ S # {}
  BY DEF L!TypeOK, L!Row
<1> HIDE DEF S
<1>2. {made - k : k \in S} \in SUBSET Nat /\ {made - k : k \in S} # {}
  <2>1. \A k \in S : made - k \in Nat
    BY <1>1
  <2> QED
    BY <1>1, <2>1
<1>3. PICK x \in {made - k : k \in S} : \A y \in {made - k : k \in S} : x <= y
  BY <1>2, LeastOfSet
<1>4. PICK k \in S : x = made - k
  BY <1>3
<1>5. \A l \in S : k >= l
  <2>1. \A l \in S : made - k <= made - l
    BY <1>3, <1>4
  <2> QED
    BY <1>1, <2>1
<1>6. \A l \in S : L!Max(S) >= l
  BY <1>4, <1>5 DEF L!Max
<1>7. L!Max(S) \in S
  BY <1>4, <1>5 DEF L!Max
<1>8. \A l \in S : l <= L!Max(S)
  BY <1>1, <1>6, <1>7
<1> QED
  BY <1>8 DEF S

\* The page is handed out, and the table asked for its last key: only when that is
\* the last of the page is the client told that there is nothing more.
LEMMA ListingIsLast ==
  ASSUME L!ListingInv, client # L!Idle, kind \notin L!TimeKinds, NEW k, L!IsLastPk(k)
  PROVE  L!ListingInv'
<1> DEFINE g == client.got
           p == client.page
           m == p[Len(p)].pk
           z == client.marker.sealed
<1>0. /\ L!TypeOK /\ L!RightsInv /\ L!PkInv /\ client.pc = "last"
      /\ UNCHANGED <<kind, rows, granted, made, now, kept>>
  BY DEF L!ListingInv, L!IsLastPk
<1>a. PICK fails \in BOOLEAN :
        client' = [client EXCEPT
            !.got = @ \o L!PageKeys(client.page), !.page = <<>>,
            !.marker = L!EncryptPk(L!Last(client.page).pk),
            !.pc = IF L!Truncated(fails) THEN "query" ELSE "done"]
  BY DEF L!IsLastPk
<1>1. /\ made \in Nat /\ client \in L!ClientType /\ g \in Seq(1..made) /\ p \in Seq(L!Row(made))
      /\ client.marker \in [sealed : Nat] /\ z \in Nat
  BY <1>0, ClientFields DEF L!PkInv
<1>2. /\ p # <<>>
      /\ client.ordered =>
           /\ ~ L!Joined => L!Rising(g) /\ L!Rising(L!PageKeys(p))
           /\ \A i \in DOMAIN g : g[i] <= z
           /\ \A i \in DOMAIN p : p[i].pk > z /\ p[i].pk <= L!Last(p).pk
           /\ \A r \in rows : L!Waits(r) /\ r.pk <= L!Last(p).pk => L!Got(r.pk) \/ L!OnPage(r.pk)
  BY <1>0 DEF L!PkInv
<1>3. PICK h : h = g \o L!PageKeys(p)
  OBVIOUS
<1>4. /\ client'.got = h /\ client'.page = <<>> /\ client'.marker = [sealed |-> L!Last(p).pk]
      /\ client'.pc = (IF L!Truncated(fails) THEN "query" ELSE "done")
      /\ client'.caller = client.caller /\ client'.users = client.users
      /\ client'.tags = client.tags /\ client'.ordered = client.ordered
  BY <1>a, <1>1, <1>3 DEF L!ClientType, L!EncryptPk
<1>5. h \in Seq(1..made) /\ Handed(h, g, p)
  <2>1. made \in Nat /\ g \in Seq(1..made) /\ p \in Seq(L!Row(made))
    BY <1>1
  <2> HIDE DEF g, p
  <2> QED
    BY <1>3, <2>1, HandedOut
<1>6. /\ DOMAIN p = 1..Len(p) /\ Len(p) \in DOMAIN p /\ m \in 1..made /\ L!Last(p).pk = m
      /\ \A i \in DOMAIN p : p[i].pk \in Nat
  <2>1. DOMAIN p = 1..Len(p) /\ Len(p) \in Nat /\ \A i \in DOMAIN p : p[i].pk \in 1..made
    BY <1>0, ClientKeys
  <2>2. Len(p) \in DOMAIN p
    BY <1>1, <1>2, <2>1
  <2>3. \A i \in DOMAIN p : p[i].pk \in Nat
    BY <1>1, <2>1
  <2> QED
    BY <2>1, <2>2, <2>3 DEF L!Last
<1>7. \A i \in DOMAIN g : g[i] \in Nat
  BY <1>0, ClientKeys
<1> HIDE DEF g, p, m, z
<1>8. ASSUME NEW r \in rows
      PROVE  /\ L!Got(r.pk)' <=> L!Got(r.pk) \/ L!OnPage(r.pk)
             /\ ~ L!OnPage(r.pk)'
             /\ L!MaySee(r)' <=> L!MaySee(r)
             /\ L!Waits(r)' <=> L!Waits(r)
             /\ r.pk \in Nat
  <2>1. L!Got(r.pk)' <=> L!Got(r.pk) \/ L!OnPage(r.pk)
    <3>1. (\E i \in DOMAIN h : h[i] = r.pk) <=>
            (\E i \in DOMAIN g : g[i] = r.pk) \/ (\E i \in DOMAIN p : p[i].pk = r.pk)
      BY <1>5 DEF Handed
    <3>2. L!Got(r.pk)' <=> \E i \in DOMAIN h : h[i] = r.pk
      BY <1>4 DEF L!Got
    <3> QED
      BY <3>1, <3>2 DEF L!Got, L!OnPage, g, p
  <2>2. ~ L!OnPage(r.pk)'
    BY <1>4 DEF L!OnPage
  <2>3. r.pk \in Nat
    BY <1>0 DEF L!TypeOK, L!Row
  <2> QED
    BY <1>0, <1>4, <2>1, <2>2, <2>3, SameRights DEF L!Waits
<1>9. L!TypeOK'
  <2>1. client' \in L!ClientType
    <3>1. <<>> \in Seq(L!Row(made)) /\ [sealed |-> L!Last(p).pk] \in [sealed : Nat]
      BY <1>1, <1>6
    <3> DEFINE t == L!Truncated(fails)
    <3>2. client' = [client EXCEPT !.got = h, !.page = <<>>, !.marker = [sealed |-> L!Last(p).pk],
                                   !.pc = IF t THEN "query" ELSE "done"]
      BY <1>a, <1>3 DEF g, p, L!EncryptPk
    <3> HIDE DEF t
    <3> QED
      BY <1>1, <1>5, <3>1, <3>2 DEF L!ClientType
  <2> QED
    BY <1>0, <1>4, <2>1, ClientTypes
<1>10. L!RightsInv'
  BY <1>0, <1>8 DEF L!RightsInv
<1>11. client'.marker.sealed = m /\ client'.marker \in [sealed : Nat] /\ client'.pc # "last"
  BY <1>1, <1>4, <1>6
<1>12. CASE ~ client.ordered
  <2>1. L!PkInv'
    BY <1>4, <1>11, <1>12 DEF L!PkInv
  <2> QED
    BY <1>0, <1>9, <1>10, <2>1 DEF L!ListingInv, L!TimeInv
<1>13. CASE client.ordered
  <2>1. z < m /\ z \in Nat /\ m \in Nat /\ \A i \in DOMAIN p : p[i].pk <= m
    BY <1>1, <1>2, <1>6, <1>13 DEF m
  <2>2. ASSUME ~ L!Joined PROVE L!Rising(h)
    <3> SUFFICES ASSUME NEW i \in DOMAIN h, NEW j \in DOMAIN h, i < j PROVE h[i] < h[j]
      BY DEF L!Rising
    <3>1. CASE i \in DOMAIN g /\ j \in DOMAIN g /\ h[i] = g[i] /\ h[j] = g[j]
      BY <1>2, <1>13, <2>2, <3>1 DEF L!Rising
    <3>2. CASE i \in DOMAIN g /\ h[i] = g[i] /\ \E b \in DOMAIN p : h[j] = p[b].pk
      BY <1>2, <1>6, <1>7, <1>13, <2>1, <3>2
    <3>3. CASE \E a, b \in DOMAIN p : a < b /\ h[i] = p[a].pk /\ h[j] = p[b].pk
      <4>1. \A a, b \in DOMAIN p : a < b => p[a].pk < p[b].pk
        BY <1>2, <1>13, <2>2 DEF L!Rising, L!PageKeys
      <4> QED
        BY <3>3, <4>1
    <3> QED
      BY <1>5, <3>1, <3>2, <3>3 DEF Handed
  <2>3. \A i \in DOMAIN h : h[i] <= m
    <3> SUFFICES ASSUME NEW i \in DOMAIN h PROVE h[i] <= m
      OBVIOUS
    <3>1. CASE \E a \in DOMAIN g : g[a] = h[i]
      BY <1>2, <1>7, <1>13, <2>1, <3>1
    <3>2. CASE \E a \in DOMAIN p : p[a].pk = h[i]
      BY <2>1, <3>2
    <3> QED
      BY <1>5, <3>1, <3>2 DEF Handed
  <2>4. \A r \in rows' : L!Waits(r)' /\ r.pk <= m => L!Got(r.pk)'
    BY <1>0, <1>2, <1>6, <1>8, <1>13
  <2>5. ASSUME client'.pc = "done", NEW r \in rows PROVE r.pk <= m
    <3>1. ~ L!Truncated(fails)
      BY <1>4, <2>5
    <3>2. L!GetLast(fails) = m
      BY <1>6, <3>1 DEF L!Truncated, p
    <3>3. rows # {} /\ m = L!Max({q.pk : q \in rows})
      BY <1>6, <3>2 DEF L!GetLast
    <3> QED
      BY <1>0, <3>3, GreatestKey
  <2>6. client'.pc = "done" => \A r \in rows' : L!Waits(r)' => L!Got(r.pk)'
    BY <1>0, <2>4, <2>5
  <2>7. L!Joined' <=> L!Joined
    BY <1>0, <1>4 DEF L!Joined
  <2>8. L!Rising(L!PageKeys(<<>>))
    BY DEF L!Rising, L!PageKeys
  <2>9. ~ L!Joined' => L!Rising(client'.got) /\ L!Rising(L!PageKeys(client'.page))
    BY <1>4, <2>2, <2>7, <2>8
  <2>10. \A i \in DOMAIN client'.got : client'.got[i] <= client'.marker.sealed
    BY <1>4, <1>11, <2>3
  <2>11. \A r \in rows' : L!Waits(r)' /\ r.pk <= client'.marker.sealed => L!Got(r.pk)'
    BY <1>11, <2>4
  <2>12. L!PkInv'
    BY <1>11, <2>6, <2>9, <2>10, <2>11 DEF L!PkInv, L!Rising, L!PageKeys
  <2> QED
    BY <1>0, <1>9, <1>10, <2>12 DEF L!ListingInv, L!TimeInv
<1> QED
  BY <1>1, <1>12, <1>13

\* The row over the page is cut off; the next page starts with its second.
LEMMA ListingTimed == ASSUME L!ListingInv, client # L!Idle, L!QueryTimed PROVE L!ListingInv'
<1>0. /\ L!TypeOK /\ L!RightsInv /\ L!TimeInv /\ client.pc = "query" /\ kind \in L!TimeKinds
      /\ UNCHANGED <<kind, rows, granted, made, now, kept>>
  BY DEF L!ListingInv, L!QueryTimed
<1>1. PICK s \in L!Answers(L!ModelList, client.limit + 1) :
        /\ L!NewestFirst(L!RowsIn(s), L!RowsOf(L!ModelList))
        /\ client' = IF Len(L!RowsIn(s)) > client.limit
                     THEN [client EXCEPT !.got = @ \o L!PageKeys(L!Front(L!RowsIn(s))),
                             !.marker = [time |-> L!Second(L!Last(L!RowsIn(s)).time)],
                             !.cuts = @ \cup {L!TimeMarker, L!Second(L!Last(L!RowsIn(s)).time)}]
                     ELSE [client EXCEPT !.got = @ \o L!PageKeys(L!RowsIn(s)), !.pc = "done",
                             !.cuts = @ \cup {L!TimeMarker}]
  BY DEF L!QueryTimed
<1>2. PICK p : p = L!RowsIn(s)
  OBVIOUS
<1>3. PICK f : f = IF Len(p) > client.limit THEN L!Front(p) ELSE p
  OBVIOUS
<1>4. PICK from : from = L!TimeMarker
  OBVIOUS
<1>5. PICK cut : cut = L!Second(L!Last(p).time)
  OBVIOUS
<1> DEFINE g == client.got
           full == Len(p) > client.limit
<1>6. /\ client \in L!ClientType /\ client.limit \in Nat /\ made \in Nat /\ now \in Nat /\ g \in Seq(1..made)
      /\ client.cuts \subseteq Nat
      /\ client.marker = L!NoMarker => g = <<>>
      /\ client.marker # L!NoMarker =>
           /\ client.marker \in [time : Nat]
           /\ \A r \in rows : L!Got(r.pk) => r.time > client.marker.time
           /\ \A r \in rows : L!Waits(r) /\ r.time > client.marker.time => L!Got(r.pk) \/ L!Blurred(r)
      /\ L!IsInjective(g) /\ client.page = <<>>
  BY <1>0, ClientFields DEF L!TimeInv, L!TypeOK
<1>8. from \in Nat /\ (client.marker = L!NoMarker => from = L!Second(now))
                   /\ (client.marker # L!NoMarker => from = client.marker.time)
  <2>1. L!Second(now) \in Nat
    BY <1>6, Seconds
  <2> QED
    BY <1>4, <1>6, <2>1 DEF L!TimeMarker
<1>9. /\ p \in Seq(rows) /\ Len(p) <= client.limit + 1
      /\ \A i \in 1..Len(p) : L!MaySee(p[i]) /\ p[i].time <= from
      /\ \A i, j \in 1..Len(p) : i < j => p[i].time > p[j].time
      /\ \A r \in rows : L!Wanted(r) /\ r.time <= from =>
           \/ \E i \in 1..Len(p) : p[i] = r
           \/ Len(p) = client.limit + 1 /\ r.time < p[Len(p)].time
  BY <1>0, <1>1, <1>2, <1>4, TimeQuery
<1>10. DOMAIN p = 1..Len(p) /\ Len(p) \in Nat /\ \A i \in 1..Len(p) : p[i] \in rows
  BY <1>9, SeqFields
<1>11. /\ f \in Seq(rows) /\ \A i \in DOMAIN f : i \in 1..Len(p) /\ f[i] = p[i]
       /\ \A i \in 1..Len(p) : i \in DOMAIN f \/ (full /\ i = Len(p))
       /\ full => \A i \in DOMAIN f : i < Len(p)
  <2>1. CASE full
    <3>1. f = SubSeq(p, 1, Len(p) - 1) /\ Len(p) - 1 \in Nat
      BY <1>3, <1>6, <1>10, <2>1 DEF L!Front
    <3>2. f \in Seq(rows) /\ Len(f) = Len(p) - 1 /\ \A i \in 1..(Len(p) - 1) : f[i] = p[i]
      BY <1>9, <1>10, <3>1
    <3>3. DOMAIN f = 1..(Len(p) - 1)
      BY <3>2, SeqFields
    <3>4. /\ \A i \in 1..(Len(p) - 1) : i \in 1..Len(p) /\ i < Len(p)
          /\ \A i \in 1..Len(p) : i \in 1..(Len(p) - 1) \/ i = Len(p)
      <4>1. Len(p) \in Nat
        BY <1>10
      <4> QED
        BY <4>1
    <3> QED
      BY <2>1, <3>2, <3>3, <3>4
  <2>2. CASE ~ full
    BY <1>3, <1>9, <1>10, <2>2
  <2> QED
    BY <2>1, <2>2
<1>12. PICK h : h = g \o L!PageKeys(f)
  OBVIOUS
<1>13. /\ rows \subseteq L!Row(made) /\ f \in Seq(L!Row(made))
       /\ \A r \in rows : r.pk \in Nat /\ r.time \in Nat /\ r.time <= now
       /\ \A r, q \in rows : r.pk = q.pk => r = q
  <2>1. rows \subseteq L!Row(made)
    BY <1>0 DEF L!TypeOK
  <2>2. f \in Seq(L!Row(made))
    BY <1>11, <2>1
  <2>3. \A r \in rows : r.pk \in Nat
    BY <1>6, <2>1 DEF L!Row
  <2> QED
    BY <1>0, <2>1, <2>2, <2>3 DEF L!Row, L!TypeOK
<1>14. h \in Seq(1..made) /\ Handed(h, g, f)
  <2> HIDE DEF g
  <2> QED
    BY <1>6, <1>12, <1>13, HandedOut
<1>15. full => /\ Len(p) \in 1..Len(p) /\ L!Last(p) = p[Len(p)] /\ p[Len(p)] \in rows
               /\ cut \in Nat /\ cut <= p[Len(p)].time /\ cut = L!Second(p[Len(p)].time)
  <2> SUFFICES ASSUME full
               PROVE  /\ Len(p) \in 1..Len(p) /\ L!Last(p) = p[Len(p)] /\ p[Len(p)] \in rows
                      /\ cut \in Nat /\ cut <= p[Len(p)].time /\ cut = L!Second(p[Len(p)].time)
    OBVIOUS
  <2>1. Len(p) \in 1..Len(p) /\ L!Last(p) = p[Len(p)]
    BY <1>6, <1>10 DEF L!Last
  <2>2. p[Len(p)] \in rows /\ p[Len(p)].time \in Nat
    BY <1>10, <1>13, <2>1
  <2>3. L!Second(p[Len(p)].time) \in Nat /\ L!Second(p[Len(p)].time) <= p[Len(p)].time
    BY <2>2, Seconds
  <2> QED
    BY <1>5, <2>1, <2>2, <2>3
<1>16. client' = IF full
                 THEN [client EXCEPT !.got = h, !.marker = [time |-> cut], !.cuts = client.cuts \cup {from, cut}]
                 ELSE [client EXCEPT !.got = h, !.pc = "done", !.cuts = client.cuts \cup {from}]
  BY <1>1, <1>2, <1>3, <1>4, <1>5, <1>12
<1>17. /\ client'.got = h /\ client'.page = <<>> /\ client'.caller = client.caller
       /\ client'.users = client.users /\ client'.tags = client.tags
       /\ client'.pc = (IF full THEN "query" ELSE "done")
       /\ full => client'.marker = [time |-> cut] /\ cut \in client'.cuts
       /\ client.cuts \subseteq client'.cuts /\ from \in client'.cuts
       /\ client' \in L!ClientType
  <2>1. CASE full
    <3>1. /\ client' = [client EXCEPT !.got = h, !.marker = [time |-> cut],
                                      !.cuts = client.cuts \cup {from, cut}]
          /\ [time |-> cut] \in [time : Nat] /\ client.cuts \cup {from, cut} \subseteq Nat
      BY <1>6, <1>8, <1>15, <1>16, <2>1
    <3> HIDE DEF full, g
    <3> QED
      BY <1>0, <1>6, <1>14, <2>1, <3>1 DEF L!ClientType
  <2>2. CASE ~ full
    <3>1. /\ client' = [client EXCEPT !.got = h, !.pc = "done", !.cuts = client.cuts \cup {from}]
          /\ client.cuts \cup {from} \subseteq Nat
      BY <1>6, <1>8, <1>16, <2>2
    <3> HIDE DEF full, g
    <3> QED
      BY <1>0, <1>6, <1>14, <2>2, <3>1 DEF L!ClientType
  <2> QED
    BY <2>1, <2>2
<1>18. L!TypeOK'
  BY <1>0, <1>17, ClientTypes
<1>19. ASSUME NEW r \in rows
       PROVE  /\ L!Got(r.pk)' <=> L!Got(r.pk) \/ \E i \in DOMAIN f : f[i] = r
              /\ ~ L!OnPage(r.pk)'
              /\ L!MaySee(r)' <=> L!MaySee(r)
              /\ L!Waits(r)' <=> L!Waits(r)
              /\ L!Waits(r) => L!Wanted(r)
              /\ L!Blurred(r) \/ L!Second(r.time) = from => L!Blurred(r)'
              /\ full /\ L!Second(r.time) = cut => L!Blurred(r)'
  <2>1. (\E i \in DOMAIN h : h[i] = r.pk) <=>
          (\E i \in DOMAIN g : g[i] = r.pk) \/ (\E i \in DOMAIN f : f[i].pk = r.pk)
    BY <1>14 DEF Handed
  <2>2. L!Got(r.pk)' <=> \E i \in DOMAIN h : h[i] = r.pk
    BY <1>17 DEF L!Got
  <2>3. \A i \in DOMAIN f : f[i].pk = r.pk => f[i] = r
    BY <1>10, <1>11, <1>13
  <2>4. ~ L!OnPage(r.pk)'
    BY <1>17 DEF L!OnPage
  <2>5. /\ L!Blurred(r) \/ L!Second(r.time) = from => L!Blurred(r)'
        /\ full /\ L!Second(r.time) = cut => L!Blurred(r)'
    BY <1>0, <1>17 DEF L!Blurred, L!Second
  <2> QED
    BY <1>0, <1>17, <2>1, <2>2, <2>3, <2>4, <2>5, SameRights DEF L!Got, L!Waits
<1> HIDE DEF full
<1>20. L!RightsInv'
  <2>1. ASSUME NEW r \in rows, L!Got(r.pk)' \/ L!OnPage(r.pk)' PROVE L!MaySee(r)'
    <3>1. L!Got(r.pk) => L!MaySee(r)
      BY <1>0 DEF L!RightsInv
    <3> QED
      BY <1>9, <1>11, <1>19, <2>1, <3>1
  <2> QED
    BY <1>0, <2>1 DEF L!RightsInv
\* What was handed out before is newer than the page, and whatever is newer was.
<1>21. ASSUME NEW r \in rows, L!Got(r.pk) PROVE r.time > from
  BY <1>6, <1>8, <1>21 DEF L!Got
<1>22. ASSUME NEW r \in rows, L!Waits(r), r.time > from PROVE L!Got(r.pk) \/ L!Blurred(r)'
  <2>1. CASE client.marker = L!NoMarker
    <3>1. L!Second(r.time) = L!Second(now)
      <4>1. r.time \in Nat /\ r.time <= now /\ now \in Nat /\ ~ (r.time < L!Second(now))
        BY <1>6, <1>8, <1>13, <1>22, <2>1
      <4> QED
        BY <4>1, Seconds
    <3> QED
      BY <1>8, <1>19, <2>1, <3>1
  <2>2. CASE client.marker # L!NoMarker
    BY <1>6, <1>8, <1>19, <1>22, <2>2
  <2> QED
    BY <2>1, <2>2
<1>23. ASSUME NEW r \in rows, L!Waits(r)
       PROVE  \/ L!Got(r.pk) \/ L!Blurred(r)'
              \/ \E i \in 1..Len(p) : p[i] = r
              \/ Len(p) = client.limit + 1 /\ r.time < p[Len(p)].time
  <2>1. CASE r.time <= from
    BY <1>9, <1>19, <1>23, <2>1
  <2>2. CASE ~ (r.time <= from)
    <3>1. r.time > from
      BY <1>8, <1>13, <2>2
    <3> QED
      BY <1>22, <1>23, <3>1
  <2> QED
    BY <2>1, <2>2
<1>24. L!IsInjective(h)
  <2> SUFFICES ASSUME NEW i \in DOMAIN h, NEW j \in DOMAIN h, i < j PROVE h[i] # h[j]
    <3>1. DOMAIN h = 1..Len(h) /\ Len(h) \in Nat
      BY <1>14, SeqFields
    <3>2. \A i, j \in DOMAIN h : i # j => i < j \/ j < i
      BY <3>1
    <3> QED
      BY <3>2 DEF L!IsInjective
  <2>1. CASE i \in DOMAIN g /\ j \in DOMAIN g /\ h[i] = g[i] /\ h[j] = g[j]
    <3>1. i # j
      <4>1. i \in Nat /\ j \in Nat
        <5>1. DOMAIN h = 1..Len(h) /\ Len(h) \in Nat
          BY <1>14, SeqFields
        <5> QED
          BY <5>1
      <4> QED
        BY <4>1
    <3>2. L!IsInjective(g)
      BY <1>6
    <3> HIDE DEF g
    <3> QED
      BY <2>1, <3>1, <3>2 DEF L!IsInjective
  <2>2. CASE i \in DOMAIN g /\ h[i] = g[i] /\ \E b \in DOMAIN f : h[j] = f[b].pk
    <3>1. PICK b \in DOMAIN f : h[j] = f[b].pk
      BY <2>2
    <3>2. f[b] \in rows /\ f[b].time <= from /\ f[b].time \in Nat
      BY <1>9, <1>10, <1>11, <1>13
    <3>3. ~ L!Got(f[b].pk)
      BY <1>8, <1>21, <3>2
    <3> QED
      BY <2>2, <3>1, <3>3 DEF L!Got
  <2>3. CASE \E a, b \in DOMAIN f : a < b /\ h[i] = f[a].pk /\ h[j] = f[b].pk
    <3>1. PICK a \in DOMAIN f, b \in DOMAIN f : a < b /\ h[i] = f[a].pk /\ h[j] = f[b].pk
      BY <2>3
    <3>2. f[a] \in rows /\ f[b] \in rows /\ f[a].time > f[b].time
      BY <1>9, <1>10, <1>11, <3>1
    <3>3. f[a] # f[b]
      BY <1>13, <3>2
    <3> QED
      BY <1>13, <3>1, <3>2, <3>3
  <2> QED
    BY <1>14, <2>1, <2>2, <2>3 DEF Handed
<1>25. CASE full
  <2>1. /\ client'.pc = "query" /\ client'.marker \in [time : Nat]
        /\ client'.marker.time = cut /\ cut \in Nat
    BY <1>15, <1>17, <1>25
  <2>2. client'.marker # L!NoMarker
    BY <2>1 DEF L!NoMarker
  <2>3. cut <= p[Len(p)].time /\ p[Len(p)].time \in Nat /\ p[Len(p)].time <= from
    BY <1>9, <1>13, <1>15, <1>25
  <2>4. ASSUME NEW r \in rows, L!Got(r.pk)' PROVE r.time > cut
    <3>1. r.time \in Nat
      BY <1>13
    <3>2. CASE L!Got(r.pk)
      BY <1>8, <1>21, <2>1, <2>3, <3>1, <3>2
    <3>3. CASE \E i \in DOMAIN f : f[i] = r
      <4>1. PICK i \in DOMAIN f : f[i] = r
        BY <3>3
      <4>2. i \in 1..Len(p) /\ i < Len(p) /\ p[i] = r
        BY <1>11, <1>25, <4>1
      <4>3. p[i].time > p[Len(p)].time
        BY <1>9, <1>15, <1>25, <4>2
      <4> QED
        BY <2>1, <2>3, <3>1, <4>2, <4>3
    <3> QED
      BY <1>19, <2>4, <3>2, <3>3
  <2>5. ASSUME NEW r \in rows, L!Waits(r), r.time > cut PROVE L!Got(r.pk)' \/ L!Blurred(r)'
    <3>1. r.time \in Nat
      BY <1>13
    <3>2. CASE L!Got(r.pk) \/ L!Blurred(r)'
      BY <1>19, <3>2
    <3>3. CASE \E i \in DOMAIN f : f[i] = r
      BY <1>19, <3>3
    <3>4. CASE r.time <= p[Len(p)].time
      <4>1. ~ (r.time < L!Second(p[Len(p)].time))
        BY <1>15, <1>25, <2>1, <2>5, <3>1
      <4>2. L!Second(r.time) = L!Second(p[Len(p)].time)
        BY <2>3, <3>1, <3>4, <4>1, Seconds
      <4>3. L!Second(r.time) = cut
        BY <1>15, <1>25, <4>2
      <4> QED
        BY <1>19, <1>25, <4>3
    <3>5. p[Len(p)] = r => r.time <= p[Len(p)].time
      BY <3>1
    <3>6. r.time < p[Len(p)].time => r.time <= p[Len(p)].time
      BY <2>3, <3>1
    <3> QED
      BY <1>11, <1>23, <2>5, <3>2, <3>3, <3>4, <3>5, <3>6
  <2>6. /\ \A r \in rows' : L!Got(r.pk)' => r.time > client'.marker.time
        /\ \A r \in rows' : L!Waits(r)' /\ r.time > client'.marker.time => L!Got(r.pk)' \/ L!Blurred(r)'
    BY <1>0, <1>19, <2>1, <2>4, <2>5
  <2>7. L!IsInjective(client'.got)
    BY <1>17, <1>24
  <2>8. L!TimeInv'
    BY <1>17, <2>1, <2>2, <2>6, <2>7 DEF L!TimeInv
  <2> QED
    BY <1>0, <1>18, <1>20, <2>8 DEF L!ListingInv, L!PkInv
<1>26. CASE ~ full
  <2>1. Len(p) # client.limit + 1
    BY <1>6, <1>10, <1>26 DEF full
  <2>2. \A r \in rows : L!Waits(r) => L!Got(r.pk)' \/ L!Blurred(r)'
    BY <1>11, <1>19, <1>23, <1>26, <2>1
  <2>3. client'.pc = "done"
    BY <1>17, <1>26
  <2>4. L!TimeInv'
    BY <1>0, <1>17, <1>19, <1>24, <2>2, <2>3 DEF L!TimeInv
  <2> QED
    BY <1>0, <1>18, <1>20, <2>4 DEF L!ListingInv, L!PkInv
<1> QED
  BY <1>25, <1>26

LEMMA ListingNext == ASSUME L!ListingInv, L!Next PROVE L!ListingInv'
<1>1. CASE L!Others
  BY <1>1, ListingInsert, ListingDelete, ListingTick, ListingGrant, ListingRevoke DEF L!Others
<1>2. CASE L!Routers
  <2>1. L!Ask(L!Callers, L!Positive) \/ L!Ask({Root}, Limits) \/ L!Ask(L!Callers, Limits)
    BY <1>2 DEF L!Routers, L!RouterListRun, L!RouterListPipeline, L!RouterListRunCache,
                L!RouterListArtifactEvent, L!RouterListCluster, L!RouterListQueue, L!RouterListUser,
                L!RouterListGrant, L!RouterListFs, L!RouterGetLink
  <2>2. {Root} \subseteq L!Callers /\ L!Positive \subseteq Limits
    BY DEF L!Callers, L!Positive
  <2> QED
    BY <2>1, <2>2, ListingAsk
<1>3. CASE L!Handlers
  <2>1. PICK k \in L!Kinds \ L!TimeKinds :
          \/ L!QueryRows(k) \/ L!QueryFails(k, L!Refused) \/ L!QueryFails(k, L!EmptyPage) \/ L!IsLastPk(k)
    BY <1>3 DEF L!Kinds, L!OwnKinds, L!RootKinds, L!TimeKinds, L!Handlers,
                L!HandleListRun, L!HandleListPipeline, L!HandleListRunCache, L!HandleListArtifactEvent,
                L!HandleListCluster, L!HandleListUser, L!HandleListGrant, L!HandleListQueue,
                L!IsLastRunPk, L!IsLastPipelinePk, L!IsLastRunCachePk, L!IsLastArtifactEventPk,
                L!IsLastClusterPk, L!IsLastUserPk, L!IsLastGrantPk, L!IsLastQueuePk
  <2>2. client # L!Idle /\ kind \notin L!TimeKinds
    <3>1. client.pc \in {"query", "last"} /\ kind = k
      BY <2>1 DEF L!QueryRows, L!QueryFails, L!IsLastPk
    <3> QED
      BY <2>1, <3>1 DEF L!Idle
  <2>3. CASE L!QueryRows(k)
    BY <2>2, <2>3, ListingQuery
  <2>4. CASE L!QueryFails(k, L!Refused)
    BY <2>4, ListingIdle DEF L!QueryFails, L!Refused
  <2>5. CASE L!QueryFails(k, L!EmptyPage)
    BY <2>2, <2>5, ListingLies DEF L!QueryFails
  <2>6. CASE L!IsLastPk(k)
    BY <2>2, <2>6, ListingIsLast
  <2> QED
    BY <2>1, <2>3, <2>4, <2>5, <2>6
<1>4. CASE L!HandleListFs
  <2>1. CASE L!QueryTimed
    <3>1. client # L!Idle
      <4>1. client.pc = "query"
        BY <2>1 DEF L!QueryTimed
      <4> QED
        BY <4>1 DEF L!Idle
    <3> QED
      BY <2>1, <3>1, ListingTimed
  <2>2. CASE L!QueryFails("fs", L!Refused) \/ L!QueryFails("link", L!Refused)
    BY <2>2, ListingIdle DEF L!QueryFails, L!Refused
  <2> QED
    BY <1>4, <2>1, <2>2 DEF L!HandleListFs
<1>5. CASE L!Restart
  BY <1>5, ListingIdle DEF L!Restart
<1> QED
  BY <1>1, <1>2, <1>3, <1>4, <1>5 DEF L!Next

LEMMA ListingIsRight == ASSUME L!ListingInv PROVE L!PagesAreRight
<1> SUFFICES ASSUME client # L!Idle PROVE L!PagesAreRight
  BY DEF L!PagesAreRight, L!PagesAreComplete, L!PagesAreExact, L!Idle
<1>1. L!TypeOK /\ L!RightsInv /\ L!PkInv /\ L!TimeInv
  BY DEF L!ListingInv
<1>2. /\ DOMAIN client.got = 1..Len(client.got) /\ Len(client.got) \in Nat
      /\ \A i \in DOMAIN client.got : client.got[i] \in Nat
  <2>1. made \in Nat
    BY <1>1 DEF L!TypeOK
  <2> QED
    BY <1>1, <2>1, ClientKeys
<1>3. \A r \in rows : L!Contains(client.got, r.pk) <=> L!Got(r.pk)
  BY <1>2 DEF L!Contains, L!Got
<1>4. L!PagesAreComplete
  <2> SUFFICES ASSUME client.pc = "done", ~ client.lied, client.ordered,
                      NEW r \in rows, r.pk \in kept, L!Wanted(r), ~ L!Blurred(r)
               PROVE  L!Got(r.pk)
    BY <1>3 DEF L!PagesAreComplete
  <2>1. L!Waits(r)
    BY DEF L!Waits
  <2>2. CASE kind \notin L!TimeKinds
    BY <1>1, <2>1, <2>2 DEF L!PkInv
  <2>3. CASE kind \in L!TimeKinds
    BY <1>1, <2>1, <2>3 DEF L!TimeInv
  <2> QED
    BY <2>2, <2>3
<1>5. client.ordered /\ ~ L!Joined => L!IsInjective(client.got)
  <2> SUFFICES ASSUME client.ordered, ~ L!Joined PROVE L!IsInjective(client.got)
    OBVIOUS
  <2>1. CASE kind \notin L!TimeKinds
    <3> SUFFICES ASSUME NEW i \in DOMAIN client.got, NEW j \in DOMAIN client.got, i # j
                 PROVE  client.got[i] # client.got[j]
      BY DEF L!IsInjective
    <3>1. i < j \/ j < i
      BY <1>2
    <3>2. L!Rising(client.got)
      BY <1>1, <2>1 DEF L!PkInv
    <3> QED
      BY <1>2, <3>1, <3>2 DEF L!Rising
  <2>2. CASE kind \in L!TimeKinds
    BY <1>1, <2>2 DEF L!TimeInv
  <2> QED
    BY <2>1, <2>2
<1>6. L!PagesAreExact
  BY <1>1, <1>3, <1>5 DEF L!PagesAreExact, L!RightsInv
<1> QED
  BY <1>4, <1>6 DEF L!PagesAreRight

\* A client that follows its markers to the end has got every row that stayed, and
\* stayed granted to it, each row once, and none that it may not see, however many
\* rows come and go between its pages: as long as the database happens to answer in
\* the order of the keys, which the queries do not ask for. A failed query costs it
\* rows only where a handler answers an empty page for it; the join with the grants
\* repeats a queue; a row made in the second of a time marker may be left out
\* (ListRun(), ListQueue(), IsLastRunPk(), ListFileSystem()).
THEOREM PagesStayRight == Spec => []PagesAreRight
<1> DEFINE Inv == which = "listing" => L!ListingInv
<1>1. Init => Inv
  BY ListingInit DEF Init
<1>2. Inv /\ [Next]_all => Inv'
  <2> SUFFICES ASSUME Inv, [Next]_all PROVE Inv'
    OBVIOUS
  <2>1. CASE UNCHANGED all
    <3>1. UNCHANGED which /\ UNCHANGED <<kind, rows, granted, made, now, client, kept>>
      BY <2>1 DEF all
    <3>2. ASSUME L!ListingInv PROVE L!ListingInv'
      <4>1. L!TypeOK'
        BY <3>1, <3>2 DEF L!ListingInv, L!TypeOK, L!ClientType, L!Entitled, L!GrantsOf
      <4> QED
        BY <3>1, <3>2, <4>1, OtherRows DEF L!ListingInv
    <3> QED
      BY <2>1, <3>1, <3>2
  <2>2. CASE which = "listing" /\ L!Next /\ UNCHANGED which
    BY <2>2, ListingNext
  <2>3. CASE which # "listing" /\ UNCHANGED which
    BY <2>3
  <2> QED
    BY <2>1, <2>2, <2>3 DEF Next
<1>3. Inv => PagesAreRight
  BY ListingIsRight DEF PagesAreRight
<1> QED
  BY <1>1, <1>2, <1>3, PTL DEF Spec
=============================================================================
