---------------------------- MODULE MountsProofs ----------------------------
(***************************************************************************)
(* Proofs about the CSI plugin and the S3 back end, as components of the   *)
(* mounts of MCMounts: no mount is left for a pod that is gone, and what   *)
(* was uploaded stays under its name.                                      *)
(***************************************************************************)
EXTENDS MCMounts, Sequences, TLAPS

-----------------------------------------------------------------------------
(* The S3 back end: the operators the requests are built from *)

LEMMA PutFacts ==
  ASSUME NEW k, NEW c, S!Put(k, c)
  PROVE  /\ DOMAIN objects' = DOMAIN objects \cup {k} /\ objects'[k] = c
         /\ \A j \in DOMAIN objects : j # k => objects'[j] = objects[j]
BY DEF S!Put, S!With

LEMMA RemoveFacts ==
  ASSUME NEW k, S!Remove(k)
  PROVE  /\ DOMAIN objects' = DOMAIN objects \ {k}
         /\ \A j \in DOMAIN objects : j # k => objects'[j] = objects[j]
BY DEF S!Remove, S!Restrict

LEMMA OweFacts ==
  ASSUME NEW p, NEW c, S!Owe(p, c)
  PROVE  /\ DOMAIN owed' = DOMAIN owed \cup {p} /\ owed'[p] = c
         /\ \A q \in DOMAIN owed : q # p => owed'[q] = owed[q]
BY DEF S!Owe, S!With

LEMMA DisownFacts ==
  ASSUME NEW ps, S!Disown(ps)
  PROVE  DOMAIN owed' = DOMAIN owed \ ps /\ \A q \in DOMAIN owed \ ps : owed'[q] = owed[q]
BY DEF S!Disown, S!Restrict

\* The key of a file is its own, and no directory's.
LEMMA Keys ==
  \A p, q : S!File(p) # S!Dir(q) /\ (S!File(p) = S!File(q) => p = q)
<1> SUFFICES ASSUME NEW p, NEW q PROVE S!File(p) # S!Dir(q) /\ (S!File(p) = S!File(q) => p = q)
  OBVIOUS
<1>1. S!File(p).dir = FALSE /\ S!Dir(q).dir = TRUE /\ S!File(p).path = p /\ S!File(q).path = q
  BY DEF S!File, S!Dir
<1>. QED
  BY <1>1

\* Requests of each kind have their fields.
LEMMA ThreadFields ==
  ASSUME S!TypeOK, NEW t \in Threads
  PROVE  /\ thread[t] = S!Idle <=> thread[t].op = "idle"
         /\ thread[t].op \in {"create", "open", "truncate", "unlink", "again", "rename"} =>
              thread[t].path \in S!FilePaths
         /\ thread[t].op \in {"mkdir", "rmdir"} => thread[t].path \in S!DirPaths
         /\ thread[t].op = "rename" => thread[t].to \in S!FilePaths /\ thread[t].path # thread[t].to
<1>1. thread[t] \in S!Requests
  BY DEF S!TypeOK
<1>2. CASE thread[t] = S!Idle
  BY <1>2 DEF S!Idle
<1>3. CASE thread[t] # S!Idle
  BY <1>1, <1>3 DEF S!Requests, S!Idle
<1>. QED
  BY <1>2, <1>3

LEMMA GotoFields ==
  ASSUME S!TypeOK, NEW t \in Threads, NEW at, S!Goto(t, at), thread[t] # S!Idle
  PROVE  /\ thread'[t] = [thread[t] EXCEPT !.at = at]
         /\ thread'[t].op = thread[t].op /\ thread'[t].path = thread[t].path
         /\ thread'[t].at = at
         /\ thread[t].op = "rename" => thread'[t].to = thread[t].to
         /\ S!Uses(thread'[t]) = S!Uses(thread[t])
         /\ \A o \in Threads \ {t} : thread'[o] = thread[o]
<1>1. thread \in [Threads -> S!Requests] /\ thread'[t] = [thread[t] EXCEPT !.at = at]
  BY DEF S!TypeOK, S!Goto
<1>2. /\ thread'[t].op = thread[t].op /\ thread'[t].path = thread[t].path
      /\ thread'[t].at = at
      /\ thread[t].op = "rename" => thread'[t].to = thread[t].to
  BY <1>1 DEF S!Requests
<1>3. S!Uses(thread'[t]) = S!Uses(thread[t])
  BY <1>2 DEF S!Uses
<1>. QED
  BY <1>1, <1>2, <1>3 DEF S!Goto

LEMMA StopFields ==
  ASSUME S!TypeOK, NEW t \in Threads, S!Stop(t)
  PROVE  /\ thread'[t] = S!Idle /\ S!Uses(thread'[t]) = {} /\ thread'[t].op = "idle"
         /\ \A o \in Threads \ {t} : thread'[o] = thread[o]
BY DEF S!TypeOK, S!Stop, S!Uses, S!Idle

-----------------------------------------------------------------------------
(* Who uses a name *)

\* Ending an operation or closing a file brings nobody together.
LEMMA ApartShrinks ==
  ASSUME S!Apart, mixed \subseteq mixed',
         \A o \in Threads : S!Uses(thread'[o]) \in {{}, S!Uses(thread[o])},
         \A u \in DOMAIN handles' : u \in DOMAIN handles /\ handles'[u].path = handles[u].path
  PROVE  S!Apart'
BY DEF S!Apart

\* An operation that leaves its name to the file it opens.
LEMMA ApartOpens ==
  ASSUME S!Apart, NEW t \in Threads, UNCHANGED mixed, S!Uses(thread'[t]) = {},
         \A o \in Threads \ {t} : thread'[o] = thread[o], NEW p, S!Uses(thread[t]) = {p},
         DOMAIN handles' = DOMAIN handles \cup {t}, handles'[t].path = p,
         \A u \in DOMAIN handles : u # t => handles'[u].path = handles[u].path
  PROVE  S!Apart'
<1>1. ASSUME NEW o \in Threads, NEW u \in DOMAIN handles', handles'[u].path \in S!Uses(thread'[o])
      PROVE  S!Uses(thread'[o]) \subseteq mixed'
  <2>1. o # t
    BY <1>1
  <2>2. CASE u = t
    BY <1>1, <2>1, <2>2 DEF S!Apart
  <2>3. CASE u # t
    BY <1>1, <2>1, <2>3 DEF S!Apart
  <2>. QED
    BY <2>2, <2>3
<1>2. ASSUME NEW u \in DOMAIN handles', NEW v \in DOMAIN handles', u # v,
             handles'[u].path = handles'[v].path
      PROVE  handles'[u].path \in mixed'
  <2>1. CASE u # t /\ v # t
    BY <1>2, <2>1 DEF S!Apart
  <2>2. \A w \in DOMAIN handles \ {t} : handles[w].path = p => p \in mixed
    BY DEF S!Apart
  <2>. QED
    BY <1>2, <2>1, <2>2
<1>3. \A o, u \in Threads : o # u /\ S!Uses(thread'[o]) \cap S!Uses(thread'[u]) # {} =>
        S!Uses(thread'[o]) \subseteq mixed'
  BY DEF S!Apart
<1>. QED
  BY <1>1, <1>2, <1>3 DEF S!Apart

LEMMA ApartStarts ==
  ASSUME S!TypeOK, S!Apart, NEW t \in Threads, NEW r, S!Start(t, r), UNCHANGED handles
  PROVE  S!Apart'
<1> DEFINE M == S!Overlap(S!Uses(r))
<1>1. /\ mixed \subseteq mixed'
      /\ M # {} => S!Uses(r) \subseteq mixed' /\ M \subseteq mixed'
      /\ thread'[t] = r /\ \A o \in Threads \ {t} : thread'[o] = thread[o]
  BY DEF S!Start, S!TypeOK
<1>2. \A o \in Threads : S!Uses(thread[o]) \cap S!Uses(r) # {} => S!Uses(thread[o]) \subseteq M
  BY DEF S!Overlap
<1>3. \A u \in DOMAIN handles : handles[u].path \in S!Uses(r) => handles[u].path \in M
  BY DEF S!Overlap
<1> HIDE DEF M
<1>4. \A o \in Threads : S!Uses(thread[o]) \cap S!Uses(r) # {} =>
        S!Uses(thread[o]) \subseteq mixed' /\ S!Uses(r) \subseteq mixed'
  BY <1>1, <1>2
<1>5. \A u \in DOMAIN handles : handles[u].path \in S!Uses(r) => S!Uses(r) \subseteq mixed'
  BY <1>1, <1>3
<1>6. ASSUME NEW o \in Threads, NEW u \in Threads, o # u,
             S!Uses(thread'[o]) \cap S!Uses(thread'[u]) # {}
      PROVE  S!Uses(thread'[o]) \subseteq mixed'
  <2>1. CASE o = t
    BY <1>1, <1>4, <1>6, <2>1
  <2>2. CASE u = t
    BY <1>1, <1>4, <1>6, <2>2
  <2>3. CASE o # t /\ u # t
    BY <1>1, <1>6, <2>3 DEF S!Apart
  <2>. QED
    BY <2>1, <2>2, <2>3
<1>7. ASSUME NEW o \in Threads, NEW u \in DOMAIN handles', handles'[u].path \in S!Uses(thread'[o])
      PROVE  S!Uses(thread'[o]) \subseteq mixed'
  <2>1. CASE o = t
    BY <1>1, <1>5, <1>7, <2>1
  <2>2. CASE o # t
    BY <1>1, <1>7, <2>2 DEF S!Apart
  <2>. QED
    BY <2>1, <2>2
<1>8. \A u, v \in DOMAIN handles' : u # v /\ handles'[u].path = handles'[v].path =>
        handles'[u].path \in mixed'
  BY <1>1 DEF S!Apart
<1>. QED
  BY <1>6, <1>7, <1>8 DEF S!Apart

-----------------------------------------------------------------------------
(* What one operation does to its own files *)

\* A step of t that only touches the files of X, which nobody else uses alone.
LEMMA FilesKept ==
  ASSUME S!TypeOK, S!Copied, S!UploadedIsKept, NEW t \in Threads, NEW X,
         \A o \in Threads \ {t} :
           /\ thread'[o] = thread[o]
           /\ S!Uses(thread[o]) \cap X # {} => S!Uses(thread[o]) \subseteq mixed,
         \A x : x \notin X =>
           /\ S!Has(S!File(x))' <=> S!Has(S!File(x))
           /\ S!Has(S!File(x)) => objects'[S!File(x)] = objects[S!File(x)],
         \A x \in DOMAIN owed' : x \notin X => x \in DOMAIN owed /\ owed'[x] = owed[x],
         mixed \subseteq mixed',
         \A x \in X : x \in DOMAIN owed' \ mixed' =>
           S!Has(S!File(x))' /\ objects'[S!File(x)] = owed'[x],
         S!At(t, "rename", "delete")' /\ S!Uses(thread'[t]) \cap mixed' = {} =>
           /\ S!Has(S!File(S!P(t)))' /\ S!Has(S!File(thread[t].to))'
           /\ objects'[S!File(thread'[t].to)] = objects'[S!File(thread'[t].path)]
  PROVE  S!Copied' /\ S!UploadedIsKept'
<1>1. S!UploadedIsKept'
  BY DEF S!UploadedIsKept
<1>2. ASSUME NEW o \in Threads, o # t, S!At(o, "rename", "delete")',
             S!Uses(thread'[o]) \cap mixed' = {}
      PROVE  /\ S!Has(S!File(S!P(o)))' /\ S!Has(S!File(thread[o].to))'
             /\ objects'[S!File(thread'[o].to)] = objects'[S!File(thread'[o].path)]
  <2>1. PICK p, q : p = thread[o].path /\ q = thread[o].to
    OBVIOUS
  <2>2. /\ thread'[o] = thread[o] /\ S!Uses(thread[o]) = {p, q}
        /\ S!At(o, "rename", "delete") /\ S!Uses(thread[o]) \cap mixed = {}
    BY <1>2, <2>1 DEF S!At, S!Uses
  <2>3. /\ S!Has(S!File(p)) /\ S!Has(S!File(q))
        /\ objects[S!File(q)] = objects[S!File(p)]
    BY <2>1, <2>2 DEF S!Copied, S!P
  <2>4. p \notin X /\ q \notin X
    BY <1>2, <2>2
  <2>5. S!Has(S!File(p))' /\ S!Has(S!File(q))' /\ objects'[S!File(q)] = objects'[S!File(p)]
    BY <2>3, <2>4
  <2>. QED
    BY <2>1, <2>2, <2>5 DEF S!P
<1>. QED
  BY <1>1, <1>2 DEF S!Copied, S!P

-----------------------------------------------------------------------------
(* Types of the S3 back end *)

LEMMA MoveType ==
  ASSUME S!TypeOK, NEW t \in Threads
  PROVE  /\ S!Stop(t) => thread' \in [Threads -> S!Requests]
         /\ \A at \in {"act", "delete"} :
              S!Goto(t, at) /\ thread[t] # S!Idle => thread' \in [Threads -> S!Requests]
<1>1. thread \in [Threads -> S!Requests] /\ S!Idle \in S!Requests
  BY DEF S!TypeOK, S!Requests
<1>2. ASSUME NEW at \in {"act", "delete"}, S!Goto(t, at), thread[t] # S!Idle
      PROVE  thread' \in [Threads -> S!Requests]
  <2>1. [thread[t] EXCEPT !.at = at] \in S!Requests
    BY <1>1, <1>2 DEF S!Requests
  <2>. QED
    BY <1>1, <1>2, <2>1 DEF S!Goto
<1>. QED
  BY <1>1, <1>2 DEF S!Stop

LEMMA BeginType ==
  ASSUME S!TypeOK, NEW t \in Threads, S!Begin(t) PROVE S!TypeOK'
<1>1. PICK r \in S!Requests : S!Start(t, r)
  <2>1. ASSUME NEW p \in S!DirPaths, NEW o \in {"mkdir", "rmdir"}
        PROVE  [op |-> o, path |-> p, at |-> "look"] \in S!Requests
    BY DEF S!Requests
  <2>2. ASSUME NEW p \in S!FilePaths, NEW o \in {"create", "open", "truncate", "unlink"}
        PROVE  [op |-> o, path |-> p,
                at |-> IF o \in {"truncate", "unlink"} THEN "delete" ELSE "look"] \in S!Requests
    BY DEF S!Requests
  <2>3. ASSUME NEW p \in S!FilePaths, NEW q \in S!FilePaths, p # q
        PROVE  [op |-> "rename", path |-> p, to |-> q, at |-> "look"] \in S!Requests
    BY <2>3 DEF S!Requests
  <2>. QED
    BY <2>1, <2>2, <2>3 DEF S!Begin
<1>. QED
  BY <1>1 DEF S!TypeOK, S!Start, S!Begin

\* What one step of an operation does to its thread and to mixed.
LEMMA ThreadSteps ==
  ASSUME S!TypeOK, NEW t \in Threads,
         \/ S!RequestFails(t)
         \/ S!MkdirLook(t) \/ S!MkdirPut(t) \/ S!RmdirList(t) \/ S!RmdirDelete(t)
         \/ S!RenameLook(t) \/ S!RenameCopy(t) \/ S!RenameDelete(t) \/ S!UnlinkDelete(t)
         \/ S!TruncateExists(t) \/ S!TruncatePut(t)
         \/ S!CreateLook(t) \/ S!CreatePut(t) \/ S!OpenLook(t) \/ S!OpenGet(t)
  PROVE  /\ thread[t] # S!Idle /\ mixed \subseteq mixed'
         /\ S!Stop(t) \/ \E at \in {"act", "delete"} : S!Goto(t, at)
<1>1. thread[t] # S!Idle <=> thread[t].op # "idle"
  BY ThreadFields
<1> USE DEF S!At, S!Fail, S!Still
<1>2. CASE S!MkdirLook(t) \/ S!RenameLook(t) \/ S!OpenLook(t) \/ S!CreateLook(t)
  BY <1>1, <1>2 DEF S!MkdirLook, S!RenameLook, S!OpenLook, S!CreateLook, S!Look
<1>3. CASE S!RequestFails(t) \/ S!MkdirPut(t) \/ S!RmdirList(t) \/ S!RmdirDelete(t) \/ S!UnlinkDelete(t)
  BY <1>1, <1>3 DEF S!RequestFails, S!MkdirPut, S!RmdirList, S!RmdirDelete, S!UnlinkDelete
<1>4. CASE S!RenameCopy(t) \/ S!RenameDelete(t) \/ S!TruncateExists(t) \/ S!TruncatePut(t)
  BY <1>1, <1>4 DEF S!RenameCopy, S!RenameDelete, S!TruncateExists, S!TruncatePut
<1>5. CASE S!CreatePut(t) \/ S!OpenGet(t)
  BY <1>1, <1>5 DEF S!CreatePut, S!OpenGet
<1>. QED
  BY <1>2, <1>3, <1>4, <1>5

\* What the steps do to the open files and to the names of what is owed.
LEMMA FileNames ==
  ASSUME S!TypeOK, NEW t \in Threads,
         \/ S!RequestFails(t) \/ S!Write(t) \/ S!Release(t)
         \/ S!MkdirLook(t) \/ S!MkdirPut(t) \/ S!RmdirList(t) \/ S!RmdirDelete(t)
         \/ S!RenameLook(t) \/ S!RenameCopy(t) \/ S!RenameDelete(t) \/ S!UnlinkDelete(t)
         \/ S!TruncateDelete(t) \/ S!TruncateExists(t) \/ S!TruncatePut(t)
         \/ S!CreateLook(t) \/ S!CreatePut(t) \/ S!OpenLook(t) \/ S!OpenGet(t)
  PROVE  /\ DOMAIN handles' \subseteq Threads /\ DOMAIN owed' \subseteq S!FilePaths
         /\ \A u \in DOMAIN handles' : handles'[u].path \in S!FilePaths
<1>1. /\ DOMAIN handles \subseteq Threads /\ DOMAIN owed \subseteq S!FilePaths
      /\ \A u \in DOMAIN handles : handles[u].path \in S!FilePaths
  BY DEF S!TypeOK
<1> USE DEF S!At, S!Still
<1>2. CASE \/ S!MkdirLook(t) \/ S!RenameLook(t) \/ S!OpenLook(t) \/ S!CreateLook(t)
           \/ S!RequestFails(t) \/ S!MkdirPut(t) \/ S!RmdirList(t) \/ S!TruncateExists(t)
  BY <1>1, <1>2 DEF S!MkdirLook, S!RenameLook, S!OpenLook, S!CreateLook, S!Look,
     S!RequestFails, S!MkdirPut, S!RmdirList, S!TruncateExists
<1>3. CASE S!RmdirDelete(t) \/ S!UnlinkDelete(t) \/ S!TruncateDelete(t) \/ S!RenameCopy(t)
  <2>1. UNCHANGED handles /\ DOMAIN owed' \subseteq DOMAIN owed
    BY <1>3, DisownFacts DEF S!RmdirDelete, S!UnlinkDelete, S!TruncateDelete, S!RenameCopy
  <2>. QED
    BY <1>1, <2>1
<1>4. CASE S!RenameDelete(t)
  <2>1. UNCHANGED handles /\ DOMAIN owed' \subseteq DOMAIN owed \cup {thread[t].to}
    BY <1>4 DEF S!RenameDelete, S!With, S!Restrict
  <2>. QED
    BY <1>1, <1>4, <2>1, ThreadFields DEF S!RenameDelete
<1>5. CASE S!TruncatePut(t)
  <2>1. UNCHANGED handles /\ S!P(t) \in S!FilePaths
    BY <1>5, ThreadFields DEF S!TruncatePut, S!P
  <2>2. DOMAIN owed' = DOMAIN owed \cup {S!P(t)}
    BY <1>5, OweFacts DEF S!TruncatePut
  <2>. QED
    BY <1>1, <2>1, <2>2
<1>6. CASE S!CreatePut(t) \/ S!OpenGet(t)
  <2>1. S!P(t) \in S!FilePaths
    BY <1>6, ThreadFields DEF S!CreatePut, S!OpenGet, S!P
  <2>2. /\ DOMAIN owed' \subseteq DOMAIN owed \cup {S!P(t)}
        /\ \/ UNCHANGED handles
           \/ \E h : h.path = S!P(t) /\ handles' = S!With(handles, t, h)
    <3>1. CASE S!CreatePut(t)
      BY <3>1, OweFacts DEF S!CreatePut
    <3>2. CASE S!OpenGet(t)
      BY <3>2 DEF S!OpenGet
    <3>. QED
      BY <1>6, <3>1, <3>2
  <2>. QED
    BY <1>1, <2>1, <2>2 DEF S!With
<1>7. CASE S!Write(t)
  BY <1>1, <1>7 DEF S!Write
<1>8. CASE S!Release(t)
  <2>1. /\ t \in DOMAIN handles /\ DOMAIN handles' \subseteq DOMAIN handles
        /\ \A u \in DOMAIN handles' : handles'[u] = handles[u]
    BY <1>8 DEF S!Release, S!Restrict
  <2>2. DOMAIN owed' \subseteq DOMAIN owed \cup {handles[t].path}
    BY <1>8, OweFacts DEF S!Release
  <2>. QED
    BY <1>1, <2>1, <2>2
<1>. QED
  BY <1>2, <1>3, <1>4, <1>5, <1>6, <1>7, <1>8

LEMMA StoreTypes == ASSUME S!TypeOK, S!Next PROVE S!TypeOK'
<1>1. ASSUME NEW t \in Threads,
             \/ S!RequestFails(t)
             \/ S!MkdirLook(t) \/ S!MkdirPut(t) \/ S!RmdirList(t) \/ S!RmdirDelete(t)
             \/ S!RenameLook(t) \/ S!RenameCopy(t) \/ S!RenameDelete(t) \/ S!UnlinkDelete(t)
             \/ S!TruncateExists(t) \/ S!TruncatePut(t)
             \/ S!CreateLook(t) \/ S!CreatePut(t) \/ S!OpenLook(t) \/ S!OpenGet(t)
      PROVE  S!TypeOK'
  BY <1>1, ThreadSteps, MoveType, FileNames DEF S!TypeOK
<1>2. ASSUME NEW t \in Threads, S!TruncateDelete(t) PROVE S!TypeOK'
  <2>1. [op |-> "again", path |-> thread[t].path, at |-> "exists"] \in S!Requests
    BY <1>2, ThreadFields DEF S!TruncateDelete, S!At, S!Requests
  <2>2. thread' = [thread EXCEPT ![t] = [op |-> "again", path |-> thread[t].path, at |-> "exists"]]
    BY <1>2 DEF S!TruncateDelete, S!TypeOK
  <2>. QED
    BY <1>2, <2>1, <2>2, FileNames DEF S!TypeOK
<1>3. ASSUME NEW t \in Threads, S!Write(t) \/ S!Release(t) PROVE S!TypeOK'
  <2>1. UNCHANGED thread
    BY <1>3 DEF S!Write, S!Release
  <2>. QED
    BY <1>3, <2>1, FileNames DEF S!TypeOK
<1>4. CASE S!Die
  BY <1>4 DEF S!Die, S!TypeOK, S!Requests
<1>. QED
  BY <1>1, <1>2, <1>3, <1>4, BeginType DEF S!Next

-----------------------------------------------------------------------------
(* The S3 back end: those who share a name stay known *)

LEMMA MoveUses ==
  ASSUME S!TypeOK, NEW t \in Threads, thread[t] # S!Idle,
         S!Stop(t) \/ \E at \in {"act", "delete"} : S!Goto(t, at)
  PROVE  \A o \in Threads : S!Uses(thread'[o]) \in {{}, S!Uses(thread[o])}
BY GotoFields, StopFields

LEMMA StoreApart == ASSUME S!TypeOK, S!Apart, S!Next PROVE S!Apart'
<1>1. ASSUME NEW t \in Threads, S!Begin(t) PROVE S!Apart'
  <2>1. PICK r : S!Start(t, r)
    BY <1>1 DEF S!Begin
  <2>2. UNCHANGED handles
    BY <1>1 DEF S!Begin
  <2>. QED
    BY <2>1, <2>2, ApartStarts
<1>2. ASSUME NEW t \in Threads,
             \/ S!RequestFails(t)
             \/ S!MkdirLook(t) \/ S!MkdirPut(t) \/ S!RmdirList(t) \/ S!RmdirDelete(t)
             \/ S!RenameLook(t) \/ S!RenameCopy(t) \/ S!RenameDelete(t) \/ S!UnlinkDelete(t)
             \/ S!TruncateExists(t) \/ S!TruncatePut(t)
             \/ S!CreateLook(t) \/ S!OpenLook(t)
      PROVE  S!Apart'
  <2>1. UNCHANGED handles
    BY <1>2 DEF S!RequestFails, S!MkdirLook, S!MkdirPut, S!RmdirList, S!RmdirDelete,
       S!RenameLook, S!RenameCopy, S!RenameDelete, S!UnlinkDelete, S!TruncateExists,
       S!TruncatePut, S!CreateLook, S!OpenLook, S!Look
  <2>2. mixed \subseteq mixed' /\ \A o \in Threads : S!Uses(thread'[o]) \in {{}, S!Uses(thread[o])}
    BY <1>2, ThreadSteps, MoveUses
  <2>. QED
    BY <2>1, <2>2, ApartShrinks
<1>3. ASSUME NEW t \in Threads, S!CreatePut(t) \/ S!OpenGet(t) PROVE S!Apart'
  <2>1. PICK p : p = S!P(t)
    OBVIOUS
  <2>2. S!Uses(thread[t]) = {p} /\ UNCHANGED mixed /\ S!Stop(t)
    BY <1>3, <2>1 DEF S!CreatePut, S!OpenGet, S!At, S!Uses, S!P, S!Still
  <2>3. S!Uses(thread'[t]) = {} /\ \A o \in Threads \ {t} : thread'[o] = thread[o]
    BY <2>2, StopFields
  <2>4. UNCHANGED handles \/ \E h : h.path = p /\ handles' = S!With(handles, t, h)
    BY <1>3, <2>1 DEF S!CreatePut, S!OpenGet
  <2>5. CASE UNCHANGED handles
    BY <2>2, <2>3, <2>5, ApartShrinks
  <2>6. CASE ~ UNCHANGED handles
    <3>1. /\ DOMAIN handles' = DOMAIN handles \cup {t} /\ handles'[t].path = p
          /\ \A u \in DOMAIN handles : u # t => handles'[u].path = handles[u].path
      BY <2>4, <2>6 DEF S!With
    <3>. QED
      BY <2>2, <2>3, <3>1, ApartOpens
  <2>. QED
    BY <2>5, <2>6
<1>4. ASSUME NEW t \in Threads, S!TruncateDelete(t) PROVE S!Apart'
  <2>1. UNCHANGED <<handles, mixed>> /\ S!At(t, "truncate", "delete")
        /\ thread' = [thread EXCEPT ![t] = [op |-> "again", path |-> thread[t].path, at |-> "exists"]]
    BY <1>4 DEF S!TruncateDelete, S!TypeOK, S!Still
  <2>2. \A o \in Threads : S!Uses(thread'[o]) = S!Uses(thread[o])
    BY <2>1 DEF S!TypeOK, S!Uses, S!At
  <2>. QED
    BY <2>1, <2>2, ApartShrinks
<1>5. ASSUME NEW t \in Threads, S!Write(t) \/ S!Release(t) PROVE S!Apart'
  <2>1. UNCHANGED <<thread, mixed>>
    BY <1>5 DEF S!Write, S!Release
  <2>2. \A u \in DOMAIN handles' : u \in DOMAIN handles /\ handles'[u].path = handles[u].path
    <3>1. CASE S!Write(t)
      BY <3>1 DEF S!Write
    <3>2. CASE S!Release(t)
      BY <3>2 DEF S!Release, S!Restrict
    <3>. QED
      BY <1>5, <3>1, <3>2
  <2>. QED
    BY <2>1, <2>2, ApartShrinks
<1>6. CASE S!Die
  BY <1>6, ApartShrinks DEF S!Die, S!Uses, S!Idle
<1>. QED
  BY <1>1, <1>2, <1>3, <1>4, <1>5, <1>6 DEF S!Next

-----------------------------------------------------------------------------
(* The S3 back end: what was uploaded is kept *)

\* The files that a request leaves alone.
SameFile(x) ==
  /\ S!Has(S!File(x))' <=> S!Has(S!File(x))
  /\ S!Has(S!File(x)) => objects'[S!File(x)] = objects[S!File(x)]

LEMMA FilePut ==
  ASSUME NEW p, NEW c, S!Put(S!File(p), c)
  PROVE  /\ \A x : x # p => SameFile(x)
         /\ S!Has(S!File(p))' /\ objects'[S!File(p)] = c
<1>1. /\ DOMAIN objects' = DOMAIN objects \cup {S!File(p)} /\ objects'[S!File(p)] = c
      /\ \A j \in DOMAIN objects : j # S!File(p) => objects'[j] = objects[j]
  BY PutFacts
<1>2. \A x : x # p => S!File(x) # S!File(p)
  BY Keys
<1>. QED
  BY <1>1, <1>2 DEF SameFile, S!Has

LEMMA FileRemove ==
  ASSUME NEW p, S!Remove(S!File(p)) PROVE \A x : x # p => SameFile(x)
<1>1. /\ DOMAIN objects' = DOMAIN objects \ {S!File(p)}
      /\ \A j \in DOMAIN objects : j # S!File(p) => objects'[j] = objects[j]
  BY RemoveFacts
<1>2. \A x : x # p => S!File(x) # S!File(p)
  BY Keys
<1>. QED
  BY <1>1, <1>2 DEF SameFile, S!Has

LEMMA DirChange ==
  ASSUME NEW d, S!Put(S!Dir(d), 0) \/ S!Remove(S!Dir(d)) PROVE \A x : SameFile(x)
<1>1. /\ DOMAIN objects' \in {DOMAIN objects \cup {S!Dir(d)}, DOMAIN objects \ {S!Dir(d)}}
      /\ \A j \in DOMAIN objects : j # S!Dir(d) => objects'[j] = objects[j]
  BY PutFacts, RemoveFacts
<1>2. \A x : S!File(x) # S!Dir(d)
  BY Keys
<1>. QED
  BY <1>1, <1>2 DEF SameFile, S!Has

\* A step that touches no file.
LEMMA NoFileTouched ==
  ASSUME S!TypeOK, S!Copied, S!UploadedIsKept, NEW t \in Threads,
         \A o \in Threads \ {t} : thread'[o] = thread[o],
         \A x : SameFile(x),
         \A x \in DOMAIN owed' : x \in DOMAIN owed /\ owed'[x] = owed[x],
         mixed \subseteq mixed', ~ S!At(t, "rename", "delete")'
  PROVE  S!Copied' /\ S!UploadedIsKept'
<1>1. PICK X : X = {}
  OBVIOUS
<1>. QED
  BY <1>1, FilesKept DEF SameFile

\* A step of an operation of t alone touches only names others know to be shared.
LEMMA OwnNames ==
  ASSUME S!Apart, NEW t \in Threads, NEW X, X \subseteq S!Uses(thread[t])
  PROVE  \A o \in Threads \ {t} : S!Uses(thread[o]) \cap X # {} => S!Uses(thread[o]) \subseteq mixed
BY DEF S!Apart

LEMMA QuietSteps ==
  ASSUME S!TypeOK, S!Copied, S!UploadedIsKept, NEW t \in Threads,
         \/ S!RequestFails(t) \/ S!OpenGet(t)
         \/ S!MkdirLook(t) \/ S!MkdirPut(t) \/ S!RmdirList(t) \/ S!RmdirDelete(t)
         \/ S!RenameLook(t) \/ S!TruncateExists(t) \/ S!CreateLook(t) \/ S!OpenLook(t)
  PROVE  S!Copied' /\ S!UploadedIsKept'
<1>1. thread[t] # S!Idle /\ mixed \subseteq mixed'
      /\ (S!Stop(t) \/ \E at \in {"act", "delete"} : S!Goto(t, at))
  BY ThreadSteps
<1>2. \A o \in Threads \ {t} : thread'[o] = thread[o]
  BY <1>1, GotoFields, StopFields
<1>3. \A x : SameFile(x)
  <2>1. CASE UNCHANGED objects
    BY <2>1 DEF SameFile, S!Has
  <2>2. CASE S!MkdirPut(t) \/ S!RmdirDelete(t)
    <3>1. S!Put(S!Dir(S!P(t)), 0) \/ S!Remove(S!Dir(S!P(t)))
      BY <2>2 DEF S!MkdirPut, S!RmdirDelete
    <3>. QED
      BY <3>1, DirChange
  <2>. QED
    BY <2>1, <2>2 DEF S!RequestFails, S!OpenGet, S!MkdirLook, S!RmdirList, S!RenameLook,
       S!TruncateExists, S!CreateLook, S!OpenLook, S!Look
<1>4. \A x \in DOMAIN owed' : x \in DOMAIN owed /\ owed'[x] = owed[x]
  <2>1. UNCHANGED owed \/ S!Disown({S!P(t)})
    BY DEF S!RequestFails, S!OpenGet, S!MkdirLook, S!RmdirList, S!RenameLook, S!MkdirPut,
       S!RmdirDelete, S!TruncateExists, S!CreateLook, S!OpenLook, S!Look
  <2>. QED
    BY <2>1, DisownFacts
<1>5. ~ S!At(t, "rename", "delete")'
  <2>1. S!Stop(t) \/ S!Goto(t, "act") \/ (S!Goto(t, "delete") /\ thread[t].op # "rename")
    BY DEF S!RequestFails, S!OpenGet, S!MkdirLook, S!RmdirList, S!RenameLook, S!MkdirPut,
       S!RmdirDelete, S!TruncateExists, S!CreateLook, S!OpenLook, S!Look, S!Fail, S!At
  <2>2. S!Stop(t) => thread'[t].op = "idle"
    BY StopFields
  <2>3. /\ S!Goto(t, "act") => thread'[t].at = "act"
        /\ S!Goto(t, "delete") => thread'[t].op = thread[t].op
    BY <1>1, GotoFields
  <2>. QED
    BY <2>1, <2>2, <2>3 DEF S!At
<1>. QED
  BY <1>1, <1>2, <1>3, <1>4, <1>5, NoFileTouched

\* An upload, or a file made empty: what is put is what is owed.
LEMMA UploadSteps ==
  ASSUME S!TypeOK, S!Copied, S!UploadedIsKept, NEW t \in Threads, NEW p, NEW c,
         S!Put(S!File(p), c), S!Owe(p, c), UNCHANGED mixed, ~ S!At(t, "rename", "delete")',
         \A o \in Threads \ {t} :
           /\ thread'[o] = thread[o]
           /\ S!Uses(thread[o]) \cap {p} # {} => S!Uses(thread[o]) \subseteq mixed
  PROVE  S!Copied' /\ S!UploadedIsKept'
<1>1. PICK X : X = {p}
  OBVIOUS
<1>2. /\ \A x : x # p => SameFile(x)
      /\ S!Has(S!File(p))' /\ objects'[S!File(p)] = c
  BY FilePut
<1>3. owed'[p] = c /\ \A x \in DOMAIN owed' : x # p => x \in DOMAIN owed /\ owed'[x] = owed[x]
  <2>1. /\ DOMAIN owed' = DOMAIN owed \cup {p} /\ owed'[p] = c
        /\ \A q \in DOMAIN owed : q # p => owed'[q] = owed[q]
    BY OweFacts
  <2>. QED
    BY <2>1
<1>. QED
  BY <1>1, <1>2, <1>3, FilesKept DEF SameFile

\* A deletion of a name that nothing is owed on afterwards.
LEMMA DeleteSteps ==
  ASSUME S!TypeOK, S!Apart, S!Copied, S!UploadedIsKept, NEW t \in Threads,
         S!UnlinkDelete(t) \/ S!TruncateDelete(t)
  PROVE  S!Copied' /\ S!UploadedIsKept'
<1>1. PICK p, X : p = S!P(t) /\ X = {p}
  OBVIOUS
<1>2. /\ S!Uses(thread[t]) = X /\ S!Remove(S!File(p)) /\ S!Disown({p}) /\ UNCHANGED mixed
      /\ \A o \in Threads \ {t} : thread'[o] = thread[o]
      /\ ~ S!At(t, "rename", "delete")'
  BY <1>1 DEF S!UnlinkDelete, S!TruncateDelete, S!At, S!Uses, S!P, S!Still, S!Stop, S!TypeOK, S!Idle
<1>3. \A x : x # p => SameFile(x)
  BY <1>2, FileRemove
<1>4. \A x \in DOMAIN owed' : x # p /\ x \in DOMAIN owed /\ owed'[x] = owed[x]
  BY <1>2, DisownFacts
<1>. QED
  BY <1>1, <1>2, <1>3, <1>4, OwnNames, FilesKept DEF SameFile

LEMMA RenameSteps ==
  ASSUME S!TypeOK, S!Apart, S!Copied, S!UploadedIsKept, NEW t \in Threads,
         S!RenameCopy(t) \/ S!RenameDelete(t)
  PROVE  S!Copied' /\ S!UploadedIsKept'
<1>1. PICK p, q : p = S!P(t) /\ q = thread[t].to
  OBVIOUS
<1>2. thread[t] # S!Idle /\ p # q /\ S!Uses(thread[t]) = {p, q} /\ thread[t].op = "rename"
  BY <1>1, ThreadFields DEF S!RenameCopy, S!RenameDelete, S!At, S!P, S!Uses
<1>3. CASE S!RenameCopy(t) /\ S!Has(S!File(p))
  <2>1. PICK X : X = {q}
    OBVIOUS
  <2>2. /\ S!Put(S!File(q), objects[S!File(p)]) /\ S!Disown({q}) /\ S!Goto(t, "delete")
        /\ UNCHANGED mixed
    BY <1>1, <1>3 DEF S!RenameCopy, S!Still
  <2>3. /\ \A x : x # q => SameFile(x)
        /\ S!Has(S!File(q))' /\ objects'[S!File(q)] = objects[S!File(p)]
    BY <2>2, FilePut
  <2>4. \A x \in DOMAIN owed' : x # q /\ x \in DOMAIN owed /\ owed'[x] = owed[x]
    BY <2>2, DisownFacts
  <2>5. thread'[t].to = q /\ thread'[t].path = p /\ \A o \in Threads \ {t} : thread'[o] = thread[o]
    BY <1>1, <1>2, <2>2, GotoFields DEF S!P
  <2>6. /\ S!Has(S!File(p))' /\ objects'[S!File(q)] = objects'[S!File(p)]
    BY <1>2, <1>3, <2>3 DEF SameFile
  <2>. QED
    BY <1>1, <1>2, <2>1, <2>2, <2>3, <2>4, <2>5, <2>6, OwnNames, FilesKept DEF SameFile, S!P
<1>4. CASE S!RenameCopy(t) /\ ~ S!Has(S!File(p))
  <2>1. S!Stop(t) /\ UNCHANGED <<objects, owed, mixed>>
    BY <1>1, <1>4 DEF S!RenameCopy, S!Fail, S!Still
  <2>2. ~ S!At(t, "rename", "delete")' /\ \A o \in Threads \ {t} : thread'[o] = thread[o]
    BY <2>1, StopFields DEF S!At
  <2>. QED
    BY <2>1, <2>2, NoFileTouched DEF SameFile, S!Has
<1>5. CASE S!RenameDelete(t)
  <2>1. PICK X : X = {p, q}
    OBVIOUS
  <2>2. /\ S!Remove(S!File(p)) /\ S!Stop(t) /\ S!At(t, "rename", "delete")
        /\ owed' = IF p \notin DOMAIN owed THEN owed
                   ELSE S!With(S!Restrict(owed, DOMAIN owed \ {p}), q, owed[p])
        /\ mixed' = IF p \in mixed THEN mixed \cup {q} ELSE mixed
    BY <1>1, <1>5 DEF S!RenameDelete
  <2>3. ~ S!At(t, "rename", "delete")' /\ \A o \in Threads \ {t} : thread'[o] = thread[o]
    BY <2>2, StopFields DEF S!At
  <2>4. \A x : x # p => SameFile(x)
    BY <2>2, FileRemove
  <2>5. /\ p \notin DOMAIN owed'
        /\ \A x \in DOMAIN owed' : x # q => x \in DOMAIN owed /\ owed'[x] = owed[x]
        /\ q \in DOMAIN owed' /\ p \in DOMAIN owed => owed'[q] = owed[p]
        /\ q \in DOMAIN owed' /\ p \notin DOMAIN owed => q \in DOMAIN owed /\ owed'[q] = owed[q]
    BY <1>2, <2>2 DEF S!With, S!Restrict
  <2>6. ASSUME q \in DOMAIN owed' \ mixed'
        PROVE  S!Has(S!File(q))' /\ objects'[S!File(q)] = owed'[q]
    <3>1. p \notin mixed /\ q \notin mixed
      BY <2>2, <2>6
    <3>2. /\ S!Has(S!File(p)) /\ S!Has(S!File(q)) /\ objects[S!File(q)] = objects[S!File(p)]
      BY <1>1, <1>2, <2>2, <3>1 DEF S!Copied
    <3>3. CASE p \in DOMAIN owed
      <4>1. objects[S!File(p)] = owed[p]
        BY <3>1, <3>3 DEF S!UploadedIsKept
      <4>. QED
        BY <1>2, <2>4, <2>5, <2>6, <3>2, <3>3, <4>1 DEF SameFile
    <3>4. CASE p \notin DOMAIN owed
      <4>1. q \in DOMAIN owed /\ owed'[q] = owed[q] /\ objects[S!File(q)] = owed[q]
        BY <2>5, <2>6, <3>1, <3>4 DEF S!UploadedIsKept
      <4>. QED
        BY <1>2, <2>4, <3>2, <4>1 DEF SameFile
    <3>. QED
      BY <3>3, <3>4
  <2>7. mixed \subseteq mixed'
    BY <2>2
  <2>. QED
    BY <1>2, <2>1, <2>3, <2>4, <2>5, <2>6, <2>7, OwnNames, FilesKept DEF SameFile
<1>. QED
  BY <1>3, <1>4, <1>5

LEMMA StoreFiles ==
  ASSUME S!StoreInv, S!Next PROVE S!Copied' /\ S!UploadedIsKept'
<1>0. S!TypeOK /\ S!Apart /\ S!Copied /\ S!UploadedIsKept
  BY DEF S!StoreInv
<1>1. ASSUME NEW t \in Threads, S!Begin(t) PROVE S!Copied' /\ S!UploadedIsKept'
  <2>1. PICK r : S!Start(t, r) /\ (r.at # "delete" \/ r.op # "rename")
    <3>1. ASSUME NEW p, NEW o, S!Start(t, [op |-> o, path |-> p, at |-> "look"])
          PROVE  \E r : S!Start(t, r) /\ (r.at # "delete" \/ r.op # "rename")
      BY <3>1
    <3>2. ASSUME NEW p, NEW o \in {"create", "open", "truncate", "unlink"}, NEW a,
                 S!Start(t, [op |-> o, path |-> p, at |-> a])
          PROVE  \E r : S!Start(t, r) /\ (r.at # "delete" \/ r.op # "rename")
      BY <3>2
    <3>3. ASSUME NEW p, NEW q,
                 S!Start(t, [op |-> "rename", path |-> p, to |-> q, at |-> "look"])
          PROVE  \E r : S!Start(t, r) /\ (r.at # "delete" \/ r.op # "rename")
      BY <3>3
    <3>. QED
      BY <1>1, <3>1, <3>2, <3>3 DEF S!Begin
  <2>2. /\ UNCHANGED <<objects, owed>> /\ mixed \subseteq mixed'
        /\ \A o \in Threads \ {t} : thread'[o] = thread[o]
        /\ ~ S!At(t, "rename", "delete")'
    BY <1>0, <1>1, <2>1 DEF S!Begin, S!Start, S!At, S!TypeOK
  <2>. QED
    BY <1>0, <2>2, NoFileTouched DEF SameFile, S!Has
<1>2. ASSUME NEW t \in Threads, S!CreatePut(t) \/ S!TruncatePut(t)
      PROVE  S!Copied' /\ S!UploadedIsKept'
  <2>1. PICK p, X : p = S!P(t) /\ X = {p}
    OBVIOUS
  <2>2. /\ S!Put(S!File(p), 0) /\ S!Owe(p, 0) /\ UNCHANGED mixed /\ S!Stop(t)
        /\ S!Uses(thread[t]) = X
    BY <1>2, <2>1 DEF S!CreatePut, S!TruncatePut, S!At, S!Uses, S!P, S!Still
  <2>3. ~ S!At(t, "rename", "delete")' /\ \A o \in Threads \ {t} : thread'[o] = thread[o]
    BY <1>0, <2>2, StopFields DEF S!At
  <2>. QED
    BY <1>0, <2>1, <2>2, <2>3, OwnNames, UploadSteps
<1>3. ASSUME NEW t \in Threads, S!Release(t) PROVE S!Copied' /\ S!UploadedIsKept'
  <2>1. PICK p : p = handles[t].path
    OBVIOUS
  <2>2. /\ UNCHANGED <<thread, mixed>> /\ t \in DOMAIN handles /\ thread[t] = S!Idle
        /\ \/ S!Put(S!File(p), handles[t].tmp) /\ S!Owe(p, handles[t].tmp)
           \/ UNCHANGED <<objects, owed>>
    BY <1>3, <2>1 DEF S!Release
  <2>3. ~ S!At(t, "rename", "delete")'
    BY <2>2 DEF S!At, S!Idle
  <2>4. CASE UNCHANGED <<objects, owed>>
    BY <1>0, <2>2, <2>3, <2>4, NoFileTouched DEF SameFile, S!Has
  <2>5. \A o \in Threads \ {t} : S!Uses(thread[o]) \cap {p} # {} => S!Uses(thread[o]) \subseteq mixed
    BY <1>0, <2>1, <2>2 DEF S!Apart
  <2>6. PICK c : c = handles[t].tmp
    OBVIOUS
  <2>. QED
    BY <1>0, <2>2, <2>3, <2>4, <2>5, <2>6, UploadSteps
<1>4. ASSUME NEW t \in Threads, S!Write(t) PROVE S!Copied' /\ S!UploadedIsKept'
  BY <1>0, <1>4 DEF S!Write, S!Copied, S!UploadedIsKept, S!At, S!P, S!Has
<1>5. CASE S!Die
  BY <1>0, <1>5 DEF S!Die, S!Copied, S!UploadedIsKept, S!At, S!Has, S!Idle
<1>. QED
  BY <1>0, <1>1, <1>2, <1>3, <1>4, <1>5, QuietSteps, DeleteSteps, RenameSteps DEF S!Next

LEMMA StoreInit == S!Init => S!StoreInv
BY DEF S!Init, S!StoreInv, S!TypeOK, S!Apart, S!Copied, S!UploadedIsKept, S!Requests,
       S!Uses, S!At, S!Idle

LEMMA StoreNext == ASSUME S!StoreInv, S!Next PROVE S!StoreInv'
BY StoreTypes, StoreApart, StoreFiles DEF S!StoreInv

\* Whatever requests fail and wherever the process dies, what was uploaded is in the
\* storage under its name, or under the one it was renamed to, as long as no two
\* operations overlapped on them.
THEOREM UploadsAreKept == Spec => []UploadedIsKept
<1> DEFINE Inv == which = "s3" => S!StoreInv
<1>1. Init => Inv
  BY StoreInit DEF Init
<1>2. Inv /\ [Next]_all => Inv'
  <2> SUFFICES ASSUME Inv, [Next]_all, which' = "s3" PROVE S!StoreInv'
    OBVIOUS
  <2>1. CASE UNCHANGED all
    BY <2>1 DEF all, S!StoreInv, S!TypeOK, S!Apart, S!Copied, S!UploadedIsKept, S!At, S!P, S!Has
  <2>2. CASE which = "s3" /\ S!Next
    BY <2>2, StoreNext
  <2>. QED
    BY <2>1, <2>2 DEF Next
<1>3. Inv => UploadedIsKept
  BY DEF S!StoreInv, UploadedIsKept
<1>. QED
  BY <1>1, <1>2, <1>3, PTL DEF Spec

-----------------------------------------------------------------------------
(* The CSI plugin: what is mounted on a path *)

LEMMA StackFacts ==
  ASSUME NEW s \in Seq(N!Layers)
  PROVE  /\ s # N!Absent /\ N!Pop(s) \in Seq(N!Layers) /\ N!Shows(s) \in N!Layers
         /\ N!Died(s) \in Seq(N!Layers) /\ N!CleanUp(s) \in N!Stacks
         /\ \A x \in N!Layers : Append(s, x) \in Seq(N!Layers)
<1>1. s # N!Absent
  <2>1. N!Absent[1] = "absent" /\ Len(N!Absent) = 1
    BY DEF N!Absent
  <2>2. CASE s = N!Absent
    <3>1. Len(s) = 1 /\ s[1] = "absent"
      BY <2>1, <2>2
    <3>2. s[1] \in N!Layers
      <4>1. PICK n : n = Len(s)
        OBVIOUS
      <4>2. 1 \in 1..n
        BY <3>1, <4>1
      <4>3. \A i \in 1..n : s[i] \in N!Layers
        BY <4>1
      <4> QED
        BY <4>2, <4>3
    <3>. QED
      BY <3>1, <3>2 DEF N!Layers
  <2>. QED
    BY <2>2
<1>2. \A z \in Seq(N!Layers) : N!Pop(z) \in Seq(N!Layers)
  <2> SUFFICES ASSUME NEW z \in Seq(N!Layers) PROVE N!Pop(z) \in Seq(N!Layers)
    OBVIOUS
  <2>1. CASE z = <<>>
    BY <2>1 DEF N!Pop
  <2>2. CASE z # <<>>
    <3>1. Len(z) \in Nat \ {0}
      BY <2>2
    <3>2. SubSeq(z, 1, Len(z) - 1) \in Seq(N!Layers)
      BY <3>1
    <3>. QED
      BY <2>2, <3>2 DEF N!Pop
  <2>. QED
    BY <2>1, <2>2
<1>3. N!Shows(s) \in N!Layers
  <2>1. CASE s = <<>>
    BY <2>1 DEF N!Shows, N!Layers
  <2>2. CASE s # <<>>
    <3>1. Len(s) \in 1..Len(s)
      BY <2>2
    <3>2. s[Len(s)] \in N!Layers
      BY <3>1
    <3>. QED
      BY <2>2, <3>2 DEF N!Shows, N!Top
  <2>. QED
    BY <2>1, <2>2
<1>4. N!Died(s) \in Seq(N!Layers)
  <2>1. N!Died(s) = [i \in 1..Len(s) |-> IF s[i] = "fuse" THEN "dead" ELSE s[i]]
    BY <1>1 DEF N!Died
  <2>2. \A i \in 1..Len(s) : (IF s[i] = "fuse" THEN "dead" ELSE s[i]) \in N!Layers
    BY DEF N!Layers
  <2>. QED
    BY <2>1, <2>2
<1>5. N!CleanUp(s) \in N!Stacks
  BY <1>2 DEF N!CleanUp, N!Stacks
<1>6. \A x \in N!Layers : Append(s, x) \in Seq(N!Layers)
  OBVIOUS
<1>. QED
  BY <1>1, <1>2, <1>3, <1>4, <1>5, <1>6

\* The same of a path that may be missing.
LEMMA PathFacts ==
  ASSUME NEW s \in N!Stacks
  PROVE  /\ s # N!Absent => s \in Seq(N!Layers)
         /\ N!Died(s) \in N!Stacks /\ (N!Died(s) = N!Absent <=> s = N!Absent)
         /\ N!CleanUp(s) \in N!Stacks
<1>1. CASE s = N!Absent
  BY <1>1 DEF N!Died, N!CleanUp, N!Stacks
<1>2. CASE s # N!Absent
  <2>1. s \in Seq(N!Layers)
    BY <1>2 DEF N!Stacks
  <2>2. N!Died(s) \in Seq(N!Layers) /\ N!CleanUp(s) \in N!Stacks
    BY <2>1, StackFacts
  <2>3. N!Died(s) # N!Absent
    BY <2>2, StackFacts
  <2>. QED
    BY <1>2, <2>1, <2>2, <2>3 DEF N!Stacks
<1>. QED
  BY <1>1, <1>2

-----------------------------------------------------------------------------
(* The CSI plugin: types *)

LEMMA KubeletTypes ==
  ASSUME N!TypeOK, N!CallsInv, NEW p \in Pods,
         N!Schedule(p) \/ N!Delete(p) \/ N!Kubelet(p) \/ N!FuseDies(p)
  PROVE  N!TypeOK'
<1>1. src[p] \in N!Stacks /\ bind[p] \in N!Stacks /\ N!Absent \in N!Stacks /\ <<>> \in N!Stacks
  BY DEF N!TypeOK, N!Stacks
<1> USE DEF N!Set
<1>2. CASE N!Schedule(p) \/ N!Delete(p)
  BY <1>2 DEF N!TypeOK, N!Schedule, N!Delete, N!Controller
<1>3. CASE N!NodePublishVolume(p)
  <2> DEFINE made == IF src[p] = N!Absent THEN <<>> ELSE src[p]
             held == IF bind[p] = N!Absent THEN <<>> ELSE bind[p]
  <2>1. made \in Seq(N!Layers) /\ held \in N!Stacks
    BY <1>1, PathFacts
  <2>2. made \in N!Stacks /\ Append(made, "fuse") \in N!Stacks
    <3> HIDE DEF made
    <3>. QED
      BY <2>1, StackFacts DEF N!Stacks, N!Layers
  <2>3. /\ src' = [src EXCEPT ![p] = made] \/ src' = [src EXCEPT ![p] = Append(made, "fuse")]
        /\ bind' = [bind EXCEPT ![p] = held]
        /\ rpc' = rpc \/ rpc' = [rpc EXCEPT ![p] = "bind"]
        /\ UNCHANGED pod /\ UNCHANGED N!Controller
    BY <1>3 DEF N!NodePublishVolume
  <2> HIDE DEF made, held
  <2>. QED
    BY <2>1, <2>2, <2>3 DEF N!TypeOK, N!Controller
<1>4. CASE N!BindMountVolume(p)
  <2> DEFINE held == IF N!Mounted(bind[p]) THEN bind[p] ELSE <<N!Shows(src[p])>>
  <2>1. held \in N!Stacks
    <3>1. N!Shows(src[p]) \in N!Layers
      <4>1. src[p] # N!Absent
        BY <1>4 DEF N!CallsInv, N!BindMountVolume
      <4>. QED
        BY <1>1, <4>1, PathFacts, StackFacts
    <3>2. <<N!Shows(src[p])>> \in Seq(N!Layers)
      BY <3>1
    <3>. QED
      BY <1>1, <3>2 DEF N!Stacks
  <2>2. /\ bind' = bind \/ bind' = [bind EXCEPT ![p] = held]
        /\ rpc' = [rpc EXCEPT ![p] = "idle"] \/ rpc' = [rpc EXCEPT ![p] = "published"]
        /\ UNCHANGED <<pod, src>> /\ UNCHANGED N!Controller
    BY <1>4 DEF N!BindMountVolume
  <2> HIDE DEF held
  <2>. QED
    BY <2>1, <2>2 DEF N!TypeOK, N!Controller
<1>5. CASE N!NodeUnpublishVolume(p)
  <2>1. N!CleanUp(bind[p]) \in N!Stacks
    BY <1>1, PathFacts
  <2>. QED
    BY <1>5, <2>1 DEF N!TypeOK, N!NodeUnpublishVolume, N!Controller
<1>6. CASE N!CleanUpSource(p)
  <2>1. N!CleanUp(src[p]) \in N!Stacks
    BY <1>1, PathFacts
  <2>. QED
    BY <1>6, <2>1 DEF N!TypeOK, N!CleanUpSource, N!Controller
<1>7. CASE N!FuseDies(p)
  <2>1. N!Died(src[p]) \in N!Stacks /\ N!Died(bind[p]) \in N!Stacks
    BY <1>1, PathFacts
  <2>. QED
    BY <1>7, <2>1 DEF N!TypeOK, N!FuseDies, N!Controller
<1>. QED
  BY <1>2, <1>3, <1>4, <1>5, <1>6, <1>7 DEF N!Kubelet

LEMMA ControllerTypes ==
  ASSUME N!TypeOK, N!Next,
         ~ \E p \in Pods : N!Schedule(p) \/ N!Delete(p) \/ N!Kubelet(p) \/ N!FuseDies(p)
  PROVE  N!TypeOK'
<1> USE DEF N!Set
<1>1. ASSUME NEW p \in Pods, N!CheckPod(p) \/ N!CheckIfNeedRemount(p) \/ N!CheckBind(p)
      PROVE  N!TypeOK'
  <2>1. UNCHANGED N!NotMounts
    BY <1>1 DEF N!CheckPod, N!CheckIfNeedRemount, N!CheckBind
  <2>2. UNCHANGED <<seen, main, updater>> /\ todo' \subseteq Pods /\ removed' \subseteq Pods
    BY <1>1 DEF N!TypeOK, N!CheckPod, N!CheckIfNeedRemount, N!CheckBind
  <2>3. work' \in [Pods -> {"idle", "check", "umount", "mount", "checkBind", "bind"}]
    BY <1>1 DEF N!TypeOK, N!CheckPod, N!CheckIfNeedRemount, N!CheckBind
  <2>. QED
    BY <2>1, <2>2, <2>3 DEF N!TypeOK, N!NotMounts
<1>2. ASSUME NEW p \in Pods, N!Umount(p) \/ N!Mount(p) PROVE N!TypeOK'
  <2>1. src[p] \in N!Stacks
    BY DEF N!TypeOK
  <2>2. src[p] # N!Absent =>
          N!Pop(src[p]) \in N!Stacks /\ Append(src[p], "fuse") \in N!Stacks
    BY <2>1, PathFacts, StackFacts DEF N!Stacks, N!Layers
  <2>3. src' \in [Pods -> N!Stacks]
    <3>1. \/ src' = src
          \/ src[p] # N!Absent /\ src' = [src EXCEPT ![p] = N!Pop(src[p])]
          \/ src[p] # N!Absent /\ src' = [src EXCEPT ![p] = Append(src[p], "fuse")]
      BY <1>2 DEF N!Umount, N!Mount, N!TypeOK
    <3>. QED
      BY <2>2, <3>1 DEF N!TypeOK
  <2>. QED
    BY <1>2, <2>3 DEF N!TypeOK, N!Umount, N!Mount
<1>3. ASSUME NEW p \in Pods, N!RemountBind(p) PROVE N!TypeOK'
  <2>1. src[p] \in N!Stacks /\ bind[p] \in N!Stacks
    BY DEF N!TypeOK
  <2>2. src[p] # N!Absent /\ bind[p] # N!Absent => Append(bind[p], N!Shows(src[p])) \in N!Stacks
    <3> SUFFICES ASSUME src[p] # N!Absent, bind[p] # N!Absent
                 PROVE  Append(bind[p], N!Shows(src[p])) \in N!Stacks
      OBVIOUS
    <3>1. N!Shows(src[p]) \in N!Layers /\ bind[p] \in Seq(N!Layers)
      BY <2>1, PathFacts, StackFacts
    <3>. QED
      BY <3>1, StackFacts DEF N!Stacks
  <2>3. bind' \in [Pods -> N!Stacks]
    <3>1. \/ bind' = bind
          \/ /\ src[p] # N!Absent /\ bind[p] # N!Absent
             /\ bind' = [bind EXCEPT ![p] = Append(bind[p], N!Shows(src[p]))]
      BY <1>3 DEF N!RemountBind
    <3>. QED
      BY <2>2, <3>1 DEF N!TypeOK
  <2>. QED
    BY <1>3, <2>3 DEF N!TypeOK, N!RemountBind
<1>4. CASE N!PluginRestarts
  <2>1. /\ src' \in [Pods -> N!Stacks] /\ bind' \in [Pods -> N!Stacks]
    BY <1>4, PathFacts DEF N!PluginRestarts, N!TypeOK
  <2>2. seen' \in [Pods -> {N!NoPod, "live", "terminating"}]
    BY <1>4 DEF N!PluginRestarts, N!Listed
  <2>3. rpc' \in [Pods -> {"idle", "bind", "published", "cleanSource", "unpublish"}]
    BY <1>4 DEF N!PluginRestarts, N!TypeOK
  <2>. QED
    BY <1>4, <2>1, <2>2, <2>3 DEF N!TypeOK, N!PluginRestarts
<1>5. CASE N!RoundOver \/ N!Interval \/ N!UpdaterWakes \/ N!Stop \/ N!Stopped
  <2>1. UNCHANGED <<pod, rpc, src, bind, seen, removed, work>>
    <3>1. N!RoundOver => UNCHANGED <<pod, rpc, src, bind, seen, removed, work>>
      BY DEF N!RoundOver, N!NotMounts
    <3>2. N!Interval => UNCHANGED <<pod, rpc, src, bind, seen, removed, work>>
      BY DEF N!Interval, N!NotMounts
    <3>3. N!UpdaterWakes => UNCHANGED <<pod, rpc, src, bind, seen, removed, work>>
      BY DEF N!UpdaterWakes, N!NotMounts
    <3>4. N!Stop => UNCHANGED <<pod, rpc, src, bind, seen, removed, work>>
      BY DEF N!Stop, N!NotMounts
    <3>5. N!Stopped => UNCHANGED <<pod, rpc, src, bind, seen, removed, work>>
      BY DEF N!Stopped, N!NotMounts
    <3>. QED
      BY <1>5, <3>1, <3>2, <3>3, <3>4, <3>5
  <2>2. main \in {"wait", "round", "stopped"} /\ todo \subseteq Pods /\ updater \in {"sleep", "send", "stopped"}
    BY DEF N!TypeOK
  <2>3. /\ main' \in {"wait", "round", "stopped"} /\ todo' \subseteq Pods
        /\ updater' \in {"sleep", "send", "stopped"}
    <3>1. N!RoundOver => main' = "wait" /\ todo' = todo /\ updater' = updater
      BY DEF N!RoundOver
    <3>2. N!Interval => main' = "round" /\ todo' = Pods /\ updater' = updater
      BY DEF N!Interval
    <3>3. N!UpdaterWakes => main' = main /\ todo' = todo /\ updater' = "send"
      BY DEF N!UpdaterWakes
    <3>4. N!Stop => main' = main /\ todo' = todo /\ updater' = updater
      BY DEF N!Stop
    <3>5. N!Stopped => main' \in {main, "stopped"} /\ todo' = todo /\ updater' \in {updater, "stopped"}
      BY DEF N!Stopped
    <3>. QED
      BY <1>5, <2>2, <3>1, <3>2, <3>3, <3>4, <3>5
  <2>. QED
    BY <2>1, <2>2, <2>3 DEF N!TypeOK
<1>6. CASE N!UpdatePodMap
  <2>1. seen' \in [Pods -> {N!NoPod, "live", "terminating"}] /\ removed' \subseteq Pods
    BY <1>6 DEF N!UpdatePodMap, N!Listed, N!TypeOK
  <2>. QED
    BY <1>6, <2>1 DEF N!TypeOK, N!UpdatePodMap, N!NotMounts
<1>. QED
  BY <1>1, <1>2, <1>3, <1>4, <1>5, <1>6 DEF N!Next, N!Repairs, N!Loop

-----------------------------------------------------------------------------
(* The CSI plugin: nothing is mounted for a pod that is gone *)

LEMMA VolumesEnd == ASSUME N!VolumeInv, N!Next PROVE N!CallsInv' /\ N!NoMountLeft'
<1>1. N!TypeOK /\ N!CallsInv /\ N!NoMountLeft
  BY DEF N!VolumeInv
<1>2. \A p \in Pods : src[p] \in N!Stacks /\ bind[p] \in N!Stacks
  BY <1>1 DEF N!TypeOK
<1> USE DEF N!Set, N!CallsInv, N!NoMountLeft
\* What a step of one pod leaves of the others.
<1>3. ASSUME NEW p \in Pods,
             \A q \in Pods \ {p} : /\ pod'[q] = pod[q] /\ rpc'[q] = rpc[q]
                                   /\ src'[q] = src[q] /\ bind'[q] = bind[q],
             rpc'[p] = "bind" => src'[p] # N!Absent,
             pod'[p] = "gone" => rpc'[p] = "idle" /\ src'[p] = N!Absent /\ bind'[p] = N!Absent
      PROVE  N!CallsInv' /\ N!NoMountLeft'
  BY <1>1, <1>3
<1>4. ASSUME NEW p \in Pods, N!Schedule(p) \/ N!Delete(p) PROVE N!CallsInv' /\ N!NoMountLeft'
  <2>1. /\ UNCHANGED <<rpc, src, bind>> /\ pod'[p] # "gone"
        /\ \A q \in Pods \ {p} : pod'[q] = pod[q]
    BY <1>1, <1>4 DEF N!Schedule, N!Delete, N!TypeOK
  <2>. QED
    BY <1>1, <1>3, <2>1
<1>5. ASSUME NEW p \in Pods, N!NodePublishVolume(p) PROVE N!CallsInv' /\ N!NoMountLeft'
  <2>1. /\ pod' = pod /\ pod[p] = "live" /\ rpc[p] = "idle"
        /\ \A q \in Pods \ {p} : rpc'[q] = rpc[q] /\ src'[q] = src[q] /\ bind'[q] = bind[q]
    BY <1>1, <1>5 DEF N!NodePublishVolume, N!TypeOK
  <2>2. rpc'[p] = "bind" => src'[p] # N!Absent
    <3> DEFINE made == IF src[p] = N!Absent THEN <<>> ELSE src[p]
    <3>1. made \in Seq(N!Layers)
      BY <1>2, PathFacts
    <3>2. rpc'[p] = "bind" => src'[p] = Append(made, "fuse")
      BY <1>1, <1>5 DEF N!NodePublishVolume, N!TypeOK
    <3> HIDE DEF made
    <3>3. Append(made, "fuse") \in Seq(N!Layers)
      BY <3>1, StackFacts DEF N!Layers
    <3>. QED
      BY <3>2, <3>3, StackFacts
  <2>. QED
    BY <1>3, <2>1, <2>2
<1>6. ASSUME NEW p \in Pods, N!BindMountVolume(p) PROVE N!CallsInv' /\ N!NoMountLeft'
  <2>1. /\ UNCHANGED <<pod, src>> /\ rpc[p] = "bind" /\ rpc'[p] # "bind"
        /\ \A q \in Pods \ {p} : rpc'[q] = rpc[q] /\ bind'[q] = bind[q]
    BY <1>1, <1>6 DEF N!BindMountVolume, N!TypeOK
  <2>. QED
    BY <1>1, <1>3, <2>1
<1>7. ASSUME NEW p \in Pods, N!NodeUnpublishVolume(p) PROVE N!CallsInv' /\ N!NoMountLeft'
  <2>1. /\ UNCHANGED <<pod, src>> /\ pod[p] = "terminating" /\ rpc'[p] = "cleanSource"
        /\ \A q \in Pods \ {p} : rpc'[q] = rpc[q] /\ bind'[q] = bind[q]
    BY <1>1, <1>7 DEF N!NodeUnpublishVolume, N!TypeOK
  <2>. QED
    BY <1>3, <2>1
<1>8. ASSUME NEW p \in Pods, N!CleanUpSource(p) PROVE N!CallsInv' /\ N!NoMountLeft'
  <2>1. /\ bind' = bind /\ rpc[p] = "cleanSource" /\ rpc'[p] # "bind"
        /\ \A q \in Pods \ {p} : pod'[q] = pod[q] /\ rpc'[q] = rpc[q] /\ src'[q] = src[q]
        /\ \/ bind[p] = N!Absent /\ src'[p] = N!Absent /\ rpc'[p] = "idle"
           \/ pod' = pod
    BY <1>1, <1>8 DEF N!CleanUpSource, N!TypeOK
  <2>. QED
    BY <1>1, <1>3, <2>1
<1>9. ASSUME NEW p \in Pods, N!FuseDies(p) PROVE N!CallsInv' /\ N!NoMountLeft'
  <2>1. /\ UNCHANGED <<pod, rpc>> /\ src'[p] = N!Died(src[p]) /\ bind'[p] = N!Died(bind[p])
        /\ \A q \in Pods \ {p} : src'[q] = src[q] /\ bind'[q] = bind[q]
    BY <1>1, <1>9 DEF N!FuseDies, N!TypeOK
  <2>2. /\ src'[p] = N!Absent <=> src[p] = N!Absent
        /\ bind'[p] = N!Absent <=> bind[p] = N!Absent
    BY <1>2, <2>1, PathFacts
  <2>. QED
    BY <1>1, <1>3, <2>1, <2>2
<1>10. CASE N!PluginRestarts
  <2>1. ASSUME NEW p \in Pods
        PROVE  /\ pod'[p] = pod[p] /\ src'[p] = N!Died(src[p]) /\ bind'[p] = N!Died(bind[p])
               /\ rpc'[p] # "bind"
               /\ rpc[p] = "idle" => rpc'[p] = "idle"
    BY <1>1, <1>10 DEF N!PluginRestarts, N!TypeOK
  <2>2. \A p \in Pods : N!Died(src[p]) = N!Absent <=> src[p] = N!Absent
    BY <1>2, PathFacts
  <2>3. \A p \in Pods : N!Died(bind[p]) = N!Absent <=> bind[p] = N!Absent
    BY <1>2, PathFacts
  <2>. QED
    BY <1>1, <2>1, <2>2, <2>3
<1>11. ASSUME NEW p \in Pods, N!Umount(p) \/ N!Mount(p) PROVE N!CallsInv' /\ N!NoMountLeft'
  <2>1. /\ UNCHANGED <<pod, rpc, bind>> /\ \A q \in Pods \ {p} : src'[q] = src[q]
        /\ \/ src'[p] = src[p]
           \/ src[p] # N!Absent /\ src'[p] = N!Pop(src[p])
           \/ src[p] # N!Absent /\ src'[p] = Append(src[p], "fuse")
    BY <1>1, <1>11 DEF N!Umount, N!Mount, N!TypeOK
  <2>2. src[p] # N!Absent =>
          N!Pop(src[p]) # N!Absent /\ Append(src[p], "fuse") # N!Absent
    <3>1. src[p] # N!Absent =>
            N!Pop(src[p]) \in Seq(N!Layers) /\ Append(src[p], "fuse") \in Seq(N!Layers)
      BY <1>2, PathFacts, StackFacts DEF N!Layers
    <3>. QED
      BY <3>1, StackFacts
  <2>. QED
    BY <1>1, <1>3, <2>1, <2>2
<1>12. ASSUME NEW p \in Pods, N!RemountBind(p) PROVE N!CallsInv' /\ N!NoMountLeft'
  <2>1. /\ UNCHANGED <<pod, rpc, src>> /\ \A q \in Pods \ {p} : bind'[q] = bind[q]
        /\ bind'[p] = bind[p] \/ src[p] # N!Absent
    BY <1>1, <1>12 DEF N!RemountBind, N!TypeOK
  <2>. QED
    BY <1>1, <1>3, <2>1
<1>13. ASSUME UNCHANGED <<pod, rpc, src, bind>> PROVE N!CallsInv' /\ N!NoMountLeft'
  BY <1>1, <1>13
<1>14. ASSUME \/ \E p \in Pods : N!CheckPod(p) \/ N!CheckIfNeedRemount(p) \/ N!CheckBind(p)
              \/ N!Loop \/ N!Stop \/ N!Stopped
       PROVE  UNCHANGED <<pod, rpc, src, bind>>
  BY <1>14 DEF N!CheckPod, N!CheckIfNeedRemount, N!CheckBind, N!Loop, N!RoundOver, N!Interval,
     N!UpdaterWakes, N!UpdatePodMap, N!Stop, N!Stopped, N!NotMounts
<1>. QED
  BY <1>4, <1>5, <1>6, <1>7, <1>8, <1>9, <1>10, <1>11, <1>12, <1>13, <1>14
     DEF N!Next, N!Kubelet, N!Repairs

LEMMA VolumeInit == N!Init => N!VolumeInv
BY DEF N!Init, N!VolumeInv, N!TypeOK, N!CallsInv, N!NoMountLeft, N!Stacks

LEMMA VolumeNext == ASSUME N!VolumeInv, N!Next PROVE N!VolumeInv'
<1>1. N!TypeOK'
  BY KubeletTypes, ControllerTypes DEF N!VolumeInv
<1>. QED
  BY <1>1, VolumesEnd DEF N!VolumeInv

\* Kubelet lets a pod go when both its paths are gone, and no repair, from however
\* old a list of pods, mounts anything for it afterwards.
THEOREM MountsAreGone == Spec => []NoMountLeft
<1> DEFINE Inv == which = "csi" => N!VolumeInv
<1>1. Init => Inv
  BY VolumeInit DEF Init
<1>2. Inv /\ [Next]_all => Inv'
  <2> SUFFICES ASSUME Inv, [Next]_all, which' = "csi" PROVE N!VolumeInv'
    OBVIOUS
  <2>1. CASE UNCHANGED all
    BY <2>1 DEF all, N!VolumeInv, N!TypeOK, N!CallsInv, N!NoMountLeft
  <2>2. CASE which = "csi" /\ N!Next
    BY <2>2, VolumeNext
  <2>. QED
    BY <2>1, <2>2 DEF Next
<1>3. Inv => NoMountLeft
  BY DEF N!VolumeInv, NoMountLeft
<1>. QED
  BY <1>1, <1>2, <1>3, PTL DEF Spec
=============================================================================
